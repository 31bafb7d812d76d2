----------------------- MODULE SystemTaskLeaseProofs -----------------------
(* What holds of SystemTaskLease for every set of runners and tasks and      *)
(* every TTL, with failing statements, slow renewals and crashes; with slow  *)
(* claims too, but for RunningIsLeased.  LiveLeaseWithoutFaults is about     *)
(* what holds without any of them.                                           *)
EXTENDS SystemTaskLease, TLAPS

\* A runner that is claiming knows which task.
ClaimsATask ==
  \A r \in Runners : at[r] \in {"acquire", "takeover"} \cup Claiming => todo[r] \in Tasks

\* A row that was handed to a handler is never pending again.
StartedIsPast == \A h \in started : status[h[2]] \notin {"none", "pending"}

\* The inductive invariant.
IInv == TypeOK /\ ClaimsATask /\ StartedIsPast /\ RunsOnce

LEMMA InitInv == Init => IInv
<1> SUFFICES ASSUME Init PROVE IInv
  OBVIOUS
<1>1. TypeOK
  BY LeaseConstants DEF Init, TypeOK, Ended, Claiming
<1>2. ClaimsATask
  BY DEF Init, ClaimsATask, Claiming
<1>3. StartedIsPast /\ RunsOnce
  BY DEF Init, StartedIsPast, RunsOnce
<1> QED
  BY <1>1, <1>2, <1>3 DEF IInv

LEMMA CreateKeeps ==
  ASSUME IInv, NEW t \in Tasks, Create(t)
  PROVE  IInv'
<1>1. TypeOK /\ ClaimsATask /\ StartedIsPast /\ RunsOnce
  BY DEF IInv
<1>2. TypeOK'
  BY <1>1, LeaseConstants DEF TypeOK, ClaimsATask, Create, lock, pass, jobs, Ended, Claiming
<1>3. ClaimsATask'
  BY <1>1 DEF TypeOK, ClaimsATask, Create, lock, pass, jobs, Ended, Claiming
<1>4. StartedIsPast'
  BY <1>1 DEF TypeOK, StartedIsPast, Create, lock, pass, jobs, Ended, Claiming
<1>5. RunsOnce'
  BY <1>1 DEF RunsOnce, Create, lock, pass, jobs
<1> QED
  BY <1>2, <1>3, <1>4, <1>5 DEF IInv

LEMMA TickKeeps ==
  ASSUME IInv, Tick
  PROVE  IInv'
<1>1. TypeOK /\ ClaimsATask /\ StartedIsPast /\ RunsOnce
  BY DEF IInv
<1>2. TypeOK'
  BY <1>1, LeaseConstants DEF TypeOK, ClaimsATask, Tick, rows, pass, jobs, Ended, Claiming
<1>3. ClaimsATask'
  BY <1>1 DEF TypeOK, ClaimsATask, Tick, rows, pass, jobs, Ended, Claiming
<1>4. StartedIsPast'
  BY <1>1 DEF TypeOK, StartedIsPast, Tick, rows, pass, jobs, Ended, Claiming
<1>5. RunsOnce'
  BY <1>1 DEF RunsOnce, Tick, rows, pass, jobs
<1> QED
  BY <1>2, <1>3, <1>4, <1>5 DEF IInv

LEMMA FindPendingKeeps ==
  ASSUME IInv, NEW r \in Runners, NEW t \in Tasks, FindPending(r, t)
  PROVE  IInv'
<1>1. TypeOK /\ ClaimsATask /\ StartedIsPast /\ RunsOnce
  BY DEF IInv
<1>2. TypeOK'
  BY <1>1, LeaseConstants DEF TypeOK, ClaimsATask, FindPending, ReadClock, Expired, Goto, rows,
     jobs, Ended, Claiming
<1>3. ClaimsATask'
  BY <1>1 DEF TypeOK, ClaimsATask, FindPending, ReadClock, Expired, Goto, rows, jobs, Ended,
     Claiming
<1>4. StartedIsPast'
  BY <1>1 DEF TypeOK, StartedIsPast, FindPending, ReadClock, Expired, Goto, rows, jobs, Ended,
     Claiming
<1>5. RunsOnce'
  BY <1>1 DEF RunsOnce, FindPending, ReadClock, Expired, Goto, rows, jobs
<1> QED
  BY <1>2, <1>3, <1>4, <1>5 DEF IInv

LEMMA AcquireKeeps ==
  ASSUME IInv, NEW r \in Runners, Acquire(r)
  PROVE  IInv'
<1>1. TypeOK /\ ClaimsATask /\ StartedIsPast /\ RunsOnce
  BY DEF IInv
<1>2. TypeOK'
  BY <1>1, LeaseConstants DEF TypeOK, ClaimsATask, Acquire, TakeLock, Lease, Stale, Goto, rows,
     lock, jobs, Ended, Claiming
<1>3. ClaimsATask'
  BY <1>1 DEF TypeOK, ClaimsATask, Acquire, TakeLock, Lease, Stale, Goto, rows, lock, jobs,
     Ended, Claiming
<1>4. StartedIsPast'
  BY <1>1 DEF TypeOK, StartedIsPast, Acquire, TakeLock, Lease, Stale, Goto, rows, lock, jobs,
     Ended, Claiming
<1>5. RunsOnce'
  BY <1>1 DEF RunsOnce, Acquire, TakeLock, Lease, Stale, Goto, rows, lock, jobs
<1> QED
  BY <1>2, <1>3, <1>4, <1>5 DEF IInv

LEMMA TakeoverKeeps ==
  ASSUME IInv, NEW r \in Runners, Takeover(r)
  PROVE  IInv'
<1>1. TypeOK /\ ClaimsATask /\ StartedIsPast /\ RunsOnce
  BY DEF IInv
<1>2. TypeOK'
  BY <1>1, LeaseConstants DEF TypeOK, ClaimsATask, Takeover, TakeLock, Lease, Stale, Goto, rows,
     lock, jobs, Ended, Claiming
<1>3. ClaimsATask'
  BY <1>1 DEF TypeOK, ClaimsATask, Takeover, TakeLock, Lease, Stale, Goto, rows, lock, jobs,
     Ended, Claiming
<1>4. StartedIsPast'
  BY <1>1 DEF TypeOK, StartedIsPast, Takeover, TakeLock, Lease, Stale, Goto, rows, lock, jobs,
     Ended, Claiming
<1>5. RunsOnce'
  BY <1>1 DEF RunsOnce, Takeover, TakeLock, Lease, Stale, Goto, rows, lock, jobs
<1> QED
  BY <1>2, <1>3, <1>4, <1>5 DEF IInv

LEMMA MarkTakenKeeps ==
  ASSUME IInv, NEW r \in Runners, MarkTaken(r)
  PROVE  IInv'
<1>1. TypeOK /\ ClaimsATask /\ StartedIsPast /\ RunsOnce
  BY DEF IInv
<1>2. TypeOK'
  BY <1>1, LeaseConstants DEF TypeOK, ClaimsATask, MarkTaken, ExpireLease, Release, NoLock, Goto,
     rows, lock, jobs, Ended, Claiming
<1>3. ClaimsATask'
  BY <1>1 DEF TypeOK, ClaimsATask, MarkTaken, ExpireLease, Release, NoLock, Goto, rows, lock,
     jobs, Ended, Claiming
<1>4. StartedIsPast'
  BY <1>1 DEF TypeOK, StartedIsPast, MarkTaken, ExpireLease, Release, NoLock, Goto, rows, lock,
     jobs, Ended, Claiming
<1>5. RunsOnce'
  BY <1>1 DEF RunsOnce, MarkTaken, ExpireLease, Release, NoLock, Goto, rows, lock, jobs
<1> QED
  BY <1>2, <1>3, <1>4, <1>5 DEF IInv

LEMMA StartKeeps ==
  ASSUME IInv, NEW r \in Runners, Start(r)
  PROVE  IInv'
<1>1. TypeOK /\ ClaimsATask /\ StartedIsPast /\ RunsOnce
  BY DEF IInv
<1>2. TypeOK'
  BY <1>1, LeaseConstants DEF TypeOK, ClaimsATask, Start, MayStart, Release, NoLock, Goto, rows,
     lock, Ended, Claiming
<1>3. ClaimsATask'
  BY <1>1 DEF TypeOK, ClaimsATask, Start, MayStart, Release, NoLock, Goto, rows, lock, Ended,
     Claiming
<1>4. StartedIsPast'
  BY <1>1 DEF TypeOK, ClaimsATask, StartedIsPast, Start, MayStart, Release, NoLock, Goto, rows,
     lock, Ended, Claiming
<1>5. RunsOnce'
  BY <1>1 DEF TypeOK, ClaimsATask, StartedIsPast, RunsOnce, Start, MayStart, Release, NoLock,
     Goto, rows, lock, Ended, Claiming
<1> QED
  BY <1>2, <1>3, <1>4, <1>5 DEF IInv

LEMMA ReadStaleKeeps ==
  ASSUME IInv, NEW r \in Runners, ReadStale(r)
  PROVE  IInv'
<1>1. TypeOK /\ ClaimsATask /\ StartedIsPast /\ RunsOnce
  BY DEF IInv
<1>2. TypeOK'
  BY <1>1, LeaseConstants DEF TypeOK, ClaimsATask, ReadStale, ReadClock, Expired, Goto, rows, jobs,
     Ended, Claiming
<1>3. ClaimsATask'
  BY <1>1 DEF TypeOK, ClaimsATask, ReadStale, ReadClock, Expired, Goto, rows, jobs, Ended, Claiming
<1>4. StartedIsPast'
  BY <1>1 DEF TypeOK, StartedIsPast, ReadStale, ReadClock, Expired, Goto, rows, jobs, Ended,
     Claiming
<1>5. RunsOnce'
  BY <1>1 DEF RunsOnce, ReadStale, ReadClock, Expired, Goto, rows, jobs
<1> QED
  BY <1>2, <1>3, <1>4, <1>5 DEF IInv

LEMMA MarkStaleKeeps ==
  ASSUME IInv, NEW r \in Runners, MarkStale(r)
  PROVE  IInv'
<1>1. TypeOK /\ ClaimsATask /\ StartedIsPast /\ RunsOnce
  BY DEF IInv
<1>2. TypeOK'
  BY <1>1, LeaseConstants DEF TypeOK, ClaimsATask, MarkStale, ExpireLease, Goto, rows, lock, jobs,
     Ended, Claiming
<1>3. ClaimsATask'
  BY <1>1 DEF TypeOK, ClaimsATask, MarkStale, ExpireLease, Goto, rows, lock, jobs, Ended, Claiming
<1>4. StartedIsPast'
  BY <1>1 DEF TypeOK, StartedIsPast, MarkStale, ExpireLease, Goto, rows, lock, jobs, Ended, Claiming
<1>5. RunsOnce'
  BY <1>1 DEF RunsOnce, MarkStale, ExpireLease, Goto, rows, lock, jobs
<1> QED
  BY <1>2, <1>3, <1>4, <1>5 DEF IInv

LEMMA DeleteStaleKeeps ==
  ASSUME IInv, NEW r \in Runners, DeleteStale(r)
  PROVE  IInv'
<1>1. TypeOK /\ ClaimsATask /\ StartedIsPast /\ RunsOnce
  BY DEF IInv
<1>2. TypeOK'
  BY <1>1, LeaseConstants DEF TypeOK, ClaimsATask, DeleteStale, StillStale, Stale, NoLock, Goto,
     rows, lock, jobs, Ended, Claiming
<1>3. ClaimsATask'
  BY <1>1 DEF TypeOK, ClaimsATask, DeleteStale, StillStale, Stale, NoLock, Goto, rows, lock, jobs,
     Ended, Claiming
<1>4. StartedIsPast'
  BY <1>1 DEF TypeOK, StartedIsPast, DeleteStale, StillStale, Stale, NoLock, Goto, rows, lock, jobs,
     Ended, Claiming
<1>5. RunsOnce'
  BY <1>1 DEF RunsOnce, DeleteStale, StillStale, Stale, NoLock, Goto, rows, lock, jobs
<1> QED
  BY <1>2, <1>3, <1>4, <1>5 DEF IInv

LEMMA HeartbeatKeeps ==
  ASSUME IInv, NEW r \in Runners, NEW t \in Tasks, Heartbeat(r, t)
  PROVE  IInv'
<1>1. TypeOK /\ ClaimsATask /\ StartedIsPast /\ RunsOnce
  BY DEF IInv
<1>2. TypeOK'
  BY <1>1, LeaseConstants DEF TypeOK, ClaimsATask, Heartbeat, SawLive, Lease, Holds, rows, pass,
     Ended, Claiming
<1>3. ClaimsATask'
  BY <1>1 DEF TypeOK, ClaimsATask, Heartbeat, SawLive, Lease, Holds, rows, pass, Ended, Claiming
<1>4. StartedIsPast'
  BY <1>1 DEF TypeOK, StartedIsPast, Heartbeat, SawLive, Lease, Holds, rows, pass, Ended, Claiming
<1>5. RunsOnce'
  BY <1>1 DEF RunsOnce, Heartbeat, SawLive, Lease, Holds, rows, pass
<1> QED
  BY <1>2, <1>3, <1>4, <1>5 DEF IInv

LEMMA FinishKeeps ==
  ASSUME IInv, NEW r \in Runners, NEW t \in Tasks, NEW s \in Ended, Finish(r, t, s)
  PROVE  IInv'
<1>1. TypeOK /\ ClaimsATask /\ StartedIsPast /\ RunsOnce
  BY DEF IInv
<1>2. TypeOK'
  BY <1>1, LeaseConstants DEF TypeOK, ClaimsATask, Finish, MayFinish, SawLive, Holds, lock, pass,
     Ended, Claiming
<1>3. ClaimsATask'
  BY <1>1 DEF TypeOK, ClaimsATask, Finish, MayFinish, SawLive, Holds, lock, pass, Ended, Claiming
<1>4. StartedIsPast'
  BY <1>1 DEF TypeOK, StartedIsPast, Finish, MayFinish, SawLive, Holds, lock, pass, Ended, Claiming
<1>5. RunsOnce'
  BY <1>1 DEF RunsOnce, Finish, MayFinish, SawLive, Holds, lock, pass
<1> QED
  BY <1>2, <1>3, <1>4, <1>5 DEF IInv

LEMMA ReleaseLockKeeps ==
  ASSUME IInv, NEW r \in Runners, NEW t \in Tasks, ReleaseLock(r, t)
  PROVE  IInv'
<1>1. TypeOK /\ ClaimsATask /\ StartedIsPast /\ RunsOnce
  BY DEF IInv
<1>2. TypeOK'
  BY <1>1, LeaseConstants DEF TypeOK, ClaimsATask, ReleaseLock, Release, NoLock, rows, lock, pass,
     Ended, Claiming
<1>3. ClaimsATask'
  BY <1>1 DEF TypeOK, ClaimsATask, ReleaseLock, Release, NoLock, rows, lock, pass, Ended, Claiming
<1>4. StartedIsPast'
  BY <1>1 DEF TypeOK, StartedIsPast, ReleaseLock, Release, NoLock, rows, lock, pass, Ended, Claiming
<1>5. RunsOnce'
  BY <1>1 DEF RunsOnce, ReleaseLock, Release, NoLock, rows, lock, pass
<1> QED
  BY <1>2, <1>3, <1>4, <1>5 DEF IInv

LEMMA CrashKeeps ==
  ASSUME IInv, NEW r \in Runners, Crash(r)
  PROVE  IInv'
<1>1. TypeOK /\ ClaimsATask /\ StartedIsPast /\ RunsOnce
  BY DEF IInv
<1>2. TypeOK'
  BY <1>1, LeaseConstants DEF TypeOK, ClaimsATask, Crash, Goto, rows, lock, Ended, Claiming
<1>3. ClaimsATask'
  BY <1>1 DEF TypeOK, ClaimsATask, Crash, Goto, rows, lock, Ended, Claiming
<1>4. StartedIsPast'
  BY <1>1 DEF TypeOK, StartedIsPast, Crash, Goto, rows, lock, Ended, Claiming
<1>5. RunsOnce'
  BY <1>1 DEF RunsOnce, Crash, Goto, rows, lock
<1> QED
  BY <1>2, <1>3, <1>4, <1>5 DEF IInv

LEMMA StepInv == IInv /\ [Next]_vars => IInv'
<1> SUFFICES ASSUME IInv, [Next]_vars PROVE IInv'
  OBVIOUS
<1>1. CASE UNCHANGED vars
  BY <1>1 DEF IInv, TypeOK, ClaimsATask, StartedIsPast, RunsOnce, vars, rows, lock, pass, jobs
<1>2. CASE \E t \in Tasks : Create(t)
  BY <1>2, CreateKeeps
<1>3. CASE Tick
  BY <1>3, TickKeeps
<1>4. CASE \E r \in Runners, t \in Tasks : FindPending(r, t)
  BY <1>4, FindPendingKeeps
<1>5. CASE \E r \in Runners : Acquire(r)
  BY <1>5, AcquireKeeps
<1>6. CASE \E r \in Runners : Takeover(r)
  BY <1>6, TakeoverKeeps
<1>7. CASE \E r \in Runners : MarkTaken(r)
  BY <1>7, MarkTakenKeeps
<1>8. CASE \E r \in Runners : Start(r)
  BY <1>8, StartKeeps
<1>9. CASE \E r \in Runners : ReadStale(r)
  BY <1>9, ReadStaleKeeps
<1>10. CASE \E r \in Runners : MarkStale(r)
  BY <1>10, MarkStaleKeeps
<1>11. CASE \E r \in Runners : DeleteStale(r)
  BY <1>11, DeleteStaleKeeps
<1>12. CASE \E r \in Runners, t \in Tasks : Heartbeat(r, t)
  BY <1>12, HeartbeatKeeps
<1>13. CASE \E r \in Runners, t \in Tasks, s \in Ended : Finish(r, t, s)
  BY <1>13, FinishKeeps
<1>14. CASE \E r \in Runners, t \in Tasks : ReleaseLock(r, t)
  BY <1>14, ReleaseLockKeeps
<1>15. CASE \E r \in Runners : Crash(r)
  BY <1>15, CrashKeeps
<1> QED
  BY <1>1, <1>2, <1>3, <1>4, <1>5, <1>6, <1>7, <1>8, <1>9, <1>10, <1>11, <1>12, <1>13, <1>14,
     <1>15 DEF Next, Pass, Handle

\* The invariant of the proofs holds in every reachable state: rows that were
\* dispatched are past pending, and each was dispatched once (ClaimSystemTask).
THEOREM Invariant == Spec => []IInv
<1>1. Init => IInv
  BY InitInv
<1>2. IInv /\ [Next]_vars => IInv'
  BY StepInv
<1> QED
  BY <1>1, <1>2, PTL DEF Spec

\* Every variable keeps its type; handlers, their cancellations and their releases
\* are of dispatched rows.
THEOREM TypeCorrect == Spec => []TypeOK
<1>1. IInv => TypeOK
  BY DEF IInv
<1> QED
  BY <1>1, Invariant, PTL

\* No row is ever handed to two handlers (ClaimSystemTask).
THEOREM DispatchedOnce == Spec => []RunsOnce
<1>1. IInv => RunsOnce
  BY DEF IInv
<1> QED
  BY <1>1, Invariant, PTL

\* A row that has ended is not changed by any step.
LEMMA EndedKept ==
  ASSUME IInv, [Next]_vars, NEW u \in Tasks, status[u] \in Ended
  PROVE  status'[u] = status[u]
<1>1. TypeOK /\ ClaimsATask
  BY DEF IInv
<1>2. CASE UNCHANGED status
  BY <1>2
<1>3. CASE \E t \in Tasks : Create(t)
  BY <1>1, <1>3 DEF TypeOK, Create, Ended
<1>4. CASE \E r \in Runners : MarkTaken(r) \/ MarkStale(r)
  BY <1>1, <1>4 DEF MarkTaken, MarkStale, ExpireLease, rows, Ended
<1>5. CASE \E r \in Runners : Start(r)
  BY <1>1, <1>5 DEF TypeOK, ClaimsATask, Start, MayStart, rows, Ended, Claiming
<1>6. CASE \E r \in Runners, t \in Tasks, s \in Ended : Finish(r, t, s)
  BY <1>1, <1>6 DEF TypeOK, Finish, MayFinish, SawLive, Holds, Ended
<1>7. CASE Tick
  BY <1>7 DEF Tick, rows
<1>8. CASE \E r \in Runners : Acquire(r) \/ Takeover(r) \/ ReadStale(r) \/ DeleteStale(r) \/ Crash(r)
  BY <1>8 DEF Acquire, Takeover, ReadStale, DeleteStale, Crash, rows
<1>9. CASE \E r \in Runners, t \in Tasks : FindPending(r, t) \/ Heartbeat(r, t) \/ ReleaseLock(r, t)
  BY <1>9 DEF FindPending, Heartbeat, SawLive, Lease, Holds, ReleaseLock, rows
<1>10. CASE UNCHANGED vars
  BY <1>10 DEF vars, rows
<1> QED
  BY <1>2, <1>3, <1>4, <1>5, <1>6, <1>7, <1>8, <1>9, <1>10 DEF Next, Pass, Handle

\* The outcome of a job is final, whatever late handlers and expiries do.
THEOREM OutcomeFinal == Spec => OutcomeStays
<1>1. IInv /\ [Next]_vars
        => [\A t \in Tasks : status[t] \in Ended => status'[t] = status[t]]_vars
  BY EndedKept
<1> QED
  BY <1>1, Invariant, PTL DEF Spec, OutcomeStays

-----------------------------------------------------------------------------
(* The promise of JobRuns.  Four kinds of steps change it, each guarded by the *)
(* row it writes; the locks and the passes around them do not matter here.     *)

\* The unique active_key: one row of the type is pending or running.
OneActive == \A t, u \in Tasks : Active(t) /\ Active(u) => t = u

\* A row belongs to nobody before it is claimed.
Unowned == \A t \in Tasks : status[t] \in {"none", "pending"} => owner[t] = None

\* A step of the runners is a step of the promise.
LEMMA StepIsRun ==
  ASSUME IInv, Unowned, [Next]_vars
  PROVE  [Runs!Next]_<<status, owner, started>>
<1>1. TypeOK /\ ClaimsATask /\ StartedIsPast
  BY DEF IInv
<1>2. ASSUME NEW t \in Tasks, Create(t) PROVE Runs!Next
  <2>1. Runs!Enqueue(t)
    BY <1>2 DEF Create, Active, jobs, Runs!Enqueue
  <2> QED
    BY <2>1 DEF Runs!Next
<1>3. ASSUME NEW r \in Runners, MarkTaken(r) \/ MarkStale(r)
      PROVE  UNCHANGED <<status, owner, started>> \/ Runs!Next
  <2>1. UNCHANGED <<owner, started>> /\ (UNCHANGED status \/ ExpireLease(seen[r]))
    BY <1>3 DEF MarkTaken, MarkStale, ExpireLease, rows, jobs
  <2>2. CASE ExpireLease(seen[r]) /\ status' # status
    <3>1. PICK t \in Tasks : t = seen[r] /\ status[t] = "running"
      BY <1>1, <2>2 DEF TypeOK, ExpireLease
    <3>2. status' = [status EXCEPT ![t] = "failed"]
      BY <1>1, <2>2, <3>1 DEF TypeOK, ExpireLease
    <3>3. Runs!Fail(t)
      BY <2>1, <3>1, <3>2 DEF Runs!Fail
    <3> QED
      BY <3>3 DEF Runs!Next
  <2> QED
    BY <2>1, <2>2
<1>4. ASSUME NEW r \in Runners, Start(r)
      PROVE  UNCHANGED <<status, owner, started>> \/ Runs!Next
  <2>1. PICK t \in Tasks : t = todo[r]
    BY <1>1, <1>4 DEF ClaimsATask, Start, Claiming
  <2>2. CASE status[t] # "pending"
    BY <1>4, <2>1, <2>2 DEF Start, MayStart, rows
  <2>3. CASE status[t] = "pending"
    <3>1. \/ UNCHANGED <<status, owner, started>>
          \/ /\ status' = [status EXCEPT ![t] = "running"]
             /\ owner' = [owner EXCEPT ![t] = r]
             /\ started' = started \/ started' = started \cup {<<r, t>>}
      BY <1>4, <2>1 DEF Start, rows
    <3>2. owner[t] = None /\ \A s \in Runners : <<s, t>> \notin started
      BY <1>1, <2>3 DEF Unowned, StartedIsPast
    <3>3. UNCHANGED <<status, owner, started>> \/ Runs!Claim(r, t)
      BY <2>3, <3>1, <3>2 DEF Runs!Claim
    <3> QED
      BY <3>3 DEF Runs!Next
  <2> QED
    BY <2>2, <2>3
<1>5. ASSUME NEW r \in Runners, NEW t \in Tasks, NEW s \in Ended, Finish(r, t, s)
      PROVE  UNCHANGED <<status, owner, started>> \/ Runs!Next
  <2>1. UNCHANGED <<owner, started>>
    BY <1>5 DEF Finish
  <2>2. CASE MayFinish(r, t) /\ status' = [status EXCEPT ![t] = s]
    <3>1. status[t] = "running" /\ <<owner[t], t>> \in started
      BY <1>1, <1>5, <2>2 DEF TypeOK, Finish, MayFinish, SawLive, Holds
    <3>2. Runs!Succeed(t) \/ Runs!Fail(t)
      BY <2>1, <2>2, <3>1 DEF Runs!Succeed, Runs!Fail, Ended
    <3> QED
      BY <3>2 DEF Runs!Next
  <2> QED
    BY <1>5, <2>1, <2>2 DEF Finish
<1>6. CASE Tick
  BY <1>6 DEF Tick, rows, jobs
<1>7. CASE \E r \in Runners :
             Acquire(r) \/ Takeover(r) \/ ReadStale(r) \/ DeleteStale(r) \/ Crash(r)
  BY <1>7 DEF Acquire, Takeover, ReadStale, DeleteStale, Crash, rows, jobs
<1>8. CASE \E r \in Runners, t \in Tasks :
             FindPending(r, t) \/ Heartbeat(r, t) \/ ReleaseLock(r, t)
  BY <1>8 DEF FindPending, Heartbeat, SawLive, Lease, Holds, ReleaseLock, rows, jobs
<1>9. CASE UNCHANGED vars
  BY <1>9 DEF vars, rows, jobs
<1> QED
  BY <1>2, <1>3, <1>4, <1>5, <1>6, <1>7, <1>8, <1>9 DEF Next, Pass, Handle

\* What a step of the promise alone preserves.
LEMMA RunKeeps ==
  ASSUME TypeOK, Unowned, OneActive, [Runs!Next]_<<status, owner, started>>
  PROVE  Unowned' /\ OneActive'
<1>1. CASE UNCHANGED <<status, owner, started>>
  BY <1>1 DEF Unowned, OneActive, Active
<1>2. CASE \E j \in Tasks : Runs!Enqueue(j)
  BY <1>2 DEF TypeOK, Unowned, OneActive, Active, Runs!Enqueue
<1>3. CASE \E j \in Tasks, r \in Runners : Runs!Claim(r, j)
  BY <1>3 DEF TypeOK, Unowned, OneActive, Active, Runs!Claim
<1>4. CASE \E j \in Tasks : Runs!Succeed(j) \/ Runs!Fail(j)
  BY <1>4 DEF TypeOK, Unowned, OneActive, Active, Runs!Succeed, Runs!Fail
<1> QED
  BY <1>1, <1>2, <1>3, <1>4 DEF Runs!Next

\* Rows belong to nobody before their claim, and one row of the type is active, however
\* slow claims are and whatever fails or dies (CreateSystemTask, ClaimSystemTask).
THEOREM OneActiveJob == Spec => [](Unowned /\ OneActive)
<1>1. Init => Unowned /\ OneActive
  BY DEF Init, Unowned, OneActive, Active
<1>2. IInv /\ Unowned /\ OneActive /\ [Next]_vars => Unowned' /\ OneActive'
  <2>1. IInv => TypeOK
    BY DEF IInv
  <2> QED
    BY <2>1, StepIsRun, RunKeeps
<1> QED
  BY <1>1, <1>2, Invariant, PTL DEF Spec

\* The runners, their locks and their leases implement JobRuns: every step of theirs is
\* one of the promise or leaves it alone.
THEOREM RunsAreKept == Spec => KeepsRuns
<1>1. Init => Runs!Init
  BY DEF Init, Runs!Init
<1>2. IInv /\ Unowned /\ [Next]_vars => [Runs!Next]_<<status, owner, started>>
  BY StepIsRun
<1> QED
  BY <1>1, <1>2, Invariant, OneActiveJob, PTL DEF Spec, KeepsRuns, Runs!Spec

-----------------------------------------------------------------------------
(* The lease of a running row, when no claim outlasts its lease: the inductive *)
(* invariant.                                                                 *)

\* A runner between its taking the lock and its starting the row holds the lock,
\* and the row is not running.
ClaimHoldsLock ==
  \A r \in Runners : r \notin dead /\ at[r] \in Claiming
    => Holds(r, todo[r]) /\ status[todo[r]] # "running"

\* A runner that may replace the lock, or delete it as stale, does not take it
\* from a row that runs.
StaleIsNotRunning ==
  \A r \in Runners : r \in past /\ lockTask # None
    => /\ at[r] \in {"acquire", "takeover"} => status[lockTask] # "running"
       /\ at[r] = "delete" /\ lockTask = seen[r] => status[lockTask] # "running"

\* A lock is released by its handler after the row has ended.
ReleasedIsEnded == \A h \in releasing : status[h[2]] \in Ended

\* A runner does not claim what it has started before, so that the release of an
\* earlier handler leaves the lock of its claim alone.
ClaimsAnother ==
  \A h \in started :
    at[h[1]] \in {"acquire", "takeover"} \cup Claiming => todo[h[1]] # h[2]

LeaseInv ==
  /\ IInv /\ OneActive /\ RunningHasLease /\ ClaimHoldsLock
  /\ StaleIsNotRunning /\ ReleasedIsEnded /\ ClaimsAnother

LEMMA CreateKeepsLease ==
  ASSUME ~SlowClaims, LeaseInv, NEW t \in Tasks, Create(t)
  PROVE  LeaseInv'
<1>1. /\ TypeOK /\ ClaimsATask /\ StartedIsPast /\ OneActive /\ RunningHasLease
      /\ ClaimHoldsLock /\ StaleIsNotRunning /\ ReleasedIsEnded /\ ClaimsAnother
  BY DEF LeaseInv, IInv
<1>2. IInv'
  BY CreateKeeps DEF LeaseInv
<1>3. OneActive'
  BY <1>1, LeaseConstants DEF TypeOK, OneActive, Active, Ended, ClaimsATask, Claiming, Create, lock,
     pass, jobs
<1>4. RunningHasLease'
  BY <1>1, LeaseConstants DEF TypeOK, RunningHasLease, ClaimHoldsLock, StaleIsNotRunning,
     ReleasedIsEnded, ClaimsATask, Holds, Ended, Claiming, Create, lock, pass, jobs
<1>5. ClaimHoldsLock'
  BY <1>1, LeaseConstants DEF TypeOK, RunningHasLease, ClaimHoldsLock, StaleIsNotRunning,
     ClaimsAnother, ClaimsATask, Holds, Ended, Claiming, Create, lock, pass, jobs
<1>6. StaleIsNotRunning'
  BY <1>1, LeaseConstants DEF TypeOK, OneActive, Active, StaleIsNotRunning, ClaimHoldsLock,
     ClaimsATask, Holds, Ended, Claiming, Create, lock, pass, jobs
<1>7. ReleasedIsEnded'
  BY <1>1, LeaseConstants DEF TypeOK, ReleasedIsEnded, ClaimsATask, Ended, Claiming, Create, lock,
     pass, jobs
<1>8. ClaimsAnother'
  BY <1>1, LeaseConstants DEF TypeOK, ClaimsAnother, StartedIsPast, ClaimsATask, Ended, Claiming,
     Create, lock, pass, jobs
<1> QED
  BY <1>2, <1>3, <1>4, <1>5, <1>6, <1>7, <1>8 DEF LeaseInv

LEMMA TickKeepsLease ==
  ASSUME ~SlowClaims, LeaseInv, Tick
  PROVE  LeaseInv'
<1>1. /\ TypeOK /\ ClaimsATask /\ StartedIsPast /\ OneActive /\ RunningHasLease
      /\ ClaimHoldsLock /\ StaleIsNotRunning /\ ReleasedIsEnded /\ ClaimsAnother
  BY DEF LeaseInv, IInv
<1>2. IInv'
  BY TickKeeps DEF LeaseInv
<1>3. OneActive'
  BY <1>1, LeaseConstants DEF TypeOK, OneActive, Active, Ended, ClaimsATask, Claiming, Tick, rows,
     pass, jobs
<1>4. RunningHasLease'
  BY <1>1, LeaseConstants DEF TypeOK, RunningHasLease, ClaimHoldsLock, StaleIsNotRunning,
     ReleasedIsEnded, ClaimsATask, Holds, Ended, Claiming, Tick, rows, pass, jobs
<1>5. ClaimHoldsLock'
  BY <1>1, LeaseConstants DEF TypeOK, RunningHasLease, ClaimHoldsLock, StaleIsNotRunning,
     ClaimsAnother, ClaimsATask, Holds, Ended, Claiming, Tick, rows, pass, jobs
<1>6. StaleIsNotRunning'
  BY <1>1, LeaseConstants DEF TypeOK, OneActive, Active, StaleIsNotRunning, ClaimHoldsLock,
     ClaimsATask, Holds, Ended, Claiming, Tick, rows, pass, jobs
<1>7. ReleasedIsEnded'
  BY <1>1, LeaseConstants DEF TypeOK, ReleasedIsEnded, ClaimsATask, Ended, Claiming, Tick, rows,
     pass, jobs
<1>8. ClaimsAnother'
  BY <1>1, LeaseConstants DEF TypeOK, ClaimsAnother, StartedIsPast, ClaimsATask, Ended, Claiming,
     Tick, rows, pass, jobs
<1> QED
  BY <1>2, <1>3, <1>4, <1>5, <1>6, <1>7, <1>8 DEF LeaseInv

LEMMA FindPendingKeepsLease ==
  ASSUME ~SlowClaims, LeaseInv, NEW r \in Runners, NEW t \in Tasks, FindPending(r, t)
  PROVE  LeaseInv'
<1>1. /\ TypeOK /\ ClaimsATask /\ StartedIsPast /\ OneActive /\ RunningHasLease
      /\ ClaimHoldsLock /\ StaleIsNotRunning /\ ReleasedIsEnded /\ ClaimsAnother
  BY DEF LeaseInv, IInv
<1>2. IInv'
  BY FindPendingKeeps DEF LeaseInv
<1>3. OneActive'
  BY <1>1, LeaseConstants DEF TypeOK, OneActive, Active, Ended, ClaimsATask, Claiming, FindPending,
     ReadClock, Expired, Goto, rows, jobs
<1>4. RunningHasLease'
  BY <1>1, LeaseConstants DEF TypeOK, RunningHasLease, ClaimHoldsLock, StaleIsNotRunning,
     ReleasedIsEnded, ClaimsATask, Holds, Ended, Claiming, FindPending, ReadClock, Expired, Goto,
     rows, jobs
<1>5. ClaimHoldsLock'
  BY <1>1, LeaseConstants DEF TypeOK, RunningHasLease, ClaimHoldsLock, StaleIsNotRunning,
     ClaimsAnother, ClaimsATask, Holds, Ended, Claiming, FindPending, ReadClock, Expired, Goto,
     rows, jobs
<1>6. StaleIsNotRunning'
  BY <1>1, LeaseConstants DEF TypeOK, OneActive, Active, StaleIsNotRunning, ClaimHoldsLock,
     ClaimsATask, Holds, Ended, Claiming, FindPending, ReadClock, Expired, Goto, rows, jobs
<1>7. ReleasedIsEnded'
  BY <1>1, LeaseConstants DEF TypeOK, ReleasedIsEnded, ClaimsATask, Ended, Claiming, FindPending,
     ReadClock, Expired, Goto, rows, jobs
<1>8. ClaimsAnother'
  BY <1>1, LeaseConstants DEF TypeOK, ClaimsAnother, StartedIsPast, ClaimsATask, Ended, Claiming,
     FindPending, ReadClock, Expired, Goto, rows, jobs
<1> QED
  BY <1>2, <1>3, <1>4, <1>5, <1>6, <1>7, <1>8 DEF LeaseInv

LEMMA AcquireKeepsLease ==
  ASSUME ~SlowClaims, LeaseInv, NEW r \in Runners, Acquire(r)
  PROVE  LeaseInv'
<1>1. /\ TypeOK /\ ClaimsATask /\ StartedIsPast /\ OneActive /\ RunningHasLease
      /\ ClaimHoldsLock /\ StaleIsNotRunning /\ ReleasedIsEnded /\ ClaimsAnother
  BY DEF LeaseInv, IInv
<1>2. IInv'
  BY AcquireKeeps DEF LeaseInv
<1>3. OneActive'
  BY <1>1, LeaseConstants DEF TypeOK, OneActive, Active, Ended, ClaimsATask, Claiming, Acquire,
     TakeLock, Lease, Stale, Goto, rows, lock, jobs
<1>4. RunningHasLease'
  BY <1>1, LeaseConstants DEF TypeOK, RunningHasLease, ClaimHoldsLock, StaleIsNotRunning,
     ReleasedIsEnded, ClaimsATask, Holds, Ended, Claiming, Acquire, TakeLock, Lease, Stale, Goto,
     rows, lock, jobs
<1>5. ClaimHoldsLock'
  BY <1>1, LeaseConstants DEF TypeOK, RunningHasLease, ClaimHoldsLock, StaleIsNotRunning,
     ClaimsAnother, ClaimsATask, Holds, Ended, Claiming, Acquire, TakeLock, Lease, Stale, Goto,
     rows, lock, jobs
<1>6. StaleIsNotRunning'
  BY <1>1, LeaseConstants DEF TypeOK, OneActive, Active, StaleIsNotRunning, ClaimHoldsLock,
     ClaimsATask, Holds, Ended, Claiming, Acquire, TakeLock, Lease, Stale, Goto, rows, lock, jobs
<1>7. ReleasedIsEnded'
  BY <1>1, LeaseConstants DEF TypeOK, ReleasedIsEnded, ClaimsATask, Ended, Claiming, Acquire,
     TakeLock, Lease, Stale, Goto, rows, lock, jobs
<1>8. ClaimsAnother'
  BY <1>1, LeaseConstants DEF TypeOK, ClaimsAnother, StartedIsPast, ClaimsATask, Ended, Claiming,
     Acquire, TakeLock, Lease, Stale, Goto, rows, lock, jobs
<1> QED
  BY <1>2, <1>3, <1>4, <1>5, <1>6, <1>7, <1>8 DEF LeaseInv

LEMMA TakeoverKeepsLease ==
  ASSUME ~SlowClaims, LeaseInv, NEW r \in Runners, Takeover(r)
  PROVE  LeaseInv'
<1>1. /\ TypeOK /\ ClaimsATask /\ StartedIsPast /\ OneActive /\ RunningHasLease
      /\ ClaimHoldsLock /\ StaleIsNotRunning /\ ReleasedIsEnded /\ ClaimsAnother
  BY DEF LeaseInv, IInv
<1>2. IInv'
  BY TakeoverKeeps DEF LeaseInv
<1>3. OneActive'
  BY <1>1, LeaseConstants DEF TypeOK, OneActive, Active, Ended, ClaimsATask, Claiming, Takeover,
     TakeLock, Lease, Stale, Goto, rows, lock, jobs
<1>4. RunningHasLease'
  BY <1>1, LeaseConstants DEF TypeOK, RunningHasLease, ClaimHoldsLock, StaleIsNotRunning,
     ReleasedIsEnded, ClaimsATask, Holds, Ended, Claiming, Takeover, TakeLock, Lease, Stale, Goto,
     rows, lock, jobs
<1>5. ClaimHoldsLock'
  BY <1>1, LeaseConstants DEF TypeOK, RunningHasLease, ClaimHoldsLock, StaleIsNotRunning,
     ClaimsAnother, ClaimsATask, Holds, Ended, Claiming, Takeover, TakeLock, Lease, Stale, Goto,
     rows, lock, jobs
<1>6. StaleIsNotRunning'
  BY <1>1, LeaseConstants DEF TypeOK, OneActive, Active, StaleIsNotRunning, ClaimHoldsLock,
     ClaimsATask, Holds, Ended, Claiming, Takeover, TakeLock, Lease, Stale, Goto, rows, lock, jobs
<1>7. ReleasedIsEnded'
  BY <1>1, LeaseConstants DEF TypeOK, ReleasedIsEnded, ClaimsATask, Ended, Claiming, Takeover,
     TakeLock, Lease, Stale, Goto, rows, lock, jobs
<1>8. ClaimsAnother'
  BY <1>1, LeaseConstants DEF TypeOK, ClaimsAnother, StartedIsPast, ClaimsATask, Ended, Claiming,
     Takeover, TakeLock, Lease, Stale, Goto, rows, lock, jobs
<1> QED
  BY <1>2, <1>3, <1>4, <1>5, <1>6, <1>7, <1>8 DEF LeaseInv

LEMMA MarkTakenKeepsLease ==
  ASSUME ~SlowClaims, LeaseInv, NEW r \in Runners, MarkTaken(r)
  PROVE  LeaseInv'
<1>1. /\ TypeOK /\ ClaimsATask /\ StartedIsPast /\ OneActive /\ RunningHasLease
      /\ ClaimHoldsLock /\ StaleIsNotRunning /\ ReleasedIsEnded /\ ClaimsAnother
  BY DEF LeaseInv, IInv
<1>2. IInv'
  BY MarkTakenKeeps DEF LeaseInv
<1>3. OneActive'
  BY <1>1, LeaseConstants DEF TypeOK, OneActive, Active, Ended, ClaimsATask, Claiming, MarkTaken,
     ExpireLease, Release, NoLock, Goto, rows, lock, jobs
<1>4. RunningHasLease'
  BY <1>1, LeaseConstants DEF TypeOK, RunningHasLease, ClaimHoldsLock, StaleIsNotRunning,
     ReleasedIsEnded, ClaimsATask, Holds, Ended, Claiming, MarkTaken, ExpireLease, Release, NoLock,
     Goto, rows, lock, jobs
<1>5. ClaimHoldsLock'
  BY <1>1, LeaseConstants DEF TypeOK, RunningHasLease, ClaimHoldsLock, StaleIsNotRunning,
     ClaimsAnother, ClaimsATask, Holds, Ended, Claiming, MarkTaken, ExpireLease, Release, NoLock,
     Goto, rows, lock, jobs
<1>6. StaleIsNotRunning'
  BY <1>1, LeaseConstants DEF TypeOK, OneActive, Active, StaleIsNotRunning, ClaimHoldsLock,
     ClaimsATask, Holds, Ended, Claiming, MarkTaken, ExpireLease, Release, NoLock, Goto, rows, lock,
     jobs
<1>7. ReleasedIsEnded'
  BY <1>1, LeaseConstants DEF TypeOK, ReleasedIsEnded, ClaimsATask, Ended, Claiming, MarkTaken,
     ExpireLease, Release, NoLock, Goto, rows, lock, jobs
<1>8. ClaimsAnother'
  BY <1>1, LeaseConstants DEF TypeOK, ClaimsAnother, StartedIsPast, ClaimsATask, Ended, Claiming,
     MarkTaken, ExpireLease, Release, NoLock, Goto, rows, lock, jobs
<1> QED
  BY <1>2, <1>3, <1>4, <1>5, <1>6, <1>7, <1>8 DEF LeaseInv

LEMMA StartKeepsLease ==
  ASSUME ~SlowClaims, LeaseInv, NEW r \in Runners, Start(r)
  PROVE  LeaseInv'
<1>1. /\ TypeOK /\ ClaimsATask /\ StartedIsPast /\ OneActive /\ RunningHasLease
      /\ ClaimHoldsLock /\ StaleIsNotRunning /\ ReleasedIsEnded /\ ClaimsAnother
  BY DEF LeaseInv, IInv
<1>2. IInv'
  BY StartKeeps DEF LeaseInv
<1>3. OneActive'
  BY <1>1, LeaseConstants DEF TypeOK, OneActive, Active, Ended, ClaimsATask, Claiming, Start,
     MayStart, Release, NoLock, Goto, rows, lock
<1>4. RunningHasLease'
  BY <1>1, LeaseConstants DEF TypeOK, RunningHasLease, ClaimHoldsLock, StaleIsNotRunning,
     ReleasedIsEnded, ClaimsATask, Holds, Ended, Claiming, Start, MayStart, Release, NoLock, Goto,
     rows, lock
<1>5. ClaimHoldsLock'
  BY <1>1, LeaseConstants DEF TypeOK, RunningHasLease, ClaimHoldsLock, StaleIsNotRunning,
     ClaimsAnother, ClaimsATask, Holds, Ended, Claiming, Start, MayStart, Release, NoLock, Goto,
     rows, lock
<1>6. StaleIsNotRunning'
  BY <1>1, LeaseConstants DEF TypeOK, OneActive, Active, StaleIsNotRunning, ClaimHoldsLock,
     ClaimsATask, Holds, Ended, Claiming, Start, MayStart, Release, NoLock, Goto, rows, lock
<1>7. ReleasedIsEnded'
  BY <1>1, LeaseConstants DEF TypeOK, ReleasedIsEnded, ClaimsATask, Ended, Claiming, Start,
     MayStart, Release, NoLock, Goto, rows, lock
<1>8. ClaimsAnother'
  BY <1>1, LeaseConstants DEF TypeOK, ClaimsAnother, StartedIsPast, ClaimsATask, Ended, Claiming,
     Start, MayStart, Release, NoLock, Goto, rows, lock
<1> QED
  BY <1>2, <1>3, <1>4, <1>5, <1>6, <1>7, <1>8 DEF LeaseInv

LEMMA ReadStaleKeepsLease ==
  ASSUME ~SlowClaims, LeaseInv, NEW r \in Runners, ReadStale(r)
  PROVE  LeaseInv'
<1>1. /\ TypeOK /\ ClaimsATask /\ StartedIsPast /\ OneActive /\ RunningHasLease
      /\ ClaimHoldsLock /\ StaleIsNotRunning /\ ReleasedIsEnded /\ ClaimsAnother
  BY DEF LeaseInv, IInv
<1>2. IInv'
  BY ReadStaleKeeps DEF LeaseInv
<1>3. OneActive'
  BY <1>1, LeaseConstants DEF TypeOK, OneActive, Active, Ended, ClaimsATask, Claiming, ReadStale,
     ReadClock, Expired, Goto, rows, jobs
<1>4. RunningHasLease'
  BY <1>1, LeaseConstants DEF TypeOK, RunningHasLease, ClaimHoldsLock, StaleIsNotRunning,
     ReleasedIsEnded, ClaimsATask, Holds, Ended, Claiming, ReadStale, ReadClock, Expired, Goto,
     rows, jobs
<1>5. ClaimHoldsLock'
  BY <1>1, LeaseConstants DEF TypeOK, RunningHasLease, ClaimHoldsLock, StaleIsNotRunning,
     ClaimsAnother, ClaimsATask, Holds, Ended, Claiming, ReadStale, ReadClock, Expired, Goto, rows,
     jobs
<1>6. StaleIsNotRunning'
  BY <1>1, LeaseConstants DEF TypeOK, OneActive, Active, StaleIsNotRunning, ClaimHoldsLock,
     ClaimsATask, Holds, Ended, Claiming, ReadStale, ReadClock, Expired, Goto, rows, jobs
<1>7. ReleasedIsEnded'
  BY <1>1, LeaseConstants DEF TypeOK, ReleasedIsEnded, ClaimsATask, Ended, Claiming, ReadStale,
     ReadClock, Expired, Goto, rows, jobs
<1>8. ClaimsAnother'
  BY <1>1, LeaseConstants DEF TypeOK, ClaimsAnother, StartedIsPast, ClaimsATask, Ended, Claiming,
     ReadStale, ReadClock, Expired, Goto, rows, jobs
<1> QED
  BY <1>2, <1>3, <1>4, <1>5, <1>6, <1>7, <1>8 DEF LeaseInv

LEMMA MarkStaleKeepsLease ==
  ASSUME ~SlowClaims, LeaseInv, NEW r \in Runners, MarkStale(r)
  PROVE  LeaseInv'
<1>1. /\ TypeOK /\ ClaimsATask /\ StartedIsPast /\ OneActive /\ RunningHasLease
      /\ ClaimHoldsLock /\ StaleIsNotRunning /\ ReleasedIsEnded /\ ClaimsAnother
  BY DEF LeaseInv, IInv
<1>2. IInv'
  BY MarkStaleKeeps DEF LeaseInv
<1>3. OneActive'
  BY <1>1, LeaseConstants DEF TypeOK, OneActive, Active, Ended, ClaimsATask, Claiming, MarkStale,
     ExpireLease, Goto, rows, lock, jobs
<1>4. RunningHasLease'
  BY <1>1, LeaseConstants DEF TypeOK, RunningHasLease, ClaimHoldsLock, StaleIsNotRunning,
     ReleasedIsEnded, ClaimsATask, Holds, Ended, Claiming, MarkStale, ExpireLease, Goto, rows, lock,
     jobs
<1>5. ClaimHoldsLock'
  BY <1>1, LeaseConstants DEF TypeOK, RunningHasLease, ClaimHoldsLock, StaleIsNotRunning,
     ClaimsAnother, ClaimsATask, Holds, Ended, Claiming, MarkStale, ExpireLease, Goto, rows, lock,
     jobs
<1>6. StaleIsNotRunning'
  BY <1>1, LeaseConstants DEF TypeOK, OneActive, Active, StaleIsNotRunning, ClaimHoldsLock,
     ClaimsATask, Holds, Ended, Claiming, MarkStale, ExpireLease, Goto, rows, lock, jobs
<1>7. ReleasedIsEnded'
  BY <1>1, LeaseConstants DEF TypeOK, ReleasedIsEnded, ClaimsATask, Ended, Claiming, MarkStale,
     ExpireLease, Goto, rows, lock, jobs
<1>8. ClaimsAnother'
  BY <1>1, LeaseConstants DEF TypeOK, ClaimsAnother, StartedIsPast, ClaimsATask, Ended, Claiming,
     MarkStale, ExpireLease, Goto, rows, lock, jobs
<1> QED
  BY <1>2, <1>3, <1>4, <1>5, <1>6, <1>7, <1>8 DEF LeaseInv

LEMMA DeleteStaleKeepsLease ==
  ASSUME ~SlowClaims, LeaseInv, NEW r \in Runners, DeleteStale(r)
  PROVE  LeaseInv'
<1>1. /\ TypeOK /\ ClaimsATask /\ StartedIsPast /\ OneActive /\ RunningHasLease
      /\ ClaimHoldsLock /\ StaleIsNotRunning /\ ReleasedIsEnded /\ ClaimsAnother
  BY DEF LeaseInv, IInv
<1>2. IInv'
  BY DeleteStaleKeeps DEF LeaseInv
<1>3. OneActive'
  BY <1>1, LeaseConstants DEF TypeOK, OneActive, Active, Ended, ClaimsATask, Claiming, DeleteStale,
     StillStale, Stale, NoLock, Goto, rows, lock, jobs
<1>4. RunningHasLease'
  BY <1>1, LeaseConstants DEF TypeOK, RunningHasLease, ClaimHoldsLock, StaleIsNotRunning,
     ReleasedIsEnded, ClaimsATask, Holds, Ended, Claiming, DeleteStale, StillStale, Stale, NoLock,
     Goto, rows, lock, jobs
<1>5. ClaimHoldsLock'
  BY <1>1, LeaseConstants DEF TypeOK, RunningHasLease, ClaimHoldsLock, StaleIsNotRunning,
     ClaimsAnother, ClaimsATask, Holds, Ended, Claiming, DeleteStale, StillStale, Stale, NoLock,
     Goto, rows, lock, jobs
<1>6. StaleIsNotRunning'
  BY <1>1, LeaseConstants DEF TypeOK, OneActive, Active, StaleIsNotRunning, ClaimHoldsLock,
     ClaimsATask, Holds, Ended, Claiming, DeleteStale, StillStale, Stale, NoLock, Goto, rows, lock,
     jobs
<1>7. ReleasedIsEnded'
  BY <1>1, LeaseConstants DEF TypeOK, ReleasedIsEnded, ClaimsATask, Ended, Claiming, DeleteStale,
     StillStale, Stale, NoLock, Goto, rows, lock, jobs
<1>8. ClaimsAnother'
  BY <1>1, LeaseConstants DEF TypeOK, ClaimsAnother, StartedIsPast, ClaimsATask, Ended, Claiming,
     DeleteStale, StillStale, Stale, NoLock, Goto, rows, lock, jobs
<1> QED
  BY <1>2, <1>3, <1>4, <1>5, <1>6, <1>7, <1>8 DEF LeaseInv

LEMMA HeartbeatKeepsLease ==
  ASSUME ~SlowClaims, LeaseInv, NEW r \in Runners, NEW t \in Tasks, Heartbeat(r, t)
  PROVE  LeaseInv'
<1>1. /\ TypeOK /\ ClaimsATask /\ StartedIsPast /\ OneActive /\ RunningHasLease
      /\ ClaimHoldsLock /\ StaleIsNotRunning /\ ReleasedIsEnded /\ ClaimsAnother
  BY DEF LeaseInv, IInv
<1>2. IInv'
  BY HeartbeatKeeps DEF LeaseInv
<1>3. OneActive'
  BY <1>1, LeaseConstants DEF TypeOK, OneActive, Active, Ended, ClaimsATask, Claiming, Heartbeat,
     SawLive, Lease, Holds, rows, pass
<1>4. RunningHasLease'
  BY <1>1, LeaseConstants DEF TypeOK, RunningHasLease, ClaimHoldsLock, StaleIsNotRunning,
     ReleasedIsEnded, ClaimsATask, Holds, Ended, Claiming, Heartbeat, SawLive, Lease, rows, pass
<1>5. ClaimHoldsLock'
  BY <1>1, LeaseConstants DEF TypeOK, RunningHasLease, ClaimHoldsLock, StaleIsNotRunning,
     ClaimsAnother, ClaimsATask, Holds, Ended, Claiming, Heartbeat, SawLive, Lease, rows, pass
<1>6. StaleIsNotRunning'
  BY <1>1, LeaseConstants DEF TypeOK, OneActive, Active, StaleIsNotRunning, ClaimHoldsLock,
     ClaimsATask, Holds, Ended, Claiming, Heartbeat, SawLive, Lease, rows, pass
<1>7. ReleasedIsEnded'
  BY <1>1, LeaseConstants DEF TypeOK, ReleasedIsEnded, ClaimsATask, Ended, Claiming, Heartbeat,
     SawLive, Lease, Holds, rows, pass
<1>8. ClaimsAnother'
  BY <1>1, LeaseConstants DEF TypeOK, ClaimsAnother, StartedIsPast, ClaimsATask, Ended, Claiming,
     Heartbeat, SawLive, Lease, Holds, rows, pass
<1> QED
  BY <1>2, <1>3, <1>4, <1>5, <1>6, <1>7, <1>8 DEF LeaseInv

LEMMA FinishKeepsLease ==
  ASSUME ~SlowClaims, LeaseInv, NEW r \in Runners, NEW t \in Tasks, NEW s \in Ended, Finish(r, t, s)
  PROVE  LeaseInv'
<1>1. /\ TypeOK /\ ClaimsATask /\ StartedIsPast /\ OneActive /\ RunningHasLease
      /\ ClaimHoldsLock /\ StaleIsNotRunning /\ ReleasedIsEnded /\ ClaimsAnother
  BY DEF LeaseInv, IInv
<1>2. IInv'
  BY FinishKeeps DEF LeaseInv
<1>3. OneActive'
  BY <1>1, LeaseConstants DEF TypeOK, OneActive, Active, Ended, ClaimsATask, Claiming, Finish,
     MayFinish, SawLive, Holds, lock, pass
<1>4. RunningHasLease'
  BY <1>1, LeaseConstants DEF TypeOK, RunningHasLease, ClaimHoldsLock, StaleIsNotRunning,
     ReleasedIsEnded, ClaimsATask, Holds, Ended, Claiming, Finish, MayFinish, SawLive, lock, pass
<1>5. ClaimHoldsLock'
  BY <1>1, LeaseConstants DEF TypeOK, RunningHasLease, ClaimHoldsLock, StaleIsNotRunning,
     ClaimsAnother, ClaimsATask, Holds, Ended, Claiming, Finish, MayFinish, SawLive, lock, pass
<1>6. StaleIsNotRunning'
  BY <1>1, LeaseConstants DEF TypeOK, OneActive, Active, StaleIsNotRunning, ClaimHoldsLock,
     ClaimsATask, Holds, Ended, Claiming, Finish, MayFinish, SawLive, lock, pass
<1>7. ReleasedIsEnded'
  BY <1>1, LeaseConstants DEF TypeOK, ReleasedIsEnded, ClaimsATask, Ended, Claiming, Finish,
     MayFinish, SawLive, Holds, lock, pass
<1>8. ClaimsAnother'
  BY <1>1, LeaseConstants DEF TypeOK, ClaimsAnother, StartedIsPast, ClaimsATask, Ended, Claiming,
     Finish, MayFinish, SawLive, Holds, lock, pass
<1> QED
  BY <1>2, <1>3, <1>4, <1>5, <1>6, <1>7, <1>8 DEF LeaseInv

LEMMA ReleaseLockKeepsLease ==
  ASSUME ~SlowClaims, LeaseInv, NEW r \in Runners, NEW t \in Tasks, ReleaseLock(r, t)
  PROVE  LeaseInv'
<1>1. /\ TypeOK /\ ClaimsATask /\ StartedIsPast /\ OneActive /\ RunningHasLease
      /\ ClaimHoldsLock /\ StaleIsNotRunning /\ ReleasedIsEnded /\ ClaimsAnother
  BY DEF LeaseInv, IInv
<1>2. IInv'
  BY ReleaseLockKeeps DEF LeaseInv
<1>3. OneActive'
  BY <1>1, LeaseConstants DEF TypeOK, OneActive, Active, Ended, ClaimsATask, Claiming, ReleaseLock,
     Release, NoLock, rows, lock, pass
<1>4. RunningHasLease'
  BY <1>1, LeaseConstants DEF TypeOK, RunningHasLease, ClaimHoldsLock, StaleIsNotRunning,
     ReleasedIsEnded, ClaimsATask, Holds, Ended, Claiming, ReleaseLock, Release, NoLock, rows, lock,
     pass
<1>5. ClaimHoldsLock'
  BY <1>1, LeaseConstants DEF TypeOK, RunningHasLease, ClaimHoldsLock, StaleIsNotRunning,
     ClaimsAnother, ClaimsATask, Holds, Ended, Claiming, ReleaseLock, Release, NoLock, rows, lock,
     pass
<1>6. StaleIsNotRunning'
  BY <1>1, LeaseConstants DEF TypeOK, OneActive, Active, StaleIsNotRunning, ClaimHoldsLock,
     ClaimsATask, Holds, Ended, Claiming, ReleaseLock, Release, NoLock, rows, lock, pass
<1>7. ReleasedIsEnded'
  BY <1>1, LeaseConstants DEF TypeOK, ReleasedIsEnded, ClaimsATask, Ended, Claiming, ReleaseLock,
     Release, NoLock, rows, lock, pass
<1>8. ClaimsAnother'
  BY <1>1, LeaseConstants DEF TypeOK, ClaimsAnother, StartedIsPast, ClaimsATask, Ended, Claiming,
     ReleaseLock, Release, NoLock, rows, lock, pass
<1> QED
  BY <1>2, <1>3, <1>4, <1>5, <1>6, <1>7, <1>8 DEF LeaseInv

LEMMA CrashKeepsLease ==
  ASSUME ~SlowClaims, LeaseInv, NEW r \in Runners, Crash(r)
  PROVE  LeaseInv'
<1>1. /\ TypeOK /\ ClaimsATask /\ StartedIsPast /\ OneActive /\ RunningHasLease
      /\ ClaimHoldsLock /\ StaleIsNotRunning /\ ReleasedIsEnded /\ ClaimsAnother
  BY DEF LeaseInv, IInv
<1>2. IInv'
  BY CrashKeeps DEF LeaseInv
<1>3. OneActive'
  BY <1>1, LeaseConstants DEF TypeOK, OneActive, Active, Ended, ClaimsATask, Claiming, Crash, Goto,
     rows, lock
<1>4. RunningHasLease'
  BY <1>1, LeaseConstants DEF TypeOK, RunningHasLease, ClaimHoldsLock, StaleIsNotRunning,
     ReleasedIsEnded, ClaimsATask, Holds, Ended, Claiming, Crash, Goto, rows, lock
<1>5. ClaimHoldsLock'
  BY <1>1, LeaseConstants DEF TypeOK, RunningHasLease, ClaimHoldsLock, StaleIsNotRunning,
     ClaimsAnother, ClaimsATask, Holds, Ended, Claiming, Crash, Goto, rows, lock
<1>6. StaleIsNotRunning'
  BY <1>1, LeaseConstants DEF TypeOK, OneActive, Active, StaleIsNotRunning, ClaimHoldsLock,
     ClaimsATask, Holds, Ended, Claiming, Crash, Goto, rows, lock
<1>7. ReleasedIsEnded'
  BY <1>1, LeaseConstants DEF TypeOK, ReleasedIsEnded, ClaimsATask, Ended, Claiming, Crash, Goto,
     rows, lock
<1>8. ClaimsAnother'
  BY <1>1, LeaseConstants DEF TypeOK, ClaimsAnother, StartedIsPast, ClaimsATask, Ended, Claiming,
     Crash, Goto, rows, lock
<1> QED
  BY <1>2, <1>3, <1>4, <1>5, <1>6, <1>7, <1>8 DEF LeaseInv

LEMMA StepKeepsLease ==
  ASSUME ~SlowClaims, LeaseInv, [Next]_vars
  PROVE  LeaseInv'
<1>1. CASE UNCHANGED vars
  BY <1>1 DEF LeaseInv, IInv, TypeOK, ClaimsATask, StartedIsPast, RunsOnce, OneActive, Active,
     RunningHasLease, ClaimHoldsLock, Holds, StaleIsNotRunning, ReleasedIsEnded, ClaimsAnother,
     vars, rows, lock, pass, jobs
<1>2. CASE \E t \in Tasks : Create(t)
  BY <1>2, CreateKeepsLease
<1>3. CASE Tick
  BY <1>3, TickKeepsLease
<1>4. CASE \E r \in Runners, t \in Tasks : FindPending(r, t)
  BY <1>4, FindPendingKeepsLease
<1>5. CASE \E r \in Runners : Acquire(r)
  BY <1>5, AcquireKeepsLease
<1>6. CASE \E r \in Runners : Takeover(r)
  BY <1>6, TakeoverKeepsLease
<1>7. CASE \E r \in Runners : MarkTaken(r)
  BY <1>7, MarkTakenKeepsLease
<1>8. CASE \E r \in Runners : Start(r)
  BY <1>8, StartKeepsLease
<1>9. CASE \E r \in Runners : ReadStale(r)
  BY <1>9, ReadStaleKeepsLease
<1>10. CASE \E r \in Runners : MarkStale(r)
  BY <1>10, MarkStaleKeepsLease
<1>11. CASE \E r \in Runners : DeleteStale(r)
  BY <1>11, DeleteStaleKeepsLease
<1>12. CASE \E r \in Runners, t \in Tasks : Heartbeat(r, t)
  BY <1>12, HeartbeatKeepsLease
<1>13. CASE \E r \in Runners, t \in Tasks, s \in Ended : Finish(r, t, s)
  BY <1>13, FinishKeepsLease
<1>14. CASE \E r \in Runners, t \in Tasks : ReleaseLock(r, t)
  BY <1>14, ReleaseLockKeepsLease
<1>15. CASE \E r \in Runners : Crash(r)
  BY <1>15, CrashKeepsLease
<1> QED
  BY <1>1, <1>2, <1>3, <1>4, <1>5, <1>6, <1>7, <1>8, <1>9, <1>10, <1>11, <1>12, <1>13, <1>14,
     <1>15 DEF Next, Pass, Handle

LEMMA InitLease == Init => LeaseInv
<1> SUFFICES ASSUME Init PROVE LeaseInv
  OBVIOUS
<1>1. IInv
  BY InitInv
<1>2. OneActive /\ RunningHasLease /\ ClaimHoldsLock
  BY DEF Init, OneActive, Active, RunningHasLease, ClaimHoldsLock, Claiming
<1>3. StaleIsNotRunning /\ ReleasedIsEnded /\ ClaimsAnother
  BY DEF Init, StaleIsNotRunning, ReleasedIsEnded, ClaimsAnother
<1> QED
  BY <1>1, <1>2, <1>3 DEF LeaseInv

\* A running row is covered by the lock row of its type, whatever crashes and
\* failures there are, as long as no claim takes longer than its lease
\* (acquireSystemTaskLock, ClaimSystemTask, ExpireStaleSystemTaskLocks).
THEOREM RunningIsLeased ==
  ASSUME ~SlowClaims
  PROVE  Spec => []RunningHasLease
<1>1. Init => LeaseInv
  BY InitLease
<1>2. LeaseInv /\ [Next]_vars => LeaseInv'
  BY StepKeepsLease
<1>3. LeaseInv => RunningHasLease
  BY DEF LeaseInv
<1> QED
  BY <1>1, <1>2, <1>3, PTL DEF Spec

-----------------------------------------------------------------------------
(* Without failures, deaths and slow claims a live lease keeps its row running. *)
(* (With one of them it does not: see LiveLeaseKeepsRunning.)  The inductive    *)
(* invariant.                                                                   *)

\* The lock row and the claims are of rows that exist.
KnownTasks ==
  /\ lockTask # None => status[lockTask] # "none"
  /\ \A r \in Runners :
       at[r] \in {"acquire", "takeover"} \cup Claiming => status[todo[r]] # "none"

\* The lock of a pending row is the one of a claim under way: nobody leaves it behind.
PendingIsClaimed ==
  lockTask # None /\ status[lockTask] = "pending"
    => \E r \in Runners \ dead : at[r] \in Claiming /\ todo[r] = lockTask

\* A runner about to expire a row read an old lock: the row is not going to run,
\* or it runs without a live lease.
ReaderSawOld ==
  \A r \in Runners : at[r] = "markStale" =>
    /\ seen[r] \in Tasks
    /\ status[seen[r]] \notin {"none", "pending"}
    /\ status[seen[r]] = "running" => left = 0

LiveInv == LeaseInv /\ KnownTasks /\ PendingIsClaimed /\ ReaderSawOld

LEMMA CreateKeepsLive ==
  ASSUME ~SlowClaims, ~SlowRenewals, ~Failing, LiveInv, NEW t \in Tasks, Create(t)
  PROVE  LiveInv'
<1>1. /\ TypeOK /\ ClaimsATask /\ OneActive /\ RunningHasLease /\ ClaimHoldsLock
      /\ StaleIsNotRunning /\ ReleasedIsEnded /\ ClaimsAnother
      /\ KnownTasks /\ PendingIsClaimed /\ ReaderSawOld
  BY DEF LiveInv, LeaseInv, IInv
<1>2. LeaseInv'
  BY CreateKeepsLease DEF LiveInv
<1>3. KnownTasks'
  BY <1>1, LeaseConstants DEF TypeOK, ClaimsATask, KnownTasks, Ended, Claiming, Create, lock,
     pass, jobs
<1>4. PendingIsClaimed'
  BY <1>1, LeaseConstants DEF TypeOK, ClaimsATask, KnownTasks, PendingIsClaimed, ClaimHoldsLock,
     ReleasedIsEnded, ClaimsAnother, Holds, Ended, Claiming, Create, lock, pass, jobs
<1>5. ReaderSawOld'
  BY <1>1, LeaseConstants DEF TypeOK, ClaimsATask, RunningHasLease, ClaimHoldsLock,
     StaleIsNotRunning, PendingIsClaimed, KnownTasks, ReaderSawOld, Holds, Ended, Claiming,
     Create, lock, pass, jobs
<1> QED
  BY <1>2, <1>3, <1>4, <1>5 DEF LiveInv

LEMMA TickKeepsLive ==
  ASSUME ~SlowClaims, ~SlowRenewals, ~Failing, LiveInv, Tick
  PROVE  LiveInv'
<1>1. /\ TypeOK /\ ClaimsATask /\ OneActive /\ RunningHasLease /\ ClaimHoldsLock
      /\ StaleIsNotRunning /\ ReleasedIsEnded /\ ClaimsAnother
      /\ KnownTasks /\ PendingIsClaimed /\ ReaderSawOld
  BY DEF LiveInv, LeaseInv, IInv
<1>2. LeaseInv'
  BY TickKeepsLease DEF LiveInv
<1>3. KnownTasks'
  BY <1>1, LeaseConstants DEF TypeOK, ClaimsATask, KnownTasks, Ended, Claiming, Tick, rows, pass,
     jobs
<1>4. PendingIsClaimed'
  BY <1>1, LeaseConstants DEF TypeOK, ClaimsATask, KnownTasks, PendingIsClaimed, ClaimHoldsLock,
     ReleasedIsEnded, ClaimsAnother, Holds, Ended, Claiming, Tick, rows, pass, jobs
<1>5. ReaderSawOld'
  BY <1>1, LeaseConstants DEF TypeOK, ClaimsATask, RunningHasLease, ClaimHoldsLock,
     StaleIsNotRunning, PendingIsClaimed, KnownTasks, ReaderSawOld, Holds, Ended, Claiming, Tick,
     rows, pass, jobs
<1> QED
  BY <1>2, <1>3, <1>4, <1>5 DEF LiveInv

LEMMA FindPendingKeepsLive ==
  ASSUME ~SlowClaims, ~SlowRenewals, ~Failing, LiveInv, NEW r \in Runners, NEW t \in Tasks, FindPending(r, t)
  PROVE  LiveInv'
<1>1. /\ TypeOK /\ ClaimsATask /\ OneActive /\ RunningHasLease /\ ClaimHoldsLock
      /\ StaleIsNotRunning /\ ReleasedIsEnded /\ ClaimsAnother
      /\ KnownTasks /\ PendingIsClaimed /\ ReaderSawOld
  BY DEF LiveInv, LeaseInv, IInv
<1>2. LeaseInv'
  BY FindPendingKeepsLease DEF LiveInv
<1>3. KnownTasks'
  BY <1>1, LeaseConstants DEF TypeOK, ClaimsATask, KnownTasks, Ended, Claiming, FindPending,
     ReadClock, Expired, Goto, rows, jobs
<1>4. PendingIsClaimed'
  BY <1>1, LeaseConstants DEF TypeOK, ClaimsATask, KnownTasks, PendingIsClaimed, ClaimHoldsLock,
     ReleasedIsEnded, ClaimsAnother, Holds, Ended, Claiming, FindPending, ReadClock, Expired,
     Goto, rows, jobs
<1>5. ReaderSawOld'
  BY <1>1, LeaseConstants DEF TypeOK, ClaimsATask, RunningHasLease, ClaimHoldsLock,
     StaleIsNotRunning, PendingIsClaimed, KnownTasks, ReaderSawOld, Holds, Ended, Claiming,
     FindPending, ReadClock, Expired, Goto, rows, jobs
<1> QED
  BY <1>2, <1>3, <1>4, <1>5 DEF LiveInv

LEMMA AcquireKeepsLive ==
  ASSUME ~SlowClaims, ~SlowRenewals, ~Failing, LiveInv, NEW r \in Runners, Acquire(r)
  PROVE  LiveInv'
<1>1. /\ TypeOK /\ ClaimsATask /\ OneActive /\ RunningHasLease /\ ClaimHoldsLock
      /\ StaleIsNotRunning /\ ReleasedIsEnded /\ ClaimsAnother
      /\ KnownTasks /\ PendingIsClaimed /\ ReaderSawOld
  BY DEF LiveInv, LeaseInv, IInv
<1>2. LeaseInv'
  BY AcquireKeepsLease DEF LiveInv
<1>3. KnownTasks'
  BY <1>1, LeaseConstants DEF TypeOK, ClaimsATask, KnownTasks, Ended, Claiming, Acquire,
     TakeLock, Lease, Stale, Goto, rows, lock, jobs
<1>4. PendingIsClaimed'
  BY <1>1, LeaseConstants DEF TypeOK, ClaimsATask, KnownTasks, PendingIsClaimed, ClaimHoldsLock,
     ReleasedIsEnded, ClaimsAnother, Holds, Ended, Claiming, Acquire, TakeLock, Lease, Stale, Goto,
     rows, lock, jobs
<1>5. ReaderSawOld'
  BY <1>1, LeaseConstants DEF TypeOK, ClaimsATask, RunningHasLease, ClaimHoldsLock,
     StaleIsNotRunning, PendingIsClaimed, KnownTasks, ReaderSawOld, Holds, Ended, Claiming,
     Acquire, TakeLock, Lease, Stale, Goto, rows, lock, jobs
<1> QED
  BY <1>2, <1>3, <1>4, <1>5 DEF LiveInv

LEMMA TakeoverKeepsLive ==
  ASSUME ~SlowClaims, ~SlowRenewals, ~Failing, LiveInv, NEW r \in Runners, Takeover(r)
  PROVE  LiveInv'
<1>1. /\ TypeOK /\ ClaimsATask /\ OneActive /\ RunningHasLease /\ ClaimHoldsLock
      /\ StaleIsNotRunning /\ ReleasedIsEnded /\ ClaimsAnother
      /\ KnownTasks /\ PendingIsClaimed /\ ReaderSawOld
  BY DEF LiveInv, LeaseInv, IInv
<1>2. LeaseInv'
  BY TakeoverKeepsLease DEF LiveInv
<1>3. KnownTasks'
  BY <1>1, LeaseConstants DEF TypeOK, ClaimsATask, KnownTasks, Ended, Claiming, Takeover,
     TakeLock, Lease, Stale, Goto, rows, lock, jobs
<1>4. PendingIsClaimed'
  BY <1>1, LeaseConstants DEF TypeOK, ClaimsATask, KnownTasks, PendingIsClaimed, ClaimHoldsLock,
     ReleasedIsEnded, ClaimsAnother, Holds, Ended, Claiming, Takeover, TakeLock, Lease, Stale, Goto,
     rows, lock, jobs
<1>5. ReaderSawOld'
  BY <1>1, LeaseConstants DEF TypeOK, ClaimsATask, RunningHasLease, ClaimHoldsLock,
     StaleIsNotRunning, PendingIsClaimed, KnownTasks, ReaderSawOld, Holds, Ended, Claiming,
     Takeover, TakeLock, Lease, Stale, Goto, rows, lock, jobs
<1> QED
  BY <1>2, <1>3, <1>4, <1>5 DEF LiveInv

LEMMA MarkTakenKeepsLive ==
  ASSUME ~SlowClaims, ~SlowRenewals, ~Failing, LiveInv, NEW r \in Runners, MarkTaken(r)
  PROVE  LiveInv'
<1>1. /\ TypeOK /\ ClaimsATask /\ OneActive /\ RunningHasLease /\ ClaimHoldsLock
      /\ StaleIsNotRunning /\ ReleasedIsEnded /\ ClaimsAnother
      /\ KnownTasks /\ PendingIsClaimed /\ ReaderSawOld
  BY DEF LiveInv, LeaseInv, IInv
<1>2. LeaseInv'
  BY MarkTakenKeepsLease DEF LiveInv
<1>3. KnownTasks'
  BY <1>1, LeaseConstants DEF TypeOK, ClaimsATask, KnownTasks, Ended, Claiming, MarkTaken,
     ExpireLease, Goto, rows, lock, jobs
<1>4. PendingIsClaimed'
  BY <1>1, LeaseConstants DEF TypeOK, ClaimsATask, KnownTasks, PendingIsClaimed, ClaimHoldsLock,
     ReleasedIsEnded, ClaimsAnother, Holds, Ended, Claiming, MarkTaken, ExpireLease, Goto, rows,
     lock, jobs
<1>5. ReaderSawOld'
  BY <1>1, LeaseConstants DEF TypeOK, ClaimsATask, RunningHasLease, ClaimHoldsLock,
     StaleIsNotRunning, PendingIsClaimed, KnownTasks, ReaderSawOld, Holds, Ended, Claiming,
     MarkTaken, ExpireLease, Goto, rows, lock, jobs
<1> QED
  BY <1>2, <1>3, <1>4, <1>5 DEF LiveInv

LEMMA StartKeepsLive ==
  ASSUME ~SlowClaims, ~SlowRenewals, ~Failing, LiveInv, NEW r \in Runners, Start(r)
  PROVE  LiveInv'
<1>1. /\ TypeOK /\ ClaimsATask /\ OneActive /\ RunningHasLease /\ ClaimHoldsLock
      /\ StaleIsNotRunning /\ ReleasedIsEnded /\ ClaimsAnother
      /\ KnownTasks /\ PendingIsClaimed /\ ReaderSawOld
  BY DEF LiveInv, LeaseInv, IInv
<1>2. LeaseInv'
  BY StartKeepsLease DEF LiveInv
<1>3. KnownTasks'
  BY <1>1, LeaseConstants DEF TypeOK, ClaimsATask, KnownTasks, Ended, Claiming, Start, MayStart,
     Release, NoLock, Goto, rows, lock
<1>4. PendingIsClaimed'
  BY <1>1, LeaseConstants DEF TypeOK, ClaimsATask, KnownTasks, PendingIsClaimed, ClaimHoldsLock,
     ReleasedIsEnded, ClaimsAnother, Holds, Ended, Claiming, Start, MayStart, Release, NoLock,
     Goto, rows, lock
<1>5. ReaderSawOld'
  BY <1>1, LeaseConstants DEF TypeOK, ClaimsATask, RunningHasLease, ClaimHoldsLock,
     StaleIsNotRunning, PendingIsClaimed, KnownTasks, ReaderSawOld, Holds, Ended, Claiming,
     Start, MayStart, Release, NoLock, Goto, rows, lock
<1> QED
  BY <1>2, <1>3, <1>4, <1>5 DEF LiveInv

LEMMA ReadStaleKeepsLive ==
  ASSUME ~SlowClaims, ~SlowRenewals, ~Failing, LiveInv, NEW r \in Runners, ReadStale(r)
  PROVE  LiveInv'
<1>1. /\ TypeOK /\ ClaimsATask /\ OneActive /\ RunningHasLease /\ ClaimHoldsLock
      /\ StaleIsNotRunning /\ ReleasedIsEnded /\ ClaimsAnother
      /\ KnownTasks /\ PendingIsClaimed /\ ReaderSawOld
  BY DEF LiveInv, LeaseInv, IInv
<1>2. LeaseInv'
  BY ReadStaleKeepsLease DEF LiveInv
<1>3. KnownTasks'
  BY <1>1, LeaseConstants DEF TypeOK, ClaimsATask, KnownTasks, Ended, Claiming, ReadStale,
     ReadClock, Expired, Goto, rows, jobs
<1>4. PendingIsClaimed'
  BY <1>1, LeaseConstants DEF TypeOK, ClaimsATask, KnownTasks, PendingIsClaimed, ClaimHoldsLock,
     ReleasedIsEnded, ClaimsAnother, Holds, Ended, Claiming, ReadStale, ReadClock, Expired, Goto,
     rows, jobs
<1>5. ReaderSawOld'
  BY <1>1, LeaseConstants DEF TypeOK, ClaimsATask, RunningHasLease, ClaimHoldsLock,
     StaleIsNotRunning, PendingIsClaimed, KnownTasks, ReaderSawOld, Holds, Ended, Claiming,
     ReadStale, ReadClock, Expired, Goto, rows, jobs
<1> QED
  BY <1>2, <1>3, <1>4, <1>5 DEF LiveInv

LEMMA MarkStaleKeepsLive ==
  ASSUME ~SlowClaims, ~SlowRenewals, ~Failing, LiveInv, NEW r \in Runners, MarkStale(r)
  PROVE  LiveInv'
<1>1. /\ TypeOK /\ ClaimsATask /\ OneActive /\ RunningHasLease /\ ClaimHoldsLock
      /\ StaleIsNotRunning /\ ReleasedIsEnded /\ ClaimsAnother
      /\ KnownTasks /\ PendingIsClaimed /\ ReaderSawOld
  BY DEF LiveInv, LeaseInv, IInv
<1>2. LeaseInv'
  BY MarkStaleKeepsLease DEF LiveInv
<1>3. KnownTasks'
  BY <1>1, LeaseConstants DEF TypeOK, ClaimsATask, KnownTasks, Ended, Claiming, MarkStale,
     ExpireLease, Goto, rows, lock, jobs
<1>4. PendingIsClaimed'
  BY <1>1, LeaseConstants DEF TypeOK, ClaimsATask, KnownTasks, PendingIsClaimed, ClaimHoldsLock,
     ReleasedIsEnded, ClaimsAnother, Holds, Ended, Claiming, MarkStale, ExpireLease, Goto, rows,
     lock, jobs
<1>5. ReaderSawOld'
  BY <1>1, LeaseConstants DEF TypeOK, ClaimsATask, RunningHasLease, ClaimHoldsLock,
     StaleIsNotRunning, PendingIsClaimed, KnownTasks, ReaderSawOld, Holds, Ended, Claiming,
     MarkStale, ExpireLease, Goto, rows, lock, jobs
<1> QED
  BY <1>2, <1>3, <1>4, <1>5 DEF LiveInv

LEMMA DeleteStaleKeepsLive ==
  ASSUME ~SlowClaims, ~SlowRenewals, ~Failing, LiveInv, NEW r \in Runners, DeleteStale(r)
  PROVE  LiveInv'
<1>1. /\ TypeOK /\ ClaimsATask /\ OneActive /\ RunningHasLease /\ ClaimHoldsLock
      /\ StaleIsNotRunning /\ ReleasedIsEnded /\ ClaimsAnother
      /\ KnownTasks /\ PendingIsClaimed /\ ReaderSawOld
  BY DEF LiveInv, LeaseInv, IInv
<1>2. LeaseInv'
  BY DeleteStaleKeepsLease DEF LiveInv
<1>3. KnownTasks'
  BY <1>1, LeaseConstants DEF TypeOK, ClaimsATask, KnownTasks, Ended, Claiming, DeleteStale,
     StillStale, Stale, NoLock, Goto, rows, lock, jobs
<1>4. PendingIsClaimed'
  BY <1>1, LeaseConstants DEF TypeOK, ClaimsATask, KnownTasks, PendingIsClaimed, ClaimHoldsLock,
     ReleasedIsEnded, ClaimsAnother, Holds, Ended, Claiming, DeleteStale, StillStale, Stale,
     NoLock, Goto, rows, lock, jobs
<1>5. ReaderSawOld'
  BY <1>1, LeaseConstants DEF TypeOK, ClaimsATask, RunningHasLease, ClaimHoldsLock,
     StaleIsNotRunning, PendingIsClaimed, KnownTasks, ReaderSawOld, Holds, Ended, Claiming,
     DeleteStale, StillStale, Stale, NoLock, Goto, rows, lock, jobs
<1> QED
  BY <1>2, <1>3, <1>4, <1>5 DEF LiveInv

LEMMA HeartbeatKeepsLive ==
  ASSUME ~SlowClaims, ~SlowRenewals, ~Failing, LiveInv, NEW r \in Runners, NEW t \in Tasks, Heartbeat(r, t)
  PROVE  LiveInv'
<1>1. /\ TypeOK /\ ClaimsATask /\ OneActive /\ RunningHasLease /\ ClaimHoldsLock
      /\ StaleIsNotRunning /\ ReleasedIsEnded /\ ClaimsAnother
      /\ KnownTasks /\ PendingIsClaimed /\ ReaderSawOld
  BY DEF LiveInv, LeaseInv, IInv
<1>2. LeaseInv'
  BY HeartbeatKeepsLease DEF LiveInv
<1>3. KnownTasks'
  BY <1>1, LeaseConstants DEF TypeOK, ClaimsATask, KnownTasks, Ended, Claiming, Heartbeat,
     SawLive, Lease, Holds, rows, pass
<1>4. PendingIsClaimed'
  BY <1>1, LeaseConstants DEF TypeOK, ClaimsATask, KnownTasks, PendingIsClaimed, ClaimHoldsLock,
     ReleasedIsEnded, ClaimsAnother, Holds, Ended, Claiming, Heartbeat, SawLive, Lease, rows, pass
<1>5. ReaderSawOld'
  BY <1>1, LeaseConstants DEF TypeOK, ClaimsATask, RunningHasLease, ClaimHoldsLock,
     StaleIsNotRunning, PendingIsClaimed, KnownTasks, ReaderSawOld, Holds, Ended, Claiming,
     Heartbeat, SawLive, Lease, rows, pass
<1> QED
  BY <1>2, <1>3, <1>4, <1>5 DEF LiveInv

LEMMA FinishKeepsLive ==
  ASSUME ~SlowClaims, ~SlowRenewals, ~Failing, LiveInv, NEW r \in Runners, NEW t \in Tasks, NEW s \in Ended, Finish(r, t, s)
  PROVE  LiveInv'
<1>1. /\ TypeOK /\ ClaimsATask /\ OneActive /\ RunningHasLease /\ ClaimHoldsLock
      /\ StaleIsNotRunning /\ ReleasedIsEnded /\ ClaimsAnother
      /\ KnownTasks /\ PendingIsClaimed /\ ReaderSawOld
  BY DEF LiveInv, LeaseInv, IInv
<1>2. LeaseInv'
  BY FinishKeepsLease DEF LiveInv
<1>3. KnownTasks'
  BY <1>1, LeaseConstants DEF TypeOK, ClaimsATask, KnownTasks, Ended, Claiming, Finish,
     MayFinish, SawLive, Holds, lock, pass
<1>4. PendingIsClaimed'
  BY <1>1, LeaseConstants DEF TypeOK, ClaimsATask, KnownTasks, PendingIsClaimed, ClaimHoldsLock,
     ReleasedIsEnded, ClaimsAnother, Holds, Ended, Claiming, Finish, MayFinish, SawLive, lock, pass
<1>5. ReaderSawOld'
  BY <1>1, LeaseConstants DEF TypeOK, ClaimsATask, RunningHasLease, ClaimHoldsLock,
     StaleIsNotRunning, PendingIsClaimed, KnownTasks, ReaderSawOld, Holds, Ended, Claiming,
     Finish, MayFinish, SawLive, lock, pass
<1> QED
  BY <1>2, <1>3, <1>4, <1>5 DEF LiveInv

LEMMA ReleaseLockKeepsLive ==
  ASSUME ~SlowClaims, ~SlowRenewals, ~Failing, LiveInv, NEW r \in Runners, NEW t \in Tasks, ReleaseLock(r, t)
  PROVE  LiveInv'
<1>1. /\ TypeOK /\ ClaimsATask /\ OneActive /\ RunningHasLease /\ ClaimHoldsLock
      /\ StaleIsNotRunning /\ ReleasedIsEnded /\ ClaimsAnother
      /\ KnownTasks /\ PendingIsClaimed /\ ReaderSawOld
  BY DEF LiveInv, LeaseInv, IInv
<1>2. LeaseInv'
  BY ReleaseLockKeepsLease DEF LiveInv
<1>3. KnownTasks'
  BY <1>1, LeaseConstants DEF TypeOK, ClaimsATask, KnownTasks, Ended, Claiming, ReleaseLock,
     Release, NoLock, rows, lock, pass
<1>4. PendingIsClaimed'
  BY <1>1, LeaseConstants DEF TypeOK, ClaimsATask, KnownTasks, PendingIsClaimed, ClaimHoldsLock,
     ReleasedIsEnded, ClaimsAnother, Holds, Ended, Claiming, ReleaseLock, Release, NoLock, rows,
     lock, pass
<1>5. ReaderSawOld'
  BY <1>1, LeaseConstants DEF TypeOK, ClaimsATask, RunningHasLease, ClaimHoldsLock,
     StaleIsNotRunning, PendingIsClaimed, KnownTasks, ReaderSawOld, Holds, Ended, Claiming,
     ReleaseLock, Release, NoLock, rows, lock, pass
<1> QED
  BY <1>2, <1>3, <1>4, <1>5 DEF LiveInv

LEMMA StepKeepsLive ==
  ASSUME ~SlowClaims, ~SlowRenewals, ~Failing, ~Crashing, LiveInv, [Next]_vars
  PROVE  LiveInv'
<1>1. CASE UNCHANGED vars
  <2>1. LeaseInv'
    BY StepKeepsLease DEF LiveInv
  <2> QED
    BY <1>1, <2>1 DEF LiveInv, KnownTasks, PendingIsClaimed, ReaderSawOld, vars, rows, lock, pass
<1>2. CASE \E t \in Tasks : Create(t)
  BY <1>2, CreateKeepsLive
<1>3. CASE Tick
  BY <1>3, TickKeepsLive
<1>4. CASE \E r \in Runners, t \in Tasks : FindPending(r, t)
  BY <1>4, FindPendingKeepsLive
<1>5. CASE \E r \in Runners : Acquire(r)
  BY <1>5, AcquireKeepsLive
<1>6. CASE \E r \in Runners : Takeover(r)
  BY <1>6, TakeoverKeepsLive
<1>7. CASE \E r \in Runners : MarkTaken(r)
  BY <1>7, MarkTakenKeepsLive
<1>8. CASE \E r \in Runners : Start(r)
  BY <1>8, StartKeepsLive
<1>9. CASE \E r \in Runners : ReadStale(r)
  BY <1>9, ReadStaleKeepsLive
<1>10. CASE \E r \in Runners : MarkStale(r)
  BY <1>10, MarkStaleKeepsLive
<1>11. CASE \E r \in Runners : DeleteStale(r)
  BY <1>11, DeleteStaleKeepsLive
<1>12. CASE \E r \in Runners, t \in Tasks : Heartbeat(r, t)
  BY <1>12, HeartbeatKeepsLive
<1>13. CASE \E r \in Runners, t \in Tasks, s \in Ended : Finish(r, t, s)
  BY <1>13, FinishKeepsLive
<1>14. CASE \E r \in Runners, t \in Tasks : ReleaseLock(r, t)
  BY <1>14, ReleaseLockKeepsLive
<1>15. CASE \E r \in Runners : Crash(r)
  BY <1>15 DEF Crash
<1> QED
  BY <1>1, <1>2, <1>3, <1>4, <1>5, <1>6, <1>7, <1>8, <1>9, <1>10, <1>11, <1>12, <1>13, <1>14,
     <1>15 DEF Next, Pass, Handle

\* No step ends a row with a live lease but the one of its handler.
LEMMA LiveRowKept ==
  ASSUME LiveInv, [Next]_vars, NEW t \in Tasks,
         status[t] = "running", Holds(owner[t], t), status'[t] # "running"
  PROVE  <<owner[t], t>> \in releasing'
<1>1. TypeOK /\ ClaimsATask /\ ClaimHoldsLock /\ ReaderSawOld
  BY DEF LiveInv, LeaseInv, IInv
<1>2. CASE \E u \in Tasks : Create(u)
  BY <1>1, <1>2 DEF TypeOK, Create
<1>3. ASSUME NEW r \in Runners, MarkTaken(r) PROVE FALSE
  BY <1>1, <1>3 DEF TypeOK, ClaimHoldsLock, Holds, MarkTaken, ExpireLease, Claiming, rows
<1>4. ASSUME NEW r \in Runners, MarkStale(r) PROVE FALSE
  BY <1>1, <1>4 DEF TypeOK, ReaderSawOld, Holds, MarkStale, ExpireLease, rows
<1>5. CASE \E r \in Runners : Start(r)
  BY <1>1, <1>5 DEF TypeOK, ClaimsATask, Start, MayStart, Claiming, rows
<1>6. CASE \E r \in Runners, u \in Tasks, s \in Ended : Finish(r, u, s)
  BY <1>1, <1>6 DEF TypeOK, Finish, MayFinish, SawLive, Holds
<1>7. CASE Tick
  BY <1>7 DEF Tick, rows
<1>8. CASE \E r \in Runners :
             Acquire(r) \/ Takeover(r) \/ ReadStale(r) \/ DeleteStale(r) \/ Crash(r)
  BY <1>8 DEF Acquire, Takeover, ReadStale, DeleteStale, Crash, rows
<1>9. CASE \E r \in Runners, u \in Tasks :
             FindPending(r, u) \/ Heartbeat(r, u) \/ ReleaseLock(r, u)
  BY <1>9 DEF FindPending, Heartbeat, SawLive, Lease, Holds, ReleaseLock, rows
<1>10. CASE UNCHANGED vars
  BY <1>10 DEF vars, rows
<1> QED
  BY <1>2, <1>3, <1>4, <1>5, <1>6, <1>7, <1>8, <1>9, <1>10 DEF Next, Pass, Handle

\* As long as nothing fails, dies, claims or renews too slowly, no expiry ends a row whose
\* lease is live, for any number of runners: what service/system_task.go says of the
\* heartbeat is broken only by an interrupted claim or by a renewal that comes after
\* the lease it saw (RenewSystemTaskLock, MarkSystemTaskLeaseExpired).
THEOREM LiveLeaseWithoutFaults ==
  ASSUME ~SlowClaims, ~SlowRenewals, ~Failing, ~Crashing
  PROVE  Spec => LiveLeaseKeepsRunning
<1>1. Init => LiveInv
  <2> SUFFICES ASSUME Init PROVE LiveInv
    OBVIOUS
  <2>1. LeaseInv
    BY InitLease
  <2> QED
    BY <2>1 DEF Init, LiveInv, KnownTasks, PendingIsClaimed, ReaderSawOld, Claiming
<1>2. LiveInv /\ [Next]_vars => LiveInv'
  BY StepKeepsLive
<1>3. LiveInv /\ [Next]_vars
        => [\A t \in Tasks :
              status[t] = "running" /\ Holds(owner[t], t) /\ status'[t] # "running"
                => <<owner[t], t>> \in releasing']_vars
  BY LiveRowKept
<1> QED
  BY <1>1, <1>2, <1>3, PTL DEF Spec, LiveLeaseKeepsRunning
=============================================================================
