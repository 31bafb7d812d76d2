---------------------------- MODULE TaskPolling ----------------------------
(***************************************************************************)
(* Asynchronous (Suno and video) tasks after they were submitted: a row in *)
(* the tasks table, charged for Task.Quota, is driven to a terminal status *)
(* by polling passes, by the timeout sweep in front of each pass and, for  *)
(* Gemini and Vertex, by the user's own fetches.  Passes overlap: several  *)
(* instances poll, and a pass whose lease was lost is still finishing.     *)
(*                                                                         *)
(* A worker is one goroutine dealing with one task row it has read.  All   *)
(* it knows of the row is its copy; it writes the whole row back with      *)
(* UpdateWithStatus and then moves the money, one ledger at a time.        *)
(***************************************************************************)
EXTENDS Integers

CONSTANTS
  Tasks,           \* task rows
  Workers,         \* goroutines that may deal with a row at the same time
  Quotas,          \* quota amounts
  Suno,            \* tasks polled by updateSunoTasks, the others are videos
  Realtime,        \* tasks a user's fetch updates (Gemini and Vertex channels)
  Legacy,          \* tasks submitted before TaskRefundLegacyCutoff
  Timeouts,        \* TaskTimeoutMinutes > 0
  ChannelLoss,     \* tasks whose channel or video account may be gone when polled
  ErrorAnswers,    \* the upstream may answer a poll with an error body
  FullProgress,    \* the upstream may report 100% for a task it still runs
  SettleFailing,   \* the settlement at submission may fail
  Failing,         \* later database operations may fail
  Crashing         \* a process may die between two steps

ASSUME TaskConstants ==
  /\ Quotas \subseteq Nat
  /\ Suno \subseteq Tasks /\ Realtime \subseteq Tasks /\ Legacy \subseteq Tasks
  /\ Suno \cap Realtime = {} /\ ChannelLoss \subseteq Tasks
  /\ {Timeouts, ErrorAnswers, FullProgress, SettleFailing, Failing, Crashing}
       \subseteq BOOLEAN

VARIABLES
  \* the row
  status,    \* Task.Status, "none" before it is inserted
  full,      \* tasks whose Task.Progress is "100%"
  quota,     \* Task.Quota
  \* what the task holds on its funding source and on the token
  held, heldToken,
  up,        \* the task at the upstream
  \* the workers
  at,        \* where the worker stands
  on,        \* the task it deals with
  from,      \* the status of the row it read
  to,        \* the status it is going to write
  toFull,    \* ... with progress "100%": a set of workers
  user,      \* workers that serve a user's fetch
  copy,      \* its copy of Task.Quota
  delta,     \* quotaDelta of a settlement
  \* history
  refunds,   \* refunds of the funding source
  dropped    \* tasks for which a billing step was lost

row == <<status, full, quota>>
ledgers == <<held, heldToken>>
copyVars == <<on, from, to, toFull, user, copy>>
vars == <<row, ledgers, up, at, copyVars, delta, refunds, dropped>>

Running == {"NOT_START", "IN_PROGRESS"}
Terminal == {"SUCCESS", "FAILURE"}
Refunding == {"refund", "refundToken", "clear"}
Settling == {"settle", "settleToken", "save"}
Billing == Refunding \cup Settling

\* The upstream has accepted the tasks; RelayTask is about to insert their rows.
Init ==
  /\ status = [t \in Tasks |-> "none"]
  /\ full = {}
  /\ quota = [t \in Tasks |-> 0]
  /\ held = [t \in Tasks |-> 0] /\ heldToken = [t \in Tasks |-> 0]
  /\ up = [t \in Tasks |-> "IN_PROGRESS"]
  /\ at = [w \in Workers |-> "idle"]
  /\ \E t \in Tasks : on = [w \in Workers |-> t]
  /\ from = [w \in Workers |-> "none"] /\ to = [w \in Workers |-> "none"]
  /\ toFull = {} /\ user = {}
  /\ copy = [w \in Workers |-> 0] /\ delta = [w \in Workers |-> 0]
  /\ refunds = [t \in Tasks |-> 0]
  /\ dropped = {}

-----------------------------------------------------------------------------
(* Submission.                                                             *)

\* RelayTask and RelayVideoAccountTask: the session that reserved pre is settled
\* for the final quota q, an error of the source or of the token after it being only
\* logged, and the row is inserted.
Submit(t, pre, q) ==
  /\ status[t] = "none"
  /\ \E n \in {<<q, q>>} \cup (IF SettleFailing THEN {<<pre, pre>>, <<q, pre>>} ELSE {}) :
       /\ held' = [held EXCEPT ![t] = n[1]]
       /\ heldToken' = [heldToken EXCEPT ![t] = n[2]]
  /\ status' = [status EXCEPT ![t] = "NOT_START"]
  /\ quota' = [quota EXCEPT ![t] = q]
  /\ UNCHANGED <<full, up, at, copyVars, delta, refunds, dropped>>

\* The upstream ends the task.
UpstreamEnds(t, s) ==
  /\ status[t] # "none" /\ up[t] = "IN_PROGRESS" /\ s \in Terminal
  /\ up' = [up EXCEPT ![t] = s]
  /\ UNCHANGED <<row, ledgers, at, copyVars, delta, refunds, dropped>>

-----------------------------------------------------------------------------
(* Reading a row.                                                          *)

\* Mutant: only tasks the upstream has started are looked at.
UnfinishedStarted(t) == status[t] = "IN_PROGRESS" /\ t \notin full

\* GetTimedOutUnfinishedTasks and GetAllUnFinishSyncTasks.
Unfinished(t) == status[t] \in Running /\ t \notin full

\* A worker takes its copy of the row.
Read(w, t, label) ==
  /\ at[w] = "idle"
  /\ at' = [at EXCEPT ![w] = label]
  /\ on' = [on EXCEPT ![w] = t]
  /\ from' = [from EXCEPT ![w] = status[t]]
  /\ UNCHANGED <<row, ledgers, up, delta, refunds, dropped>>

\* sweepTimedOutTasks: any unfinished task may be past the cutoff. A legacy task
\* loses its quota with the terminal write and is not refunded.
LoadSweep(w, t) ==
  /\ Timeouts /\ Unfinished(t)
  /\ Read(w, t, "write")
  /\ to' = [to EXCEPT ![w] = "FAILURE"]
  /\ toFull' = toFull \cup {w}
  /\ user' = user \ {w}
  /\ copy' = [copy EXCEPT ![w] = IF t \in Legacy THEN 0 ELSE quota[t]]

\* RunTaskPollingOnce.
LoadPoll(w, t) ==
  /\ Unfinished(t)
  /\ Read(w, t, "fetch")
  /\ user' = user \ {w}
  /\ copy' = [copy EXCEPT ![w] = quota[t]]
  /\ UNCHANGED <<to, toFull>>

\* videoFetchByIDRespBodyBuilder, which takes a row in any status.
LoadFetch(w, t) ==
  /\ t \in Realtime /\ status[t] # "none"
  /\ Read(w, t, "fetch")
  /\ user' = user \cup {w}
  /\ copy' = [copy EXCEPT ![w] = quota[t]]
  /\ UNCHANGED <<to, toFull>>

-----------------------------------------------------------------------------
(* Asking the upstream.                                                    *)

\* The adaptor's answer: the state of the task, or an error body that is taken
\* for a failure.
Answers(t) == {up[t]} \cup (IF ErrorAnswers THEN {"FAILURE"} ELSE {})

\* taskSnapshot.Equal, for a fetch of a task that has ended: there is nothing to
\* write. A fetch or a poll of a running task may find other columns changed.
NothingNew(w, s) == w \in user /\ s = from[w] /\ s \in Terminal

Answer(w, s) ==
  /\ at[w] = "fetch" /\ s \in Answers(on[w]) /\ ~NothingNew(w, s)
  /\ at' = [at EXCEPT ![w] = "write"]
  /\ to' = [to EXCEPT ![w] = s]
  /\ \/ toFull' = IF s \in Terminal THEN toFull \cup {w} ELSE toFull \ {w}
     \/ FullProgress /\ on[w] \notin Suno \cup Realtime /\ toFull' = toFull \cup {w}
  /\ UNCHANGED <<row, ledgers, up, on, from, user, copy, delta, refunds, dropped>>

\* No answer, a 429, an unknown status or a cancelled pass; or nothing changed.
NoAnswer(w) ==
  /\ at[w] = "fetch"
  /\ at' = [at EXCEPT ![w] = "idle"]
  /\ UNCHANGED <<row, ledgers, up, copyVars, delta, refunds, dropped>>

\* The channel is gone: TaskBulkUpdateByID fails the row whatever it holds by now.
ChannelLost(w) ==
  /\ at[w] = "fetch" /\ on[w] \in ChannelLoss /\ w \notin user
  /\ status' = [status EXCEPT ![on[w]] = "FAILURE"]
  /\ full' = full \cup {on[w]}
  /\ at' = [at EXCEPT ![w] = "idle"]
  /\ UNCHANGED <<quota, ledgers, up, copyVars, delta, refunds, dropped>>

-----------------------------------------------------------------------------
(* Writing the row back.                                                   *)

\* Mutant: the update is not guarded by the status that was read.
CasWinsAlways(w) == at[w] = "write"

\* UpdateWithStatus: WHERE status = fromStatus.
CasWins(w) == status[on[w]] = from[w]

\* Mutant: the outcome of the update is not looked at.
AfterWriteLost(w) ==
  IF to[w] = "FAILURE" /\ copy[w] # 0 /\ w \notin user THEN "refund" ELSE "idle"

\* Mutant: a failed Suno task is not refunded.
AfterWriteNoSuno(w) ==
  IF w \in user \/ on[w] \in Suno THEN "idle"
  ELSE IF to[w] = "FAILURE" /\ copy[w] # 0 THEN "refund"
  ELSE IF to[w] = "SUCCESS" THEN "settle"
  ELSE "idle"

\* What the winner of the update does next.
AfterWrite(w) ==
  IF w \in user THEN "idle"
  ELSE IF to[w] = "FAILURE" /\ copy[w] # 0 THEN "refund"
  ELSE IF to[w] = "SUCCESS" /\ on[w] \notin Suno THEN "settle"
  ELSE "idle"

\* What the loser does next.
AfterLoss(w) == "idle"

\* All columns are written, Task.Quota included.
Write(w) ==
  /\ at[w] = "write"
  /\ \/ /\ CasWins(w)
        /\ status' = [status EXCEPT ![on[w]] = to[w]]
        /\ full' = IF w \in toFull THEN full \cup {on[w]} ELSE full \ {on[w]}
        /\ quota' = [quota EXCEPT ![on[w]] = copy[w]]
        /\ at' = [at EXCEPT ![w] = AfterWrite(w)]
     \/ /\ ~CasWins(w) \/ Failing
        /\ at' = [at EXCEPT ![w] = AfterLoss(w)]
        /\ UNCHANGED row
  /\ UNCHANGED <<ledgers, up, copyVars, delta, refunds, dropped>>

-----------------------------------------------------------------------------
(* RefundTaskQuota.                                                        *)

\* The step of worker w at label is done, or its error is logged.
Goto(w, label) == at' = [at EXCEPT ![w] = label]

\* A failed refund of the source ends the refund and keeps Task.Quota.
RefundFunding(w) ==
  /\ at[w] = "refund"
  /\ \/ /\ held' = [held EXCEPT ![on[w]] = @ - copy[w]]
        /\ refunds' = [refunds EXCEPT ![on[w]] = @ + 1]
        /\ Goto(w, "refundToken")
        /\ UNCHANGED dropped
     \/ /\ Failing
        /\ Goto(w, "idle")
        /\ dropped' = dropped \cup {on[w]}
        /\ UNCHANGED <<held, refunds>>
  /\ UNCHANGED <<row, heldToken, up, copyVars, delta>>

\* The token may have been deleted.
RefundToken(w) ==
  /\ at[w] = "refundToken"
  /\ \/ heldToken' = [heldToken EXCEPT ![on[w]] = @ - copy[w]] /\ UNCHANGED dropped
     \/ Failing /\ dropped' = dropped \cup {on[w]} /\ UNCHANGED heldToken
  /\ Goto(w, "clear")
  /\ UNCHANGED <<row, held, up, copyVars, delta, refunds>>

\* Mutant: the quota stays on the row of a refunded task.
ClearQuotaForgotten(w) ==
  /\ at[w] = "clear"
  /\ Goto(w, "idle")
  /\ UNCHANGED <<row, ledgers, up, copyVars, delta, refunds, dropped>>

ClearQuota(w) ==
  /\ at[w] = "clear"
  /\ \/ quota' = [quota EXCEPT ![on[w]] = 0] /\ UNCHANGED dropped
     \/ Failing /\ dropped' = dropped \cup {on[w]} /\ UNCHANGED quota
  /\ Goto(w, "idle")
  /\ UNCHANGED <<status, full, ledgers, up, copyVars, delta, refunds>>

-----------------------------------------------------------------------------
(* settleTaskBillingOnComplete and RecalculateTaskQuota.                   *)

\* The adaptor or the token count gives the actual quota; 0 stands for a task
\* that keeps its pre-charge. A source that refuses leaves everything as it is.
SettleFunding(w, actual) ==
  /\ at[w] = "settle"
  /\ \/ /\ actual > 0 /\ actual # copy[w]
        /\ held' = [held EXCEPT ![on[w]] = @ + actual - copy[w]]
        /\ delta' = [delta EXCEPT ![w] = actual - copy[w]]
        /\ Goto(w, "settleToken")
     \/ /\ actual = 0 \/ actual = copy[w] \/ Failing
        /\ Goto(w, "idle")
        /\ UNCHANGED <<held, delta>>
  /\ UNCHANGED <<row, heldToken, up, copyVars, refunds, dropped>>

\* Mutant: the token is charged for the actual quota and not for the difference.
SettleTokenWhole(w) ==
  /\ at[w] = "settleToken"
  /\ heldToken' = [heldToken EXCEPT ![on[w]] = @ + copy[w] + delta[w]]
  /\ Goto(w, "save")
  /\ UNCHANGED <<row, held, up, copyVars, delta, refunds, dropped>>

SettleToken(w) ==
  /\ at[w] = "settleToken"
  /\ \/ heldToken' = [heldToken EXCEPT ![on[w]] = @ + delta[w]] /\ UNCHANGED dropped
     \/ Failing /\ dropped' = dropped \cup {on[w]} /\ UNCHANGED heldToken
  /\ Goto(w, "save")
  /\ UNCHANGED <<row, held, up, copyVars, delta, refunds>>

\* Mutant: the difference is saved in place of the actual quota.
SaveQuotaDelta(w) ==
  /\ at[w] = "save"
  /\ quota' = [quota EXCEPT ![on[w]] = delta[w]]
  /\ Goto(w, "idle")
  /\ UNCHANGED <<status, full, ledgers, up, copyVars, delta, refunds, dropped>>

SaveQuota(w) ==
  /\ at[w] = "save"
  /\ \/ quota' = [quota EXCEPT ![on[w]] = copy[w] + delta[w]] /\ UNCHANGED dropped
     \/ Failing /\ dropped' = dropped \cup {on[w]} /\ UNCHANGED quota
  /\ Goto(w, "idle")
  /\ UNCHANGED <<status, full, ledgers, up, copyVars, delta, refunds>>

\* The process of worker w dies; nothing resumes its billing.
Crash(w) ==
  /\ Crashing /\ at[w] # "idle"
  /\ Goto(w, "idle")
  /\ dropped' = IF at[w] \in Billing THEN dropped \cup {on[w]} ELSE dropped
  /\ UNCHANGED <<row, ledgers, up, copyVars, delta, refunds>>

-----------------------------------------------------------------------------
\* The steps a worker takes once it has read a row.
Work(w) ==
  \/ \E s \in Running \cup Terminal : Answer(w, s)
  \/ NoAnswer(w) \/ ChannelLost(w) \/ Write(w)
  \/ RefundFunding(w) \/ RefundToken(w) \/ ClearQuota(w)
  \/ \E q \in Quotas : SettleFunding(w, q)
  \/ SettleToken(w) \/ SaveQuota(w)

Next ==
  \/ \E t \in Tasks, pre, q \in Quotas : Submit(t, pre, q)
  \/ \E t \in Tasks, s \in Terminal : UpstreamEnds(t, s)
  \/ \E w \in Workers, t \in Tasks : LoadSweep(w, t) \/ LoadPoll(w, t) \/ LoadFetch(w, t)
  \/ \E w \in Workers : Work(w) \/ Crash(w)

Spec == Init /\ [][Next]_vars

-----------------------------------------------------------------------------
(* Properties.                                                             *)

\* Every variable has its type; Task.Quota is never anything but a quoted amount.
TypeOK ==
  /\ status \in [Tasks -> {"none"} \cup Running \cup Terminal]
  /\ full \subseteq Tasks
  /\ quota \in [Tasks -> Quotas \cup {0}]
  /\ held \in [Tasks -> Int] /\ heldToken \in [Tasks -> Int]
  /\ up \in [Tasks -> {"IN_PROGRESS"} \cup Terminal]
  /\ at \in [Workers -> {"idle", "fetch", "write"} \cup Billing]
  /\ on \in [Workers -> Tasks]
  /\ from \in [Workers -> {"none"} \cup Running \cup Terminal]
  /\ to \in [Workers -> {"none"} \cup Running \cup Terminal]
  /\ toFull \subseteq Workers /\ user \subseteq Workers
  /\ copy \in [Workers -> Quotas \cup {0}]
  /\ delta \in [Workers -> Int]
  /\ refunds \in [Tasks -> Nat]
  /\ dropped \subseteq Tasks

\* Tasks whose row leaves a terminal status by ChannelLost at most. A user's fetch
\* does not compare what it read with what it writes, so for a task users fetch
\* this needs that only the upstream ends it: no sweep, error body or lost channel
\* fails it while the upstream still runs it.
Guarded ==
  {t \in Tasks : t \in Realtime => ~Timeouts /\ ~ErrorAnswers /\ t \notin ChannelLoss}

\* ... and whose terminal status is final.
Kept == Guarded \ ChannelLoss

\* No worker is moving the money of task t.
Quiet(t) == \A w \in Workers : on[w] = t => at[w] \notin Billing

\* Overlapping polls, sweeps, restarts and failed writes refund a task's funding
\* source once at most (updateSunoTasks, updateVideoSingleTask, sweepTimedOutTasks).
RefundedAtMostOnce == \A t \in Tasks : refunds[t] <= 1

\* RefundTaskQuota and RecalculateTaskQuota never return more than the task paid,
\* to the funding source or to the token, whatever step of them fails.
NeverOverRefunded == \A t \in Tasks : held[t] >= 0 /\ heldToken[t] >= 0

\* A status written by the winner of a transition is final: no poll, sweep or
\* fetch that read the row earlier takes the task out of it.
TerminalStays ==
  [][\A t \in Tasks : status[t] \in Terminal => status'[t] = status[t]]_vars

\* Once a task has failed and nobody is refunding it, it holds nothing, unless a
\* database operation or the process failed during the refund. Legacy tasks are
\* swept without a refund.
FailedIsRefunded ==
  \A t \in Tasks \ (dropped \cup Legacy) :
    status[t] = "FAILURE" /\ Quiet(t) => held[t] = 0 /\ heldToken[t] = 0

\* Task.Quota is what the task holds on the source and on the token whenever no
\* billing is under way: what RefundTaskQuota and RecalculateTaskQuota start from.
BooksAgree ==
  \A t \in Tasks \ (dropped \cup Legacy) :
    Quiet(t) => held[t] = quota[t] /\ heldToken[t] = quota[t]

-----------------------------------------------------------------------------
(* The promise of TaskCharges, on the funding source and on the token.      *)

\* Kept tasks that some worker at one of the labels deals with.
DealtAt(labels) == {t \in Kept : \E w \in Workers : on[w] = t /\ at[w] \in labels}

\* The status as the ledgers see it.
KeptStatus == [t \in Kept |-> IF status[t] \in Running THEN "running" ELSE status[t]]

Source == INSTANCE TaskCharges WITH
  Tasks <- Kept, Amounts <- Quotas, status <- KeptStatus,
  held <- [t \in Kept |-> held[t]], due <- DealtAt({"refund", "settle"})

Token == INSTANCE TaskCharges WITH
  Tasks <- Kept, Amounts <- Quotas, status <- KeptStatus,
  held <- [t \in Kept |-> heldToken[t]],
  due <- DealtAt({"refund", "refundToken", "settle", "settleToken"})

\* Of all the steps of overlapping workers, at most one moves the charge of an ended
\* task: it gives a failed task's whole charge back or settles a successful one
\* (RefundTaskQuota, RecalculateTaskQuota).
SourceCharged == Source!Spec

\* ... and the same of the token's allowance, which moves after the source.
TokenCharged == Token!Spec

-----------------------------------------------------------------------------
(* Liveness: passes recur (async_task_poll is scheduled while a task is     *)
(* unfinished) and a goroutine that has begun goes on.  That the upstream   *)
(* ends its task is not assumed: the sweep has to end it.                   *)

FairSpec ==
  /\ Spec
  /\ \A w \in Workers : WF_vars(Work(w))
  /\ \A t \in Tasks : SF_vars(\E w \in Workers : LoadSweep(w, t))

\* An inserted task reaches a terminal status, and its money comes to rest.
TasksEnd ==
  \A t \in Tasks : status[t] = "NOT_START" ~> (status[t] \in Terminal /\ Quiet(t))
=============================================================================
