-------------------------- MODULE TaskPollingProofs --------------------------
(* What holds of TaskPolling for every set of tasks, workers and quotas: the  *)
(* types always; the refunds of guarded tasks; and, when the settlement at    *)
(* submission succeeds, the books of kept tasks and the promise of TaskCharges. *)
EXTENDS TaskPolling, TLAPS

-----------------------------------------------------------------------------
(* The inductive invariant of the refunds.                                    *)

\* The quota a settlement is going to save is one the adaptor gave.
SavesAQuota ==
  \A w \in Workers : at[w] \in {"settleToken", "save"} => copy[w] + delta[w] \in Quotas

\* A worker on a guarded task that has not written yet read a row that was running;
\* a user's fetch may have read one that the upstream had ended, and writes nothing.
ReadRunning ==
  \A w \in Workers : on[w] \in Guarded =>
    /\ at[w] \in {"fetch", "write"} =>
         status[on[w]] # "none" /\ (w \in user => on[w] \in Realtime)
    /\ at[w] = "fetch" =>
         from[w] \in Running \/ (w \in user /\ from[w] \in Terminal /\ up[on[w]] = from[w])
    /\ at[w] = "write" => from[w] \in Running /\ to[w] # "none"

\* A guarded task that users fetch ends, and is about to be ended, as the upstream
\* has ended it.
FollowsUpstream ==
  /\ \A t \in Guarded \cap Realtime : status[t] \in Terminal => up[t] = status[t]
  /\ \A w \in Workers : on[w] \in Guarded \cap Realtime /\ at[w] = "write" /\ to[w] \in Terminal
       => up[on[w]] = to[w]

\* At most one worker moves the money of a task.
OneBiller ==
  \A v, w \in Workers :
    at[v] \in Billing /\ at[w] \in Billing /\ on[v] = on[w] /\ on[v] \in Guarded => v = w

\* Money moves after the terminal write only.
BilledWhenEnded ==
  \A t \in Guarded : status[t] \notin Terminal => refunds[t] = 0 /\ Quiet(t)

\* A refund that is about to start is the first.
FirstRefund ==
  \A w \in Workers : on[w] \in Guarded /\ at[w] = "refund" => refunds[on[w]] = 0

\* ... and there is no second one.
GuardedRefunds == \A t \in Guarded : refunds[t] <= 1

RefundInv ==
  /\ TypeOK /\ SavesAQuota /\ ReadRunning /\ FollowsUpstream /\ OneBiller
  /\ BilledWhenEnded /\ FirstRefund /\ GuardedRefunds

-----------------------------------------------------------------------------
(* The inductive invariant of the books, for tasks that are failed by guarded *)
(* updates only, when the settlement at submission succeeds.                  *)

\* Until its terminal write a task holds its quota.
RunningBooks ==
  \A t \in Kept :
    status[t] \notin Terminal => held[t] = quota[t] /\ heldToken[t] = quota[t]

\* The copy of a row that is still running is up to date, or is the one a sweep
\* of a legacy task is about to write.
CopyFresh ==
  \A w \in Workers :
    on[w] \in Kept /\ at[w] \in {"fetch", "write"} /\ status[on[w]] \in Running
      => \/ copy[w] = quota[on[w]]
         \/ on[w] \in Legacy /\ copy[w] = 0 /\ at[w] = "write" /\ to[w] = "FAILURE"

\* The kind of billing fits the status.
BillingFits ==
  \A w \in Workers : on[w] \in Kept =>
    /\ at[w] \in Refunding => status[on[w]] = "FAILURE"
    /\ at[w] \in Settling => status[on[w]] = "SUCCESS"

\* What a task holds on its source, and its quota, while a worker bills it.
MidFunding ==
  \A w \in Workers : on[w] \in Kept =>
    /\ at[w] \in {"refund", "settle"} => held[on[w]] = copy[w]
    /\ at[w] = "settle" => quota[on[w]] = copy[w]
    /\ at[w] \in {"refundToken", "clear"} => held[on[w]] = 0
    /\ at[w] \in {"settleToken", "save"} => held[on[w]] = copy[w] + delta[w]

\* ... and on the token: a lost token step is known to be dropped.
MidToken ==
  \A w \in Workers : on[w] \in Kept =>
    /\ at[w] \in {"refund", "settle", "refundToken", "settleToken"}
         => heldToken[on[w]] = copy[w]
    /\ at[w] = "clear" /\ on[w] \notin dropped => heldToken[on[w]] = 0
    /\ at[w] = "save" /\ on[w] \notin dropped => heldToken[on[w]] = copy[w] + delta[w]

\* A failed task that no user fetches and nobody refunds has no quota left.
FailedHasNoQuota ==
  \A t \in Kept \ (Realtime \cup dropped \cup Legacy) :
    status[t] = "FAILURE" /\ Quiet(t) => quota[t] = 0

\* BooksAgree and NeverOverRefunded of the kept tasks.
KeptBooks ==
  \A t \in Kept \ (dropped \cup Legacy) :
    Quiet(t) => held[t] = quota[t] /\ heldToken[t] = quota[t]

KeptNotOverRefunded == \A t \in Kept : held[t] >= 0 /\ heldToken[t] >= 0

BooksInv ==
  /\ RefundInv /\ RunningBooks /\ CopyFresh /\ BillingFits /\ MidFunding /\ MidToken
  /\ FailedHasNoQuota /\ KeptBooks /\ KeptNotOverRefunded

-----------------------------------------------------------------------------
(* Amounts are numbers.                                                       *)

LEMMA QuotasAreNat == \A q \in Quotas : q \in Nat
  BY TaskConstants

\* What is known of the guarded and the kept tasks.
LEMMA TaskSets ==
  /\ Guarded \subseteq Tasks /\ Kept \subseteq Guarded /\ Kept \cap ChannelLoss = {}
  /\ \A t \in Guarded \cap Realtime : ~Timeouts /\ ~ErrorAnswers /\ t \notin ChannelLoss
  BY DEF Guarded, Kept

LEMMA Amounts ==
  ASSUME TypeOK, NEW w \in Workers
  PROVE  /\ on[w] \in Tasks /\ copy[w] \in Nat
         /\ held[on[w]] \in Int /\ heldToken[on[w]] \in Int /\ refunds[on[w]] \in Nat
<1>1. copy[w] \in Quotas \cup {0} /\ on[w] \in Tasks
  BY DEF TypeOK
<1>2. copy[w] \in Nat
  BY <1>1, QuotasAreNat
<1> QED
  BY <1>1, <1>2 DEF TypeOK

-----------------------------------------------------------------------------
(* Types: one lemma for each action.                                        *)

LEMMA SubmitKeepsTypes ==
  ASSUME TypeOK, SavesAQuota, NEW t \in Tasks, NEW pre \in Quotas, NEW q \in Quotas,
         Submit(t, pre, q)
  PROVE  TypeOK' /\ SavesAQuota'
<1>1. TypeOK'
  BY TaskConstants DEF TypeOK, SavesAQuota, Submit, copyVars, Running, Terminal, Billing,
     Refunding, Settling
<1>2. SavesAQuota'
  BY TaskConstants DEF TypeOK, SavesAQuota, Submit, copyVars, Running, Terminal, Billing,
     Refunding, Settling
<1> QED
  BY <1>1, <1>2

LEMMA UpstreamEndsKeepsTypes ==
  ASSUME TypeOK, SavesAQuota, NEW t \in Tasks, NEW s \in Terminal,
         UpstreamEnds(t, s)
  PROVE  TypeOK' /\ SavesAQuota'
<1>1. TypeOK'
  BY TaskConstants DEF TypeOK, SavesAQuota, UpstreamEnds, row, ledgers, copyVars, Running,
     Terminal, Billing, Refunding, Settling
<1>2. SavesAQuota'
  BY TaskConstants DEF TypeOK, SavesAQuota, UpstreamEnds, row, ledgers, copyVars, Running,
     Terminal, Billing, Refunding, Settling
<1> QED
  BY <1>1, <1>2

LEMMA LoadSweepKeepsTypes ==
  ASSUME TypeOK, SavesAQuota, NEW w \in Workers, NEW t \in Tasks,
         LoadSweep(w, t)
  PROVE  TypeOK' /\ SavesAQuota'
<1>1. TypeOK'
  BY TaskConstants DEF TypeOK, SavesAQuota, LoadSweep, Read, Unfinished, row, ledgers, Running,
     Terminal, Billing, Refunding, Settling
<1>2. SavesAQuota'
  BY TaskConstants DEF TypeOK, SavesAQuota, LoadSweep, Read, Unfinished, row, ledgers, Running,
     Terminal, Billing, Refunding, Settling
<1> QED
  BY <1>1, <1>2

LEMMA LoadPollKeepsTypes ==
  ASSUME TypeOK, SavesAQuota, NEW w \in Workers, NEW t \in Tasks,
         LoadPoll(w, t)
  PROVE  TypeOK' /\ SavesAQuota'
<1>1. TypeOK'
  BY TaskConstants DEF TypeOK, SavesAQuota, LoadPoll, Read, Unfinished, row, ledgers, Running,
     Terminal, Billing, Refunding, Settling
<1>2. SavesAQuota'
  BY TaskConstants DEF TypeOK, SavesAQuota, LoadPoll, Read, Unfinished, row, ledgers, Running,
     Terminal, Billing, Refunding, Settling
<1> QED
  BY <1>1, <1>2

LEMMA LoadFetchKeepsTypes ==
  ASSUME TypeOK, SavesAQuota, NEW w \in Workers, NEW t \in Tasks,
         LoadFetch(w, t)
  PROVE  TypeOK' /\ SavesAQuota'
<1>1. TypeOK'
  BY TaskConstants DEF TypeOK, SavesAQuota, LoadFetch, Read, row, ledgers, Running,
     Terminal, Billing, Refunding, Settling
<1>2. SavesAQuota'
  BY TaskConstants DEF TypeOK, SavesAQuota, LoadFetch, Read, row, ledgers, Running,
     Terminal, Billing, Refunding, Settling
<1> QED
  BY <1>1, <1>2

LEMMA AnswerKeepsTypes ==
  ASSUME TypeOK, SavesAQuota, NEW w \in Workers, NEW s \in Running \cup Terminal,
         Answer(w, s)
  PROVE  TypeOK' /\ SavesAQuota'
<1>1. TypeOK'
  BY TaskConstants DEF TypeOK, SavesAQuota, Answer, Answers, row, ledgers, Running, Terminal,
     Billing, Refunding, Settling
<1>2. SavesAQuota'
  BY TaskConstants DEF TypeOK, SavesAQuota, Answer, Answers, row, ledgers, Running, Terminal,
     Billing, Refunding, Settling
<1> QED
  BY <1>1, <1>2

LEMMA NoAnswerKeepsTypes ==
  ASSUME TypeOK, SavesAQuota, NEW w \in Workers,
         NoAnswer(w)
  PROVE  TypeOK' /\ SavesAQuota'
<1>1. TypeOK'
  BY TaskConstants DEF TypeOK, SavesAQuota, NoAnswer, row, ledgers, copyVars, Running, Terminal,
     Billing, Refunding, Settling
<1>2. SavesAQuota'
  BY TaskConstants DEF TypeOK, SavesAQuota, NoAnswer, row, ledgers, copyVars, Running, Terminal,
     Billing, Refunding, Settling
<1> QED
  BY <1>1, <1>2

LEMMA ChannelLostKeepsTypes ==
  ASSUME TypeOK, SavesAQuota, NEW w \in Workers,
         ChannelLost(w)
  PROVE  TypeOK' /\ SavesAQuota'
<1>1. TypeOK'
  BY TaskConstants DEF TypeOK, SavesAQuota, ChannelLost, ledgers, copyVars, Running, Terminal,
     Billing, Refunding, Settling
<1>2. SavesAQuota'
  BY TaskConstants DEF TypeOK, SavesAQuota, ChannelLost, ledgers, copyVars, Running, Terminal,
     Billing, Refunding, Settling
<1> QED
  BY <1>1, <1>2

LEMMA WriteKeepsTypes ==
  ASSUME TypeOK, SavesAQuota, NEW w \in Workers,
         Write(w)
  PROVE  TypeOK' /\ SavesAQuota'
<1>1. TypeOK'
  BY TaskConstants DEF TypeOK, SavesAQuota, Write, CasWins, AfterWrite, AfterLoss, row, ledgers,
     copyVars, Running, Terminal, Billing, Refunding, Settling
<1>2. SavesAQuota'
  BY TaskConstants DEF TypeOK, SavesAQuota, Write, CasWins, AfterWrite, AfterLoss, row, ledgers,
     copyVars, Running, Terminal, Billing, Refunding, Settling
<1> QED
  BY <1>1, <1>2

LEMMA RefundFundingKeepsTypes ==
  ASSUME TypeOK, SavesAQuota, NEW w \in Workers,
         RefundFunding(w)
  PROVE  TypeOK' /\ SavesAQuota'
<1>1. TypeOK'
  <2>1. on[w] \in Tasks /\ held[on[w]] - copy[w] \in Int /\ refunds[on[w]] + 1 \in Nat
    BY Amounts, QuotasAreNat
  <2> QED
    BY <2>1, TaskConstants DEF TypeOK, SavesAQuota, RefundFunding, Goto, row, copyVars, Running,
       Terminal, Billing, Refunding, Settling
<1>2. SavesAQuota'
  BY TaskConstants DEF TypeOK, SavesAQuota, RefundFunding, Goto, row, copyVars, Running, Terminal,
     Billing, Refunding, Settling
<1> QED
  BY <1>1, <1>2

LEMMA RefundTokenKeepsTypes ==
  ASSUME TypeOK, SavesAQuota, NEW w \in Workers,
         RefundToken(w)
  PROVE  TypeOK' /\ SavesAQuota'
<1>1. TypeOK'
  <2>1. on[w] \in Tasks /\ heldToken[on[w]] - copy[w] \in Int
    BY Amounts, QuotasAreNat
  <2> QED
    BY <2>1, TaskConstants DEF TypeOK, SavesAQuota, RefundToken, Goto, row, copyVars, Running,
       Terminal, Billing, Refunding, Settling
<1>2. SavesAQuota'
  BY TaskConstants DEF TypeOK, SavesAQuota, RefundToken, Goto, row, copyVars, Running, Terminal,
     Billing, Refunding, Settling
<1> QED
  BY <1>1, <1>2

LEMMA ClearQuotaKeepsTypes ==
  ASSUME TypeOK, SavesAQuota, NEW w \in Workers,
         ClearQuota(w)
  PROVE  TypeOK' /\ SavesAQuota'
<1>1. TypeOK'
  BY TaskConstants DEF TypeOK, SavesAQuota, ClearQuota, Goto, ledgers, copyVars, Running,
     Terminal, Billing, Refunding, Settling
<1>2. SavesAQuota'
  BY TaskConstants DEF TypeOK, SavesAQuota, ClearQuota, Goto, ledgers, copyVars, Running,
     Terminal, Billing, Refunding, Settling
<1> QED
  BY <1>1, <1>2

LEMMA SettleFundingKeepsTypes ==
  ASSUME TypeOK, SavesAQuota, NEW w \in Workers, NEW q \in Quotas,
         SettleFunding(w, q)
  PROVE  TypeOK' /\ SavesAQuota'
<1>1. TypeOK'
  <2>1. on[w] \in Tasks /\ held[on[w]] + q - copy[w] \in Int /\ q - copy[w] \in Int
    BY Amounts, QuotasAreNat
  <2> QED
    BY <2>1, TaskConstants DEF TypeOK, SavesAQuota, SettleFunding, Goto, row, copyVars, Running,
       Terminal, Billing, Refunding, Settling
<1>2. SavesAQuota'
  <2>1. copy[w] \in Int /\ q \in Int /\ copy[w] + (q - copy[w]) = q
    BY Amounts, QuotasAreNat
  <2> QED
    BY <2>1, TaskConstants DEF TypeOK, SavesAQuota, SettleFunding, Goto, row, copyVars, Running,
       Terminal, Billing, Refunding, Settling
<1> QED
  BY <1>1, <1>2

LEMMA SettleTokenKeepsTypes ==
  ASSUME TypeOK, SavesAQuota, NEW w \in Workers,
         SettleToken(w)
  PROVE  TypeOK' /\ SavesAQuota'
<1>1. TypeOK'
  BY TaskConstants DEF TypeOK, SavesAQuota, SettleToken, Goto, row, copyVars, Running, Terminal,
     Billing, Refunding, Settling
<1>2. SavesAQuota'
  BY TaskConstants DEF TypeOK, SavesAQuota, SettleToken, Goto, row, copyVars, Running, Terminal,
     Billing, Refunding, Settling
<1> QED
  BY <1>1, <1>2

LEMMA SaveQuotaKeepsTypes ==
  ASSUME TypeOK, SavesAQuota, NEW w \in Workers,
         SaveQuota(w)
  PROVE  TypeOK' /\ SavesAQuota'
<1>1. TypeOK'
  BY TaskConstants DEF TypeOK, SavesAQuota, SaveQuota, Goto, ledgers, copyVars, Running, Terminal,
     Billing, Refunding, Settling
<1>2. SavesAQuota'
  BY TaskConstants DEF TypeOK, SavesAQuota, SaveQuota, Goto, ledgers, copyVars, Running, Terminal,
     Billing, Refunding, Settling
<1> QED
  BY <1>1, <1>2

LEMMA CrashKeepsTypes ==
  ASSUME TypeOK, SavesAQuota, NEW w \in Workers,
         Crash(w)
  PROVE  TypeOK' /\ SavesAQuota'
<1>1. TypeOK'
  BY TaskConstants DEF TypeOK, SavesAQuota, Crash, Goto, row, ledgers, copyVars, Running, Terminal,
     Billing, Refunding, Settling
<1>2. SavesAQuota'
  BY TaskConstants DEF TypeOK, SavesAQuota, Crash, Goto, row, ledgers, copyVars, Running, Terminal,
     Billing, Refunding, Settling
<1> QED
  BY <1>1, <1>2

LEMMA StepKeepsTypes ==
  ASSUME TypeOK, SavesAQuota, [Next]_vars
  PROVE  TypeOK' /\ SavesAQuota'
<1>1. CASE UNCHANGED vars
  BY <1>1 DEF TypeOK, SavesAQuota, vars, row, ledgers, copyVars
<1>2. CASE \E t \in Tasks, pre \in Quotas, q \in Quotas : Submit(t, pre, q)
  BY <1>2, SubmitKeepsTypes
<1>3. CASE \E t \in Tasks, s \in Terminal : UpstreamEnds(t, s)
  BY <1>3, UpstreamEndsKeepsTypes
<1>4. CASE \E w \in Workers, t \in Tasks : LoadSweep(w, t)
  BY <1>4, LoadSweepKeepsTypes
<1>5. CASE \E w \in Workers, t \in Tasks : LoadPoll(w, t)
  BY <1>5, LoadPollKeepsTypes
<1>6. CASE \E w \in Workers, t \in Tasks : LoadFetch(w, t)
  BY <1>6, LoadFetchKeepsTypes
<1>7. CASE \E w \in Workers, s \in Running \cup Terminal : Answer(w, s)
  BY <1>7, AnswerKeepsTypes
<1>8. CASE \E w \in Workers : NoAnswer(w)
  BY <1>8, NoAnswerKeepsTypes
<1>9. CASE \E w \in Workers : ChannelLost(w)
  BY <1>9, ChannelLostKeepsTypes
<1>10. CASE \E w \in Workers : Write(w)
  BY <1>10, WriteKeepsTypes
<1>11. CASE \E w \in Workers : RefundFunding(w)
  BY <1>11, RefundFundingKeepsTypes
<1>12. CASE \E w \in Workers : RefundToken(w)
  BY <1>12, RefundTokenKeepsTypes
<1>13. CASE \E w \in Workers : ClearQuota(w)
  BY <1>13, ClearQuotaKeepsTypes
<1>14. CASE \E w \in Workers, q \in Quotas : SettleFunding(w, q)
  BY <1>14, SettleFundingKeepsTypes
<1>15. CASE \E w \in Workers : SettleToken(w)
  BY <1>15, SettleTokenKeepsTypes
<1>16. CASE \E w \in Workers : SaveQuota(w)
  BY <1>16, SaveQuotaKeepsTypes
<1>17. CASE \E w \in Workers : Crash(w)
  BY <1>17, CrashKeepsTypes
<1> QED
  BY <1>1, <1>2, <1>3, <1>4, <1>5, <1>6, <1>7, <1>8, <1>9, <1>10, <1>11, <1>12, <1>13, <1>14,
     <1>15, <1>16,
     <1>17 DEF Next, Work

\* Every variable keeps its type, user fetches included: a settlement saves only a
\* quota the adaptor gave (RecalculateTaskQuota, RefundTaskQuota).
THEOREM TypeCorrect == Spec => []TypeOK
<1>1. Init => TypeOK /\ SavesAQuota
  BY TaskConstants DEF Init, TypeOK, SavesAQuota, Running, Terminal
<1>2. (TypeOK /\ SavesAQuota) /\ [Next]_vars => (TypeOK /\ SavesAQuota)'
  BY StepKeepsTypes
<1> QED
  BY <1>1, <1>2, PTL DEF Spec

-----------------------------------------------------------------------------
(* Refunds: one lemma for each action.                                         *)

LEMMA SubmitKeepsRefunds ==
  ASSUME RefundInv, NEW t \in Tasks, NEW pre \in Quotas, NEW q \in Quotas,
         Submit(t, pre, q)
  PROVE  RefundInv'
<1>1. /\ TypeOK /\ SavesAQuota /\ ReadRunning /\ FollowsUpstream /\ OneBiller
      /\ BilledWhenEnded /\ FirstRefund /\ GuardedRefunds
  BY DEF RefundInv
<1>2. TypeOK' /\ SavesAQuota'
  BY <1>1, SubmitKeepsTypes
<1>3. ReadRunning'
  BY <1>1, TaskConstants, TaskSets DEF TypeOK, ReadRunning, Submit, copyVars, Running, Terminal,
     Billing, Refunding, Settling
<1>4. OneBiller'
  BY <1>1, TaskConstants, TaskSets DEF TypeOK, ReadRunning, OneBiller, BilledWhenEnded, Quiet,
     Submit, copyVars, Running, Terminal, Billing, Refunding, Settling
<1>5. BilledWhenEnded'
  BY <1>1, TaskConstants, TaskSets DEF TypeOK, ReadRunning, BilledWhenEnded, Quiet, Submit,
     copyVars, Running, Terminal, Billing, Refunding, Settling
<1>6. FirstRefund'
  BY <1>1, TaskConstants, TaskSets DEF TypeOK, ReadRunning, OneBiller, BilledWhenEnded,
     FirstRefund, Quiet, Submit, copyVars, Running, Terminal, Billing, Refunding, Settling
<1>7. GuardedRefunds'
  BY <1>1, TaskConstants, TaskSets DEF TypeOK, FirstRefund, GuardedRefunds, Submit, copyVars,
     Running, Terminal, Billing, Refunding, Settling
<1>8. FollowsUpstream'
  BY <1>1, TaskConstants, TaskSets DEF TypeOK, ReadRunning, FollowsUpstream, Submit, copyVars,
     Running, Terminal, Billing, Refunding, Settling
<1> QED
  BY <1>2, <1>3, <1>4, <1>5, <1>6, <1>7, <1>8 DEF RefundInv

LEMMA UpstreamEndsKeepsRefunds ==
  ASSUME RefundInv, NEW t \in Tasks, NEW s \in Terminal,
         UpstreamEnds(t, s)
  PROVE  RefundInv'
<1>1. /\ TypeOK /\ SavesAQuota /\ ReadRunning /\ FollowsUpstream /\ OneBiller
      /\ BilledWhenEnded /\ FirstRefund /\ GuardedRefunds
  BY DEF RefundInv
<1>2. TypeOK' /\ SavesAQuota'
  BY <1>1, UpstreamEndsKeepsTypes
<1>3. ReadRunning'
  BY <1>1, TaskConstants, TaskSets DEF TypeOK, ReadRunning, UpstreamEnds, row, ledgers,
     copyVars, Running, Terminal, Billing, Refunding, Settling
<1>4. OneBiller'
  BY <1>1, TaskConstants, TaskSets DEF TypeOK, ReadRunning, OneBiller, BilledWhenEnded, Quiet,
     UpstreamEnds, row, ledgers, copyVars, Running, Terminal, Billing, Refunding, Settling
<1>5. BilledWhenEnded'
  BY <1>1, TaskConstants, TaskSets DEF TypeOK, ReadRunning, BilledWhenEnded, Quiet,
     UpstreamEnds, row, ledgers, copyVars, Running, Terminal, Billing, Refunding, Settling
<1>6. FirstRefund'
  BY <1>1, TaskConstants, TaskSets DEF TypeOK, ReadRunning, OneBiller, BilledWhenEnded,
     FirstRefund, Quiet, UpstreamEnds, row, ledgers, copyVars, Running, Terminal, Billing,
     Refunding, Settling
<1>7. GuardedRefunds'
  BY <1>1, TaskConstants, TaskSets DEF TypeOK, FirstRefund, GuardedRefunds, UpstreamEnds, row,
     ledgers, copyVars, Running, Terminal, Billing, Refunding, Settling
<1>8. FollowsUpstream'
  BY <1>1, TaskConstants, TaskSets DEF TypeOK, ReadRunning, FollowsUpstream, UpstreamEnds, row,
     ledgers, copyVars, Running, Terminal, Billing, Refunding, Settling
<1> QED
  BY <1>2, <1>3, <1>4, <1>5, <1>6, <1>7, <1>8 DEF RefundInv

LEMMA LoadSweepKeepsRefunds ==
  ASSUME RefundInv, NEW w \in Workers, NEW t \in Tasks,
         LoadSweep(w, t)
  PROVE  RefundInv'
<1>1. /\ TypeOK /\ SavesAQuota /\ ReadRunning /\ FollowsUpstream /\ OneBiller
      /\ BilledWhenEnded /\ FirstRefund /\ GuardedRefunds
  BY DEF RefundInv
<1>2. TypeOK' /\ SavesAQuota'
  BY <1>1, LoadSweepKeepsTypes
<1>3. ReadRunning'
  BY <1>1, TaskConstants, TaskSets DEF TypeOK, ReadRunning, LoadSweep, Read, Unfinished, row,
     ledgers, Running, Terminal, Billing, Refunding, Settling
<1>4. OneBiller'
  BY <1>1, TaskConstants, TaskSets DEF TypeOK, ReadRunning, OneBiller, BilledWhenEnded, Quiet,
     LoadSweep, Read, Unfinished, row, ledgers, Running, Terminal, Billing, Refunding, Settling
<1>5. BilledWhenEnded'
  BY <1>1, TaskConstants, TaskSets DEF TypeOK, ReadRunning, BilledWhenEnded, Quiet, LoadSweep,
     Read, Unfinished, row, ledgers, Running, Terminal, Billing, Refunding, Settling
<1>6. FirstRefund'
  BY <1>1, TaskConstants, TaskSets DEF TypeOK, ReadRunning, OneBiller, BilledWhenEnded,
     FirstRefund, Quiet, LoadSweep, Read, Unfinished, row, ledgers, Running, Terminal, Billing,
     Refunding, Settling
<1>7. GuardedRefunds'
  BY <1>1, TaskConstants, TaskSets DEF TypeOK, FirstRefund, GuardedRefunds, LoadSweep, Read,
     Unfinished, row, ledgers, Running, Terminal, Billing, Refunding, Settling
<1>8. FollowsUpstream'
  BY <1>1, TaskConstants, TaskSets DEF TypeOK, ReadRunning, FollowsUpstream, LoadSweep, Read,
     Unfinished, row, ledgers, Running, Terminal, Billing, Refunding, Settling
<1> QED
  BY <1>2, <1>3, <1>4, <1>5, <1>6, <1>7, <1>8 DEF RefundInv

LEMMA LoadPollKeepsRefunds ==
  ASSUME RefundInv, NEW w \in Workers, NEW t \in Tasks,
         LoadPoll(w, t)
  PROVE  RefundInv'
<1>1. /\ TypeOK /\ SavesAQuota /\ ReadRunning /\ FollowsUpstream /\ OneBiller
      /\ BilledWhenEnded /\ FirstRefund /\ GuardedRefunds
  BY DEF RefundInv
<1>2. TypeOK' /\ SavesAQuota'
  BY <1>1, LoadPollKeepsTypes
<1>3. ReadRunning'
  BY <1>1, TaskConstants, TaskSets DEF TypeOK, ReadRunning, LoadPoll, Read, Unfinished, row,
     ledgers, Running, Terminal, Billing, Refunding, Settling
<1>4. OneBiller'
  BY <1>1, TaskConstants, TaskSets DEF TypeOK, ReadRunning, OneBiller, BilledWhenEnded, Quiet,
     LoadPoll, Read, Unfinished, row, ledgers, Running, Terminal, Billing, Refunding, Settling
<1>5. BilledWhenEnded'
  BY <1>1, TaskConstants, TaskSets DEF TypeOK, ReadRunning, BilledWhenEnded, Quiet, LoadPoll,
     Read, Unfinished, row, ledgers, Running, Terminal, Billing, Refunding, Settling
<1>6. FirstRefund'
  BY <1>1, TaskConstants, TaskSets DEF TypeOK, ReadRunning, OneBiller, BilledWhenEnded,
     FirstRefund, Quiet, LoadPoll, Read, Unfinished, row, ledgers, Running, Terminal, Billing,
     Refunding, Settling
<1>7. GuardedRefunds'
  BY <1>1, TaskConstants, TaskSets DEF TypeOK, FirstRefund, GuardedRefunds, LoadPoll, Read,
     Unfinished, row, ledgers, Running, Terminal, Billing, Refunding, Settling
<1>8. FollowsUpstream'
  BY <1>1, TaskConstants, TaskSets DEF TypeOK, ReadRunning, FollowsUpstream, LoadPoll, Read,
     Unfinished, row, ledgers, Running, Terminal, Billing, Refunding, Settling
<1> QED
  BY <1>2, <1>3, <1>4, <1>5, <1>6, <1>7, <1>8 DEF RefundInv

LEMMA LoadFetchKeepsRefunds ==
  ASSUME RefundInv, NEW w \in Workers, NEW t \in Tasks,
         LoadFetch(w, t)
  PROVE  RefundInv'
<1>1. /\ TypeOK /\ SavesAQuota /\ ReadRunning /\ FollowsUpstream /\ OneBiller
      /\ BilledWhenEnded /\ FirstRefund /\ GuardedRefunds
  BY DEF RefundInv
<1>2. TypeOK' /\ SavesAQuota'
  BY <1>1, LoadFetchKeepsTypes
<1>3. ReadRunning'
  BY <1>1, TaskConstants, TaskSets DEF TypeOK, ReadRunning, FollowsUpstream, LoadFetch, Read,
     row, ledgers, Running, Terminal, Billing, Refunding, Settling
<1>4. OneBiller'
  BY <1>1, TaskConstants, TaskSets DEF TypeOK, ReadRunning, OneBiller, BilledWhenEnded, Quiet,
     LoadFetch, Read, row, ledgers, Running, Terminal, Billing, Refunding, Settling
<1>5. BilledWhenEnded'
  BY <1>1, TaskConstants, TaskSets DEF TypeOK, ReadRunning, BilledWhenEnded, Quiet, LoadFetch,
     Read, Unfinished, row, ledgers, Running, Terminal, Billing, Refunding, Settling
<1>6. FirstRefund'
  BY <1>1, TaskConstants, TaskSets DEF TypeOK, ReadRunning, OneBiller, BilledWhenEnded,
     FirstRefund, Quiet, LoadFetch, Read, row, ledgers, Running, Terminal, Billing, Refunding,
     Settling
<1>7. GuardedRefunds'
  BY <1>1, TaskConstants, TaskSets DEF TypeOK, FirstRefund, GuardedRefunds, LoadFetch, Read,
     row, ledgers, Running, Terminal, Billing, Refunding, Settling
<1>8. FollowsUpstream'
  BY <1>1, TaskConstants, TaskSets DEF TypeOK, ReadRunning, FollowsUpstream, LoadFetch, Read,
     row, ledgers, Running, Terminal, Billing, Refunding, Settling
<1> QED
  BY <1>2, <1>3, <1>4, <1>5, <1>6, <1>7, <1>8 DEF RefundInv

LEMMA AnswerKeepsRefunds ==
  ASSUME RefundInv, NEW w \in Workers, NEW s \in Running \cup Terminal,
         Answer(w, s)
  PROVE  RefundInv'
<1>1. /\ TypeOK /\ SavesAQuota /\ ReadRunning /\ FollowsUpstream /\ OneBiller
      /\ BilledWhenEnded /\ FirstRefund /\ GuardedRefunds
  BY DEF RefundInv
<1>2. TypeOK' /\ SavesAQuota'
  BY <1>1, AnswerKeepsTypes
<1>3. ReadRunning'
  BY <1>1, TaskConstants, TaskSets DEF TypeOK, ReadRunning, FollowsUpstream, Answer, Answers,
     NothingNew, row, ledgers, Running, Terminal, Billing, Refunding, Settling
<1>4. OneBiller'
  BY <1>1, TaskConstants, TaskSets DEF TypeOK, ReadRunning, OneBiller, BilledWhenEnded, Quiet,
     Answer, Answers, NothingNew, row, ledgers, Running, Terminal, Billing, Refunding, Settling
<1>5. BilledWhenEnded'
  BY <1>1, TaskConstants, TaskSets DEF TypeOK, ReadRunning, BilledWhenEnded, Quiet, Answer,
     Answers, NothingNew, row, ledgers, Running, Terminal, Billing, Refunding, Settling
<1>6. FirstRefund'
  BY <1>1, TaskConstants, TaskSets DEF TypeOK, ReadRunning, OneBiller, BilledWhenEnded,
     FirstRefund, Quiet, Answer, Answers, NothingNew, row, ledgers, Running, Terminal, Billing,
     Refunding, Settling
<1>7. GuardedRefunds'
  BY <1>1, TaskConstants, TaskSets DEF TypeOK, FirstRefund, GuardedRefunds, Answer, Answers,
     NothingNew, row, ledgers, Running, Terminal, Billing, Refunding, Settling
<1>8. FollowsUpstream'
  BY <1>1, TaskConstants, TaskSets DEF TypeOK, ReadRunning, FollowsUpstream, Answer, Answers,
     NothingNew, row, ledgers, Running, Terminal, Billing, Refunding, Settling
<1> QED
  BY <1>2, <1>3, <1>4, <1>5, <1>6, <1>7, <1>8 DEF RefundInv

LEMMA NoAnswerKeepsRefunds ==
  ASSUME RefundInv, NEW w \in Workers,
         NoAnswer(w)
  PROVE  RefundInv'
<1>1. /\ TypeOK /\ SavesAQuota /\ ReadRunning /\ FollowsUpstream /\ OneBiller
      /\ BilledWhenEnded /\ FirstRefund /\ GuardedRefunds
  BY DEF RefundInv
<1>2. TypeOK' /\ SavesAQuota'
  BY <1>1, NoAnswerKeepsTypes
<1>3. ReadRunning'
  BY <1>1, TaskConstants, TaskSets DEF TypeOK, ReadRunning, NoAnswer, row, ledgers, copyVars,
     Running, Terminal, Billing, Refunding, Settling
<1>4. OneBiller'
  BY <1>1, TaskConstants, TaskSets DEF TypeOK, ReadRunning, OneBiller, BilledWhenEnded, Quiet,
     NoAnswer, row, ledgers, copyVars, Running, Terminal, Billing, Refunding, Settling
<1>5. BilledWhenEnded'
  BY <1>1, TaskConstants, TaskSets DEF TypeOK, ReadRunning, BilledWhenEnded, Quiet, NoAnswer,
     row, ledgers, copyVars, Running, Terminal, Billing, Refunding, Settling
<1>6. FirstRefund'
  BY <1>1, TaskConstants, TaskSets DEF TypeOK, ReadRunning, OneBiller, BilledWhenEnded,
     FirstRefund, Quiet, NoAnswer, row, ledgers, copyVars, Running, Terminal, Billing,
     Refunding, Settling
<1>7. GuardedRefunds'
  BY <1>1, TaskConstants, TaskSets DEF TypeOK, FirstRefund, GuardedRefunds, NoAnswer, row,
     ledgers, copyVars, Running, Terminal, Billing, Refunding, Settling
<1>8. FollowsUpstream'
  BY <1>1, TaskConstants, TaskSets DEF TypeOK, ReadRunning, FollowsUpstream, NoAnswer, row,
     ledgers, copyVars, Running, Terminal, Billing, Refunding, Settling
<1> QED
  BY <1>2, <1>3, <1>4, <1>5, <1>6, <1>7, <1>8 DEF RefundInv

LEMMA ChannelLostKeepsRefunds ==
  ASSUME RefundInv, NEW w \in Workers,
         ChannelLost(w)
  PROVE  RefundInv'
<1>1. /\ TypeOK /\ SavesAQuota /\ ReadRunning /\ FollowsUpstream /\ OneBiller
      /\ BilledWhenEnded /\ FirstRefund /\ GuardedRefunds
  BY DEF RefundInv
<1>2. TypeOK' /\ SavesAQuota'
  BY <1>1, ChannelLostKeepsTypes
<1>3. ReadRunning'
  BY <1>1, TaskConstants, TaskSets DEF TypeOK, ReadRunning, ChannelLost, ledgers, copyVars,
     Running, Terminal, Billing, Refunding, Settling
<1>4. OneBiller'
  BY <1>1, TaskConstants, TaskSets DEF TypeOK, ReadRunning, OneBiller, BilledWhenEnded, Quiet,
     ChannelLost, ledgers, copyVars, Running, Terminal, Billing, Refunding, Settling
<1>5. BilledWhenEnded'
  BY <1>1, TaskConstants, TaskSets DEF TypeOK, ReadRunning, BilledWhenEnded, Quiet, ChannelLost,
     ledgers, copyVars, Running, Terminal, Billing, Refunding, Settling
<1>6. FirstRefund'
  BY <1>1, TaskConstants, TaskSets DEF TypeOK, ReadRunning, OneBiller, BilledWhenEnded,
     FirstRefund, Quiet, ChannelLost, ledgers, copyVars, Running, Terminal, Billing, Refunding,
     Settling
<1>7. GuardedRefunds'
  BY <1>1, TaskConstants, TaskSets DEF TypeOK, FirstRefund, GuardedRefunds, ChannelLost,
     ledgers, copyVars, Running, Terminal, Billing, Refunding, Settling
<1>8. FollowsUpstream'
  BY <1>1, TaskConstants, TaskSets DEF TypeOK, ReadRunning, FollowsUpstream, ChannelLost,
     ledgers, copyVars, Running, Terminal, Billing, Refunding, Settling
<1> QED
  BY <1>2, <1>3, <1>4, <1>5, <1>6, <1>7, <1>8 DEF RefundInv

LEMMA WriteKeepsRefunds ==
  ASSUME RefundInv, NEW w \in Workers,
         Write(w)
  PROVE  RefundInv'
<1>1. /\ TypeOK /\ SavesAQuota /\ ReadRunning /\ FollowsUpstream /\ OneBiller
      /\ BilledWhenEnded /\ FirstRefund /\ GuardedRefunds
  BY DEF RefundInv
<1>2. TypeOK' /\ SavesAQuota'
  BY <1>1, WriteKeepsTypes
<1>3. ReadRunning'
  BY <1>1, TaskConstants, TaskSets DEF TypeOK, ReadRunning, Write, CasWins, AfterWrite,
     AfterLoss, row, ledgers, copyVars, Running, Terminal, Billing, Refunding, Settling
<1>4. OneBiller'
  BY <1>1, TaskConstants, TaskSets DEF TypeOK, ReadRunning, OneBiller, BilledWhenEnded, Quiet,
     Write, CasWins, AfterWrite, AfterLoss, row, ledgers, copyVars, Running, Terminal, Billing,
     Refunding, Settling
<1>5. BilledWhenEnded'
  BY <1>1, TaskConstants, TaskSets DEF TypeOK, ReadRunning, BilledWhenEnded, Quiet, Write,
     CasWins, AfterWrite, AfterLoss, row, ledgers, copyVars, Running, Terminal, Billing,
     Refunding, Settling
<1>6. FirstRefund'
  BY <1>1, TaskConstants, TaskSets DEF TypeOK, ReadRunning, OneBiller, BilledWhenEnded,
     FirstRefund, Quiet, Write, CasWins, AfterWrite, AfterLoss, row, ledgers, copyVars, Running,
     Terminal, Billing, Refunding, Settling
<1>7. GuardedRefunds'
  BY <1>1, TaskConstants, TaskSets DEF TypeOK, FirstRefund, GuardedRefunds, Write, CasWins,
     AfterWrite, AfterLoss, row, ledgers, copyVars, Running, Terminal, Billing, Refunding,
     Settling
<1>8. FollowsUpstream'
  BY <1>1, TaskConstants, TaskSets DEF TypeOK, ReadRunning, FollowsUpstream, Write, CasWins,
     AfterWrite, AfterLoss, row, ledgers, copyVars, Running, Terminal, Billing, Refunding,
     Settling
<1> QED
  BY <1>2, <1>3, <1>4, <1>5, <1>6, <1>7, <1>8 DEF RefundInv

LEMMA RefundFundingKeepsRefunds ==
  ASSUME RefundInv, NEW w \in Workers,
         RefundFunding(w)
  PROVE  RefundInv'
<1>1. /\ TypeOK /\ SavesAQuota /\ ReadRunning /\ FollowsUpstream /\ OneBiller
      /\ BilledWhenEnded /\ FirstRefund /\ GuardedRefunds
  BY DEF RefundInv
<1>2. TypeOK' /\ SavesAQuota'
  BY <1>1, RefundFundingKeepsTypes
<1>3. ReadRunning'
  BY <1>1, TaskConstants, TaskSets DEF TypeOK, ReadRunning, RefundFunding, Goto, row, copyVars,
     Running, Terminal, Billing, Refunding, Settling
<1>4. OneBiller'
  BY <1>1, TaskConstants, TaskSets DEF TypeOK, ReadRunning, OneBiller, BilledWhenEnded, Quiet,
     RefundFunding, Goto, row, copyVars, Running, Terminal, Billing, Refunding, Settling
<1>5. BilledWhenEnded'
  BY <1>1, TaskConstants, TaskSets DEF TypeOK, ReadRunning, BilledWhenEnded, Quiet,
     RefundFunding, Goto, row, copyVars, Running, Terminal, Billing, Refunding, Settling
<1>6. FirstRefund'
  BY <1>1, TaskConstants, TaskSets DEF TypeOK, ReadRunning, OneBiller, BilledWhenEnded,
     FirstRefund, Quiet, RefundFunding, Goto, row, copyVars, Running, Terminal, Billing,
     Refunding, Settling
<1>7. GuardedRefunds'
  BY <1>1, TaskConstants, TaskSets DEF TypeOK, FirstRefund, GuardedRefunds, RefundFunding, Goto,
     row, copyVars, Running, Terminal, Billing, Refunding, Settling
<1>8. FollowsUpstream'
  BY <1>1, TaskConstants, TaskSets DEF TypeOK, ReadRunning, FollowsUpstream, RefundFunding,
     Goto, row, copyVars, Running, Terminal, Billing, Refunding, Settling
<1> QED
  BY <1>2, <1>3, <1>4, <1>5, <1>6, <1>7, <1>8 DEF RefundInv

LEMMA RefundTokenKeepsRefunds ==
  ASSUME RefundInv, NEW w \in Workers,
         RefundToken(w)
  PROVE  RefundInv'
<1>1. /\ TypeOK /\ SavesAQuota /\ ReadRunning /\ FollowsUpstream /\ OneBiller
      /\ BilledWhenEnded /\ FirstRefund /\ GuardedRefunds
  BY DEF RefundInv
<1>2. TypeOK' /\ SavesAQuota'
  BY <1>1, RefundTokenKeepsTypes
<1>3. ReadRunning'
  BY <1>1, TaskConstants, TaskSets DEF TypeOK, ReadRunning, RefundToken, Goto, row, copyVars,
     Running, Terminal, Billing, Refunding, Settling
<1>4. OneBiller'
  BY <1>1, TaskConstants, TaskSets DEF TypeOK, ReadRunning, OneBiller, BilledWhenEnded, Quiet,
     RefundToken, Goto, row, copyVars, Running, Terminal, Billing, Refunding, Settling
<1>5. BilledWhenEnded'
  BY <1>1, TaskConstants, TaskSets DEF TypeOK, ReadRunning, BilledWhenEnded, Quiet, RefundToken,
     Goto, row, copyVars, Running, Terminal, Billing, Refunding, Settling
<1>6. FirstRefund'
  BY <1>1, TaskConstants, TaskSets DEF TypeOK, ReadRunning, OneBiller, BilledWhenEnded,
     FirstRefund, Quiet, RefundToken, Goto, row, copyVars, Running, Terminal, Billing,
     Refunding, Settling
<1>7. GuardedRefunds'
  BY <1>1, TaskConstants, TaskSets DEF TypeOK, FirstRefund, GuardedRefunds, RefundToken, Goto,
     row, copyVars, Running, Terminal, Billing, Refunding, Settling
<1>8. FollowsUpstream'
  BY <1>1, TaskConstants, TaskSets DEF TypeOK, ReadRunning, FollowsUpstream, RefundToken, Goto,
     row, copyVars, Running, Terminal, Billing, Refunding, Settling
<1> QED
  BY <1>2, <1>3, <1>4, <1>5, <1>6, <1>7, <1>8 DEF RefundInv

LEMMA ClearQuotaKeepsRefunds ==
  ASSUME RefundInv, NEW w \in Workers,
         ClearQuota(w)
  PROVE  RefundInv'
<1>1. /\ TypeOK /\ SavesAQuota /\ ReadRunning /\ FollowsUpstream /\ OneBiller
      /\ BilledWhenEnded /\ FirstRefund /\ GuardedRefunds
  BY DEF RefundInv
<1>2. TypeOK' /\ SavesAQuota'
  BY <1>1, ClearQuotaKeepsTypes
<1>3. ReadRunning'
  BY <1>1, TaskConstants, TaskSets DEF TypeOK, ReadRunning, ClearQuota, Goto, ledgers, copyVars,
     Running, Terminal, Billing, Refunding, Settling
<1>4. OneBiller'
  BY <1>1, TaskConstants, TaskSets DEF TypeOK, ReadRunning, OneBiller, BilledWhenEnded, Quiet,
     ClearQuota, Goto, ledgers, copyVars, Running, Terminal, Billing, Refunding, Settling
<1>5. BilledWhenEnded'
  BY <1>1, TaskConstants, TaskSets DEF TypeOK, ReadRunning, BilledWhenEnded, Quiet, ClearQuota,
     Goto, ledgers, copyVars, Running, Terminal, Billing, Refunding, Settling
<1>6. FirstRefund'
  BY <1>1, TaskConstants, TaskSets DEF TypeOK, ReadRunning, OneBiller, BilledWhenEnded,
     FirstRefund, Quiet, ClearQuota, Goto, ledgers, copyVars, Running, Terminal, Billing,
     Refunding, Settling
<1>7. GuardedRefunds'
  BY <1>1, TaskConstants, TaskSets DEF TypeOK, FirstRefund, GuardedRefunds, ClearQuota, Goto,
     ledgers, copyVars, Running, Terminal, Billing, Refunding, Settling
<1>8. FollowsUpstream'
  BY <1>1, TaskConstants, TaskSets DEF TypeOK, ReadRunning, FollowsUpstream, ClearQuota, Goto,
     ledgers, copyVars, Running, Terminal, Billing, Refunding, Settling
<1> QED
  BY <1>2, <1>3, <1>4, <1>5, <1>6, <1>7, <1>8 DEF RefundInv

LEMMA SettleFundingKeepsRefunds ==
  ASSUME RefundInv, NEW w \in Workers, NEW q \in Quotas,
         SettleFunding(w, q)
  PROVE  RefundInv'
<1>1. /\ TypeOK /\ SavesAQuota /\ ReadRunning /\ FollowsUpstream /\ OneBiller
      /\ BilledWhenEnded /\ FirstRefund /\ GuardedRefunds
  BY DEF RefundInv
<1>2. TypeOK' /\ SavesAQuota'
  BY <1>1, SettleFundingKeepsTypes
<1>3. ReadRunning'
  BY <1>1, TaskConstants, TaskSets DEF TypeOK, ReadRunning, SettleFunding, Goto, row, copyVars,
     Running, Terminal, Billing, Refunding, Settling
<1>4. OneBiller'
  BY <1>1, TaskConstants, TaskSets DEF TypeOK, ReadRunning, OneBiller, BilledWhenEnded, Quiet,
     SettleFunding, Goto, row, copyVars, Running, Terminal, Billing, Refunding, Settling
<1>5. BilledWhenEnded'
  BY <1>1, TaskConstants, TaskSets DEF TypeOK, ReadRunning, BilledWhenEnded, Quiet,
     SettleFunding, Goto, row, copyVars, Running, Terminal, Billing, Refunding, Settling
<1>6. FirstRefund'
  BY <1>1, TaskConstants, TaskSets DEF TypeOK, ReadRunning, OneBiller, BilledWhenEnded,
     FirstRefund, Quiet, SettleFunding, Goto, row, copyVars, Running, Terminal, Billing,
     Refunding, Settling
<1>7. GuardedRefunds'
  BY <1>1, TaskConstants, TaskSets DEF TypeOK, FirstRefund, GuardedRefunds, SettleFunding, Goto,
     row, copyVars, Running, Terminal, Billing, Refunding, Settling
<1>8. FollowsUpstream'
  BY <1>1, TaskConstants, TaskSets DEF TypeOK, ReadRunning, FollowsUpstream, SettleFunding,
     Goto, row, copyVars, Running, Terminal, Billing, Refunding, Settling
<1> QED
  BY <1>2, <1>3, <1>4, <1>5, <1>6, <1>7, <1>8 DEF RefundInv

LEMMA SettleTokenKeepsRefunds ==
  ASSUME RefundInv, NEW w \in Workers,
         SettleToken(w)
  PROVE  RefundInv'
<1>1. /\ TypeOK /\ SavesAQuota /\ ReadRunning /\ FollowsUpstream /\ OneBiller
      /\ BilledWhenEnded /\ FirstRefund /\ GuardedRefunds
  BY DEF RefundInv
<1>2. TypeOK' /\ SavesAQuota'
  BY <1>1, SettleTokenKeepsTypes
<1>3. ReadRunning'
  BY <1>1, TaskConstants, TaskSets DEF TypeOK, ReadRunning, SettleToken, Goto, row, copyVars,
     Running, Terminal, Billing, Refunding, Settling
<1>4. OneBiller'
  BY <1>1, TaskConstants, TaskSets DEF TypeOK, ReadRunning, OneBiller, BilledWhenEnded, Quiet,
     SettleToken, Goto, row, copyVars, Running, Terminal, Billing, Refunding, Settling
<1>5. BilledWhenEnded'
  BY <1>1, TaskConstants, TaskSets DEF TypeOK, ReadRunning, BilledWhenEnded, Quiet, SettleToken,
     Goto, row, copyVars, Running, Terminal, Billing, Refunding, Settling
<1>6. FirstRefund'
  BY <1>1, TaskConstants, TaskSets DEF TypeOK, ReadRunning, OneBiller, BilledWhenEnded,
     FirstRefund, Quiet, SettleToken, Goto, row, copyVars, Running, Terminal, Billing,
     Refunding, Settling
<1>7. GuardedRefunds'
  BY <1>1, TaskConstants, TaskSets DEF TypeOK, FirstRefund, GuardedRefunds, SettleToken, Goto,
     row, copyVars, Running, Terminal, Billing, Refunding, Settling
<1>8. FollowsUpstream'
  BY <1>1, TaskConstants, TaskSets DEF TypeOK, ReadRunning, FollowsUpstream, SettleToken, Goto,
     row, copyVars, Running, Terminal, Billing, Refunding, Settling
<1> QED
  BY <1>2, <1>3, <1>4, <1>5, <1>6, <1>7, <1>8 DEF RefundInv

LEMMA SaveQuotaKeepsRefunds ==
  ASSUME RefundInv, NEW w \in Workers,
         SaveQuota(w)
  PROVE  RefundInv'
<1>1. /\ TypeOK /\ SavesAQuota /\ ReadRunning /\ FollowsUpstream /\ OneBiller
      /\ BilledWhenEnded /\ FirstRefund /\ GuardedRefunds
  BY DEF RefundInv
<1>2. TypeOK' /\ SavesAQuota'
  BY <1>1, SaveQuotaKeepsTypes
<1>3. ReadRunning'
  BY <1>1, TaskConstants, TaskSets DEF TypeOK, ReadRunning, SaveQuota, Goto, ledgers, copyVars,
     Running, Terminal, Billing, Refunding, Settling
<1>4. OneBiller'
  BY <1>1, TaskConstants, TaskSets DEF TypeOK, ReadRunning, OneBiller, BilledWhenEnded, Quiet,
     SaveQuota, Goto, ledgers, copyVars, Running, Terminal, Billing, Refunding, Settling
<1>5. BilledWhenEnded'
  BY <1>1, TaskConstants, TaskSets DEF TypeOK, ReadRunning, BilledWhenEnded, Quiet, SaveQuota,
     Goto, ledgers, copyVars, Running, Terminal, Billing, Refunding, Settling
<1>6. FirstRefund'
  BY <1>1, TaskConstants, TaskSets DEF TypeOK, ReadRunning, OneBiller, BilledWhenEnded,
     FirstRefund, Quiet, SaveQuota, Goto, ledgers, copyVars, Running, Terminal, Billing,
     Refunding, Settling
<1>7. GuardedRefunds'
  BY <1>1, TaskConstants, TaskSets DEF TypeOK, FirstRefund, GuardedRefunds, SaveQuota, Goto,
     ledgers, copyVars, Running, Terminal, Billing, Refunding, Settling
<1>8. FollowsUpstream'
  BY <1>1, TaskConstants, TaskSets DEF TypeOK, ReadRunning, FollowsUpstream, SaveQuota, Goto,
     ledgers, copyVars, Running, Terminal, Billing, Refunding, Settling
<1> QED
  BY <1>2, <1>3, <1>4, <1>5, <1>6, <1>7, <1>8 DEF RefundInv

LEMMA CrashKeepsRefunds ==
  ASSUME RefundInv, NEW w \in Workers,
         Crash(w)
  PROVE  RefundInv'
<1>1. /\ TypeOK /\ SavesAQuota /\ ReadRunning /\ FollowsUpstream /\ OneBiller
      /\ BilledWhenEnded /\ FirstRefund /\ GuardedRefunds
  BY DEF RefundInv
<1>2. TypeOK' /\ SavesAQuota'
  BY <1>1, CrashKeepsTypes
<1>3. ReadRunning'
  BY <1>1, TaskConstants, TaskSets DEF TypeOK, ReadRunning, Crash, Goto, row, ledgers, copyVars,
     Running, Terminal, Billing, Refunding, Settling
<1>4. OneBiller'
  BY <1>1, TaskConstants, TaskSets DEF TypeOK, ReadRunning, OneBiller, BilledWhenEnded, Quiet,
     Crash, Goto, row, ledgers, copyVars, Running, Terminal, Billing, Refunding, Settling
<1>5. BilledWhenEnded'
  BY <1>1, TaskConstants, TaskSets DEF TypeOK, ReadRunning, BilledWhenEnded, Quiet, Crash, Goto,
     row, ledgers, copyVars, Running, Terminal, Billing, Refunding, Settling
<1>6. FirstRefund'
  BY <1>1, TaskConstants, TaskSets DEF TypeOK, ReadRunning, OneBiller, BilledWhenEnded,
     FirstRefund, Quiet, Crash, Goto, row, ledgers, copyVars, Running, Terminal, Billing,
     Refunding, Settling
<1>7. GuardedRefunds'
  BY <1>1, TaskConstants, TaskSets DEF TypeOK, FirstRefund, GuardedRefunds, Crash, Goto, row,
     ledgers, copyVars, Running, Terminal, Billing, Refunding, Settling
<1>8. FollowsUpstream'
  BY <1>1, TaskConstants, TaskSets DEF TypeOK, ReadRunning, FollowsUpstream, Crash, Goto, row,
     ledgers, copyVars, Running, Terminal, Billing, Refunding, Settling
<1> QED
  BY <1>2, <1>3, <1>4, <1>5, <1>6, <1>7, <1>8 DEF RefundInv

LEMMA StepKeepsRefunds ==
  ASSUME RefundInv, [Next]_vars
  PROVE  RefundInv'
<1>1. CASE UNCHANGED vars
  BY <1>1 DEF RefundInv, TypeOK, SavesAQuota, ReadRunning, FollowsUpstream, OneBiller,
     BilledWhenEnded, FirstRefund, GuardedRefunds, Quiet, vars, row, ledgers, copyVars
<1>2. CASE \E t \in Tasks, pre \in Quotas, q \in Quotas : Submit(t, pre, q)
  BY <1>2, SubmitKeepsRefunds
<1>3. CASE \E t \in Tasks, s \in Terminal : UpstreamEnds(t, s)
  BY <1>3, UpstreamEndsKeepsRefunds
<1>4. CASE \E w \in Workers, t \in Tasks : LoadSweep(w, t)
  BY <1>4, LoadSweepKeepsRefunds
<1>5. CASE \E w \in Workers, t \in Tasks : LoadPoll(w, t)
  BY <1>5, LoadPollKeepsRefunds
<1>6. CASE \E w \in Workers, t \in Tasks : LoadFetch(w, t)
  BY <1>6, LoadFetchKeepsRefunds
<1>7. CASE \E w \in Workers, s \in Running \cup Terminal : Answer(w, s)
  BY <1>7, AnswerKeepsRefunds
<1>8. CASE \E w \in Workers : NoAnswer(w)
  BY <1>8, NoAnswerKeepsRefunds
<1>9. CASE \E w \in Workers : ChannelLost(w)
  BY <1>9, ChannelLostKeepsRefunds
<1>10. CASE \E w \in Workers : Write(w)
  BY <1>10, WriteKeepsRefunds
<1>11. CASE \E w \in Workers : RefundFunding(w)
  BY <1>11, RefundFundingKeepsRefunds
<1>12. CASE \E w \in Workers : RefundToken(w)
  BY <1>12, RefundTokenKeepsRefunds
<1>13. CASE \E w \in Workers : ClearQuota(w)
  BY <1>13, ClearQuotaKeepsRefunds
<1>14. CASE \E w \in Workers, q \in Quotas : SettleFunding(w, q)
  BY <1>14, SettleFundingKeepsRefunds
<1>15. CASE \E w \in Workers : SettleToken(w)
  BY <1>15, SettleTokenKeepsRefunds
<1>16. CASE \E w \in Workers : SaveQuota(w)
  BY <1>16, SaveQuotaKeepsRefunds
<1>17. CASE \E w \in Workers : Crash(w)
  BY <1>17, CrashKeepsRefunds
<1> QED
  BY <1>1, <1>2, <1>3, <1>4, <1>5, <1>6, <1>7, <1>8, <1>9, <1>10, <1>11, <1>12, <1>13, <1>14,
     <1>15, <1>16,
     <1>17 DEF Next, Work

-----------------------------------------------------------------------------
(* Books: one lemma for each action.                                           *)

LEMMA SubmitKeepsBooks ==
  ASSUME ~SettleFailing, BooksInv,
         NEW t \in Tasks, NEW pre \in Quotas, NEW q \in Quotas,
         Submit(t, pre, q)
  PROVE  BooksInv'
<1>1. /\ TypeOK /\ SavesAQuota /\ ReadRunning /\ FollowsUpstream /\ OneBiller
      /\ BilledWhenEnded /\ FirstRefund /\ GuardedRefunds
  BY DEF BooksInv, RefundInv
<1>2. /\ RunningBooks /\ CopyFresh /\ BillingFits /\ MidFunding /\ MidToken
      /\ FailedHasNoQuota /\ KeptBooks /\ KeptNotOverRefunded
  BY DEF BooksInv
<1>3. RefundInv'
  BY SubmitKeepsRefunds DEF BooksInv
<1>4. RunningBooks'
  BY <1>1, <1>2, TaskConstants, TaskSets DEF TypeOK, BilledWhenEnded, RunningBooks, ReadRunning,
     CopyFresh, Quiet, Submit, copyVars, Running, Terminal, Billing, Refunding, Settling
<1>5. CopyFresh'
  BY <1>1, <1>2, TaskConstants, TaskSets DEF TypeOK, CopyFresh, ReadRunning, BillingFits,
     Submit, copyVars, Running, Terminal, Billing, Refunding, Settling
<1>6. BillingFits'
  BY <1>1, <1>2, TaskConstants, TaskSets DEF TypeOK, BillingFits, ReadRunning, OneBiller,
     BilledWhenEnded, Quiet, Submit, copyVars, Running, Terminal, Billing, Refunding, Settling
<1>7. MidFunding'
  BY <1>1, <1>2, TaskConstants, TaskSets DEF TypeOK, MidFunding, OneBiller, ReadRunning,
     RunningBooks, CopyFresh, BilledWhenEnded, Quiet, Submit, copyVars, Running, Terminal,
     Billing, Refunding, Settling
<1>8. MidToken'
  BY <1>1, <1>2, TaskConstants, TaskSets DEF TypeOK, MidToken, OneBiller, ReadRunning,
     RunningBooks, CopyFresh, BilledWhenEnded, Quiet, Submit, copyVars, Running, Terminal,
     Billing, Refunding, Settling
<1>9. FailedHasNoQuota'
  BY <1>1, <1>2, TaskConstants, TaskSets DEF TypeOK, FailedHasNoQuota, OneBiller, ReadRunning,
     CopyFresh, BillingFits, BilledWhenEnded, Quiet, Submit, copyVars, Running, Terminal,
     Billing, Refunding, Settling
<1>10. KeptBooks'
  BY <1>1, <1>2, TaskConstants, TaskSets DEF TypeOK, KeptBooks, OneBiller, ReadRunning,
     RunningBooks, CopyFresh, BilledWhenEnded, MidFunding, MidToken, Quiet, Submit, copyVars,
     Running, Terminal, Billing, Refunding, Settling
<1>11. KeptNotOverRefunded'
  BY <1>1, <1>2, TaskConstants, TaskSets DEF TypeOK, KeptNotOverRefunded, SavesAQuota,
     MidFunding, MidToken, RunningBooks, Submit, copyVars, Running, Terminal, Billing,
     Refunding, Settling
<1> QED
  BY <1>3, <1>4, <1>5, <1>6, <1>7, <1>8, <1>9, <1>10, <1>11 DEF BooksInv

LEMMA UpstreamEndsKeepsBooks ==
  ASSUME ~SettleFailing, BooksInv,
         NEW t \in Tasks, NEW s \in Terminal,
         UpstreamEnds(t, s)
  PROVE  BooksInv'
<1>1. /\ TypeOK /\ SavesAQuota /\ ReadRunning /\ FollowsUpstream /\ OneBiller
      /\ BilledWhenEnded /\ FirstRefund /\ GuardedRefunds
  BY DEF BooksInv, RefundInv
<1>2. /\ RunningBooks /\ CopyFresh /\ BillingFits /\ MidFunding /\ MidToken
      /\ FailedHasNoQuota /\ KeptBooks /\ KeptNotOverRefunded
  BY DEF BooksInv
<1>3. RefundInv'
  BY UpstreamEndsKeepsRefunds DEF BooksInv
<1>4. RunningBooks'
  BY <1>1, <1>2, TaskConstants, TaskSets DEF TypeOK, BilledWhenEnded, RunningBooks, ReadRunning,
     CopyFresh, Quiet, UpstreamEnds, row, ledgers, copyVars, Running, Terminal, Billing,
     Refunding, Settling
<1>5. CopyFresh'
  BY <1>1, <1>2, TaskConstants, TaskSets DEF TypeOK, CopyFresh, ReadRunning, BillingFits,
     UpstreamEnds, row, ledgers, copyVars, Running, Terminal, Billing, Refunding, Settling
<1>6. BillingFits'
  BY <1>1, <1>2, TaskConstants, TaskSets DEF TypeOK, BillingFits, ReadRunning, OneBiller,
     BilledWhenEnded, Quiet, UpstreamEnds, row, ledgers, copyVars, Running, Terminal, Billing,
     Refunding, Settling
<1>7. MidFunding'
  BY <1>1, <1>2, TaskConstants, TaskSets DEF TypeOK, MidFunding, OneBiller, ReadRunning,
     RunningBooks, CopyFresh, BilledWhenEnded, Quiet, UpstreamEnds, row, ledgers, copyVars,
     Running, Terminal, Billing, Refunding, Settling
<1>8. MidToken'
  BY <1>1, <1>2, TaskConstants, TaskSets DEF TypeOK, MidToken, OneBiller, ReadRunning,
     RunningBooks, CopyFresh, BilledWhenEnded, Quiet, UpstreamEnds, row, ledgers, copyVars,
     Running, Terminal, Billing, Refunding, Settling
<1>9. FailedHasNoQuota'
  BY <1>1, <1>2, TaskConstants, TaskSets DEF TypeOK, FailedHasNoQuota, OneBiller, ReadRunning,
     CopyFresh, BillingFits, BilledWhenEnded, Quiet, UpstreamEnds, row, ledgers, copyVars,
     Running, Terminal, Billing, Refunding, Settling
<1>10. KeptBooks'
  BY <1>1, <1>2, TaskConstants, TaskSets DEF TypeOK, KeptBooks, OneBiller, ReadRunning,
     RunningBooks, CopyFresh, BilledWhenEnded, MidFunding, MidToken, Quiet, UpstreamEnds, row,
     ledgers, copyVars, Running, Terminal, Billing, Refunding, Settling
<1>11. KeptNotOverRefunded'
  BY <1>1, <1>2, TaskConstants, TaskSets DEF TypeOK, KeptNotOverRefunded, SavesAQuota,
     MidFunding, MidToken, RunningBooks, UpstreamEnds, row, ledgers, copyVars, Running,
     Terminal, Billing, Refunding, Settling
<1> QED
  BY <1>3, <1>4, <1>5, <1>6, <1>7, <1>8, <1>9, <1>10, <1>11 DEF BooksInv

LEMMA LoadSweepKeepsBooks ==
  ASSUME ~SettleFailing, BooksInv,
         NEW w \in Workers, NEW t \in Tasks,
         LoadSweep(w, t)
  PROVE  BooksInv'
<1>1. /\ TypeOK /\ SavesAQuota /\ ReadRunning /\ FollowsUpstream /\ OneBiller
      /\ BilledWhenEnded /\ FirstRefund /\ GuardedRefunds
  BY DEF BooksInv, RefundInv
<1>2. /\ RunningBooks /\ CopyFresh /\ BillingFits /\ MidFunding /\ MidToken
      /\ FailedHasNoQuota /\ KeptBooks /\ KeptNotOverRefunded
  BY DEF BooksInv
<1>3. RefundInv'
  BY LoadSweepKeepsRefunds DEF BooksInv
<1>4. RunningBooks'
  BY <1>1, <1>2, TaskConstants, TaskSets DEF TypeOK, BilledWhenEnded, RunningBooks, ReadRunning,
     CopyFresh, Quiet, LoadSweep, Read, Unfinished, row, ledgers, Running, Terminal, Billing,
     Refunding, Settling
<1>5. CopyFresh'
  BY <1>1, <1>2, TaskConstants, TaskSets DEF TypeOK, CopyFresh, ReadRunning, BillingFits,
     LoadSweep, Read, Unfinished, row, ledgers, Running, Terminal, Billing, Refunding, Settling
<1>6. BillingFits'
  BY <1>1, <1>2, TaskConstants, TaskSets DEF TypeOK, BillingFits, ReadRunning, OneBiller,
     BilledWhenEnded, Quiet, LoadSweep, Read, Unfinished, row, ledgers, Running, Terminal,
     Billing, Refunding, Settling
<1>7. MidFunding'
  BY <1>1, <1>2, TaskConstants, TaskSets DEF TypeOK, MidFunding, OneBiller, ReadRunning,
     RunningBooks, CopyFresh, BilledWhenEnded, Quiet, LoadSweep, Read, Unfinished, row, ledgers,
     Running, Terminal, Billing, Refunding, Settling
<1>8. MidToken'
  BY <1>1, <1>2, TaskConstants, TaskSets DEF TypeOK, MidToken, OneBiller, ReadRunning,
     RunningBooks, CopyFresh, BilledWhenEnded, Quiet, LoadSweep, Read, Unfinished, row, ledgers,
     Running, Terminal, Billing, Refunding, Settling
<1>9. FailedHasNoQuota'
  BY <1>1, <1>2, TaskConstants, TaskSets DEF TypeOK, FailedHasNoQuota, OneBiller, ReadRunning,
     CopyFresh, BillingFits, BilledWhenEnded, Quiet, LoadSweep, Read, Unfinished, row, ledgers,
     Running, Terminal, Billing, Refunding, Settling
<1>10. KeptBooks'
  BY <1>1, <1>2, TaskConstants, TaskSets DEF TypeOK, KeptBooks, OneBiller, ReadRunning,
     RunningBooks, CopyFresh, BilledWhenEnded, MidFunding, MidToken, Quiet, LoadSweep, Read,
     Unfinished, row, ledgers, Running, Terminal, Billing, Refunding, Settling
<1>11. KeptNotOverRefunded'
  BY <1>1, <1>2, TaskConstants, TaskSets DEF TypeOK, KeptNotOverRefunded, SavesAQuota,
     MidFunding, MidToken, RunningBooks, LoadSweep, Read, Unfinished, row, ledgers, Running,
     Terminal, Billing, Refunding, Settling
<1> QED
  BY <1>3, <1>4, <1>5, <1>6, <1>7, <1>8, <1>9, <1>10, <1>11 DEF BooksInv

LEMMA LoadPollKeepsBooks ==
  ASSUME ~SettleFailing, BooksInv,
         NEW w \in Workers, NEW t \in Tasks,
         LoadPoll(w, t)
  PROVE  BooksInv'
<1>1. /\ TypeOK /\ SavesAQuota /\ ReadRunning /\ FollowsUpstream /\ OneBiller
      /\ BilledWhenEnded /\ FirstRefund /\ GuardedRefunds
  BY DEF BooksInv, RefundInv
<1>2. /\ RunningBooks /\ CopyFresh /\ BillingFits /\ MidFunding /\ MidToken
      /\ FailedHasNoQuota /\ KeptBooks /\ KeptNotOverRefunded
  BY DEF BooksInv
<1>3. RefundInv'
  BY LoadPollKeepsRefunds DEF BooksInv
<1>4. RunningBooks'
  BY <1>1, <1>2, TaskConstants, TaskSets DEF TypeOK, BilledWhenEnded, RunningBooks, ReadRunning,
     CopyFresh, Quiet, LoadPoll, Read, Unfinished, row, ledgers, Running, Terminal, Billing,
     Refunding, Settling
<1>5. CopyFresh'
  BY <1>1, <1>2, TaskConstants, TaskSets DEF TypeOK, CopyFresh, ReadRunning, BillingFits,
     LoadPoll, Read, Unfinished, row, ledgers, Running, Terminal, Billing, Refunding, Settling
<1>6. BillingFits'
  BY <1>1, <1>2, TaskConstants, TaskSets DEF TypeOK, BillingFits, ReadRunning, OneBiller,
     BilledWhenEnded, Quiet, LoadPoll, Read, Unfinished, row, ledgers, Running, Terminal,
     Billing, Refunding, Settling
<1>7. MidFunding'
  BY <1>1, <1>2, TaskConstants, TaskSets DEF TypeOK, MidFunding, OneBiller, ReadRunning,
     RunningBooks, CopyFresh, BilledWhenEnded, Quiet, LoadPoll, Read, Unfinished, row, ledgers,
     Running, Terminal, Billing, Refunding, Settling
<1>8. MidToken'
  BY <1>1, <1>2, TaskConstants, TaskSets DEF TypeOK, MidToken, OneBiller, ReadRunning,
     RunningBooks, CopyFresh, BilledWhenEnded, Quiet, LoadPoll, Read, Unfinished, row, ledgers,
     Running, Terminal, Billing, Refunding, Settling
<1>9. FailedHasNoQuota'
  BY <1>1, <1>2, TaskConstants, TaskSets DEF TypeOK, FailedHasNoQuota, OneBiller, ReadRunning,
     CopyFresh, BillingFits, BilledWhenEnded, Quiet, LoadPoll, Read, Unfinished, row, ledgers,
     Running, Terminal, Billing, Refunding, Settling
<1>10. KeptBooks'
  BY <1>1, <1>2, TaskConstants, TaskSets DEF TypeOK, KeptBooks, OneBiller, ReadRunning,
     RunningBooks, CopyFresh, BilledWhenEnded, MidFunding, MidToken, Quiet, LoadPoll, Read,
     Unfinished, row, ledgers, Running, Terminal, Billing, Refunding, Settling
<1>11. KeptNotOverRefunded'
  BY <1>1, <1>2, TaskConstants, TaskSets DEF TypeOK, KeptNotOverRefunded, SavesAQuota,
     MidFunding, MidToken, RunningBooks, LoadPoll, Read, Unfinished, row, ledgers, Running,
     Terminal, Billing, Refunding, Settling
<1> QED
  BY <1>3, <1>4, <1>5, <1>6, <1>7, <1>8, <1>9, <1>10, <1>11 DEF BooksInv

LEMMA LoadFetchKeepsBooks ==
  ASSUME ~SettleFailing, BooksInv,
         NEW w \in Workers, NEW t \in Tasks,
         LoadFetch(w, t)
  PROVE  BooksInv'
<1>1. /\ TypeOK /\ SavesAQuota /\ ReadRunning /\ FollowsUpstream /\ OneBiller
      /\ BilledWhenEnded /\ FirstRefund /\ GuardedRefunds
  BY DEF BooksInv, RefundInv
<1>2. /\ RunningBooks /\ CopyFresh /\ BillingFits /\ MidFunding /\ MidToken
      /\ FailedHasNoQuota /\ KeptBooks /\ KeptNotOverRefunded
  BY DEF BooksInv
<1>3. RefundInv'
  BY LoadFetchKeepsRefunds DEF BooksInv
<1>4. RunningBooks'
  BY <1>1, <1>2, TaskConstants, TaskSets DEF TypeOK, BilledWhenEnded, RunningBooks, ReadRunning,
     CopyFresh, Quiet, LoadFetch, Read, row, ledgers, Running, Terminal, Billing, Refunding,
     Settling
<1>5. CopyFresh'
  BY <1>1, <1>2, TaskConstants, TaskSets DEF TypeOK, CopyFresh, ReadRunning, BillingFits,
     LoadFetch, Read, row, ledgers, Running, Terminal, Billing, Refunding, Settling
<1>6. BillingFits'
  BY <1>1, <1>2, TaskConstants, TaskSets DEF TypeOK, BillingFits, ReadRunning, OneBiller,
     BilledWhenEnded, Quiet, LoadFetch, Read, row, ledgers, Running, Terminal, Billing,
     Refunding, Settling
<1>7. MidFunding'
  BY <1>1, <1>2, TaskConstants, TaskSets DEF TypeOK, MidFunding, OneBiller, ReadRunning,
     RunningBooks, CopyFresh, BilledWhenEnded, Quiet, LoadFetch, Read, row, ledgers, Running,
     Terminal, Billing, Refunding, Settling
<1>8. MidToken'
  BY <1>1, <1>2, TaskConstants, TaskSets DEF TypeOK, MidToken, OneBiller, ReadRunning,
     RunningBooks, CopyFresh, BilledWhenEnded, Quiet, LoadFetch, Read, row, ledgers, Running,
     Terminal, Billing, Refunding, Settling
<1>9. FailedHasNoQuota'
  BY <1>1, <1>2, TaskConstants, TaskSets DEF TypeOK, FailedHasNoQuota, OneBiller, ReadRunning,
     CopyFresh, BillingFits, BilledWhenEnded, Quiet, LoadFetch, Read, row, ledgers, Running,
     Terminal, Billing, Refunding, Settling
<1>10. KeptBooks'
  BY <1>1, <1>2, TaskConstants, TaskSets DEF TypeOK, KeptBooks, OneBiller, ReadRunning,
     RunningBooks, CopyFresh, BilledWhenEnded, MidFunding, MidToken, Quiet, LoadFetch, Read,
     row, ledgers, Running, Terminal, Billing, Refunding, Settling
<1>11. KeptNotOverRefunded'
  BY <1>1, <1>2, TaskConstants, TaskSets DEF TypeOK, KeptNotOverRefunded, SavesAQuota,
     MidFunding, MidToken, RunningBooks, LoadFetch, Read, row, ledgers, Running, Terminal,
     Billing, Refunding, Settling
<1> QED
  BY <1>3, <1>4, <1>5, <1>6, <1>7, <1>8, <1>9, <1>10, <1>11 DEF BooksInv

LEMMA AnswerKeepsBooks ==
  ASSUME ~SettleFailing, BooksInv,
         NEW w \in Workers, NEW s \in Running \cup Terminal,
         Answer(w, s)
  PROVE  BooksInv'
<1>1. /\ TypeOK /\ SavesAQuota /\ ReadRunning /\ FollowsUpstream /\ OneBiller
      /\ BilledWhenEnded /\ FirstRefund /\ GuardedRefunds
  BY DEF BooksInv, RefundInv
<1>2. /\ RunningBooks /\ CopyFresh /\ BillingFits /\ MidFunding /\ MidToken
      /\ FailedHasNoQuota /\ KeptBooks /\ KeptNotOverRefunded
  BY DEF BooksInv
<1>3. RefundInv'
  BY AnswerKeepsRefunds DEF BooksInv
<1>4. RunningBooks'
  BY <1>1, <1>2, TaskConstants, TaskSets DEF TypeOK, BilledWhenEnded, RunningBooks, ReadRunning,
     CopyFresh, Quiet, Answer, Answers, row, ledgers, Running, Terminal, Billing, Refunding,
     Settling
<1>5. CopyFresh'
  BY <1>1, <1>2, TaskConstants, TaskSets DEF TypeOK, CopyFresh, ReadRunning, BillingFits,
     Answer, Answers, row, ledgers, Running, Terminal, Billing, Refunding, Settling
<1>6. BillingFits'
  BY <1>1, <1>2, TaskConstants, TaskSets DEF TypeOK, BillingFits, ReadRunning, OneBiller,
     BilledWhenEnded, Quiet, Answer, Answers, row, ledgers, Running, Terminal, Billing,
     Refunding, Settling
<1>7. MidFunding'
  BY <1>1, <1>2, TaskConstants, TaskSets DEF TypeOK, MidFunding, OneBiller, ReadRunning,
     RunningBooks, CopyFresh, BilledWhenEnded, Quiet, Answer, Answers, row, ledgers, Running,
     Terminal, Billing, Refunding, Settling
<1>8. MidToken'
  BY <1>1, <1>2, TaskConstants, TaskSets DEF TypeOK, MidToken, OneBiller, ReadRunning,
     RunningBooks, CopyFresh, BilledWhenEnded, Quiet, Answer, Answers, row, ledgers, Running,
     Terminal, Billing, Refunding, Settling
<1>9. FailedHasNoQuota'
  BY <1>1, <1>2, TaskConstants, TaskSets DEF TypeOK, FailedHasNoQuota, OneBiller, ReadRunning,
     CopyFresh, BillingFits, BilledWhenEnded, Quiet, Answer, Answers, row, ledgers, Running,
     Terminal, Billing, Refunding, Settling
<1>10. KeptBooks'
  BY <1>1, <1>2, TaskConstants, TaskSets DEF TypeOK, KeptBooks, OneBiller, ReadRunning,
     RunningBooks, CopyFresh, BilledWhenEnded, MidFunding, MidToken, Quiet, Answer, Answers,
     row, ledgers, Running, Terminal, Billing, Refunding, Settling
<1>11. KeptNotOverRefunded'
  BY <1>1, <1>2, TaskConstants, TaskSets DEF TypeOK, KeptNotOverRefunded, SavesAQuota,
     MidFunding, MidToken, RunningBooks, Answer, Answers, row, ledgers, Running, Terminal,
     Billing, Refunding, Settling
<1> QED
  BY <1>3, <1>4, <1>5, <1>6, <1>7, <1>8, <1>9, <1>10, <1>11 DEF BooksInv

LEMMA NoAnswerKeepsBooks ==
  ASSUME ~SettleFailing, BooksInv,
         NEW w \in Workers,
         NoAnswer(w)
  PROVE  BooksInv'
<1>1. /\ TypeOK /\ SavesAQuota /\ ReadRunning /\ FollowsUpstream /\ OneBiller
      /\ BilledWhenEnded /\ FirstRefund /\ GuardedRefunds
  BY DEF BooksInv, RefundInv
<1>2. /\ RunningBooks /\ CopyFresh /\ BillingFits /\ MidFunding /\ MidToken
      /\ FailedHasNoQuota /\ KeptBooks /\ KeptNotOverRefunded
  BY DEF BooksInv
<1>3. RefundInv'
  BY NoAnswerKeepsRefunds DEF BooksInv
<1>4. RunningBooks'
  BY <1>1, <1>2, TaskConstants, TaskSets DEF TypeOK, BilledWhenEnded, RunningBooks, ReadRunning,
     CopyFresh, Quiet, NoAnswer, row, ledgers, copyVars, Running, Terminal, Billing, Refunding,
     Settling
<1>5. CopyFresh'
  BY <1>1, <1>2, TaskConstants, TaskSets DEF TypeOK, CopyFresh, ReadRunning, BillingFits,
     NoAnswer, row, ledgers, copyVars, Running, Terminal, Billing, Refunding, Settling
<1>6. BillingFits'
  BY <1>1, <1>2, TaskConstants, TaskSets DEF TypeOK, BillingFits, ReadRunning, OneBiller,
     BilledWhenEnded, Quiet, NoAnswer, row, ledgers, copyVars, Running, Terminal, Billing,
     Refunding, Settling
<1>7. MidFunding'
  BY <1>1, <1>2, TaskConstants, TaskSets DEF TypeOK, MidFunding, OneBiller, ReadRunning,
     RunningBooks, CopyFresh, BilledWhenEnded, Quiet, NoAnswer, row, ledgers, copyVars, Running,
     Terminal, Billing, Refunding, Settling
<1>8. MidToken'
  BY <1>1, <1>2, TaskConstants, TaskSets DEF TypeOK, MidToken, OneBiller, ReadRunning,
     RunningBooks, CopyFresh, BilledWhenEnded, Quiet, NoAnswer, row, ledgers, copyVars, Running,
     Terminal, Billing, Refunding, Settling
<1>9. FailedHasNoQuota'
  BY <1>1, <1>2, TaskConstants, TaskSets DEF TypeOK, FailedHasNoQuota, OneBiller, ReadRunning,
     CopyFresh, BillingFits, BilledWhenEnded, Quiet, NoAnswer, row, ledgers, copyVars, Running,
     Terminal, Billing, Refunding, Settling
<1>10. KeptBooks'
  BY <1>1, <1>2, TaskConstants, TaskSets DEF TypeOK, KeptBooks, OneBiller, ReadRunning,
     RunningBooks, CopyFresh, BilledWhenEnded, MidFunding, MidToken, Quiet, NoAnswer, row,
     ledgers, copyVars, Running, Terminal, Billing, Refunding, Settling
<1>11. KeptNotOverRefunded'
  BY <1>1, <1>2, TaskConstants, TaskSets DEF TypeOK, KeptNotOverRefunded, SavesAQuota,
     MidFunding, MidToken, RunningBooks, NoAnswer, row, ledgers, copyVars, Running, Terminal,
     Billing, Refunding, Settling
<1> QED
  BY <1>3, <1>4, <1>5, <1>6, <1>7, <1>8, <1>9, <1>10, <1>11 DEF BooksInv

LEMMA ChannelLostKeepsBooks ==
  ASSUME ~SettleFailing, BooksInv,
         NEW w \in Workers,
         ChannelLost(w)
  PROVE  BooksInv'
<1>1. /\ TypeOK /\ SavesAQuota /\ ReadRunning /\ FollowsUpstream /\ OneBiller
      /\ BilledWhenEnded /\ FirstRefund /\ GuardedRefunds
  BY DEF BooksInv, RefundInv
<1>2. /\ RunningBooks /\ CopyFresh /\ BillingFits /\ MidFunding /\ MidToken
      /\ FailedHasNoQuota /\ KeptBooks /\ KeptNotOverRefunded
  BY DEF BooksInv
<1>3. RefundInv'
  BY ChannelLostKeepsRefunds DEF BooksInv
<1>4. RunningBooks'
  BY <1>1, <1>2, TaskConstants, TaskSets DEF TypeOK, BilledWhenEnded, RunningBooks, ReadRunning,
     CopyFresh, Quiet, ChannelLost, ledgers, copyVars, Running, Terminal, Billing, Refunding,
     Settling
<1>5. CopyFresh'
  BY <1>1, <1>2, TaskConstants, TaskSets DEF TypeOK, CopyFresh, ReadRunning, BillingFits,
     ChannelLost, ledgers, copyVars, Running, Terminal, Billing, Refunding, Settling
<1>6. BillingFits'
  BY <1>1, <1>2, TaskConstants, TaskSets DEF TypeOK, BillingFits, ReadRunning, OneBiller,
     BilledWhenEnded, Quiet, ChannelLost, ledgers, copyVars, Running, Terminal, Billing,
     Refunding, Settling
<1>7. MidFunding'
  BY <1>1, <1>2, TaskConstants, TaskSets DEF TypeOK, MidFunding, OneBiller, ReadRunning,
     RunningBooks, CopyFresh, BilledWhenEnded, Quiet, ChannelLost, ledgers, copyVars, Running,
     Terminal, Billing, Refunding, Settling
<1>8. MidToken'
  BY <1>1, <1>2, TaskConstants, TaskSets DEF TypeOK, MidToken, OneBiller, ReadRunning,
     RunningBooks, CopyFresh, BilledWhenEnded, Quiet, ChannelLost, ledgers, copyVars, Running,
     Terminal, Billing, Refunding, Settling
<1>9. FailedHasNoQuota'
  BY <1>1, <1>2, TaskConstants, TaskSets DEF TypeOK, FailedHasNoQuota, OneBiller, ReadRunning,
     CopyFresh, BillingFits, BilledWhenEnded, Quiet, ChannelLost, ledgers, copyVars, Running,
     Terminal, Billing, Refunding, Settling
<1>10. KeptBooks'
  BY <1>1, <1>2, TaskConstants, TaskSets DEF TypeOK, KeptBooks, OneBiller, ReadRunning,
     RunningBooks, CopyFresh, BilledWhenEnded, MidFunding, MidToken, Quiet, ChannelLost,
     ledgers, copyVars, Running, Terminal, Billing, Refunding, Settling
<1>11. KeptNotOverRefunded'
  BY <1>1, <1>2, TaskConstants, TaskSets DEF TypeOK, KeptNotOverRefunded, SavesAQuota,
     MidFunding, MidToken, RunningBooks, ChannelLost, ledgers, copyVars, Running, Terminal,
     Billing, Refunding, Settling
<1> QED
  BY <1>3, <1>4, <1>5, <1>6, <1>7, <1>8, <1>9, <1>10, <1>11 DEF BooksInv

LEMMA WriteKeepsBooks ==
  ASSUME ~SettleFailing, BooksInv,
         NEW w \in Workers,
         Write(w)
  PROVE  BooksInv'
<1>1. /\ TypeOK /\ SavesAQuota /\ ReadRunning /\ FollowsUpstream /\ OneBiller
      /\ BilledWhenEnded /\ FirstRefund /\ GuardedRefunds
  BY DEF BooksInv, RefundInv
<1>2. /\ RunningBooks /\ CopyFresh /\ BillingFits /\ MidFunding /\ MidToken
      /\ FailedHasNoQuota /\ KeptBooks /\ KeptNotOverRefunded
  BY DEF BooksInv
<1>3. RefundInv'
  BY WriteKeepsRefunds DEF BooksInv
<1>4. RunningBooks'
  BY <1>1, <1>2, TaskConstants, TaskSets DEF TypeOK, BilledWhenEnded, RunningBooks, ReadRunning,
     CopyFresh, Quiet, Write, CasWins, AfterWrite, AfterLoss, row, ledgers, copyVars, Running,
     Terminal, Billing, Refunding, Settling
<1>5. CopyFresh'
  BY <1>1, <1>2, TaskConstants, TaskSets DEF TypeOK, CopyFresh, ReadRunning, BillingFits, Write,
     CasWins, AfterWrite, AfterLoss, row, ledgers, copyVars, Running, Terminal, Billing,
     Refunding, Settling
<1>6. BillingFits'
  BY <1>1, <1>2, TaskConstants, TaskSets DEF TypeOK, BillingFits, ReadRunning, OneBiller,
     BilledWhenEnded, Quiet, Write, CasWins, AfterWrite, AfterLoss, row, ledgers, copyVars,
     Running, Terminal, Billing, Refunding, Settling
<1>7. MidFunding'
  BY <1>1, <1>2, TaskConstants, TaskSets DEF TypeOK, MidFunding, OneBiller, ReadRunning,
     RunningBooks, CopyFresh, BilledWhenEnded, Quiet, Write, CasWins, AfterWrite, AfterLoss,
     row, ledgers, copyVars, Running, Terminal, Billing, Refunding, Settling
<1>8. MidToken'
  BY <1>1, <1>2, TaskConstants, TaskSets DEF TypeOK, MidToken, OneBiller, ReadRunning,
     RunningBooks, CopyFresh, BilledWhenEnded, Quiet, Write, CasWins, AfterWrite, AfterLoss,
     row, ledgers, copyVars, Running, Terminal, Billing, Refunding, Settling
<1>9. FailedHasNoQuota'
  BY <1>1, <1>2, TaskConstants, TaskSets DEF TypeOK, FailedHasNoQuota, OneBiller, ReadRunning,
     CopyFresh, BillingFits, BilledWhenEnded, Quiet, Write, CasWins, AfterWrite, AfterLoss, row,
     ledgers, copyVars, Running, Terminal, Billing, Refunding, Settling
<1>10. KeptBooks'
  BY <1>1, <1>2, TaskConstants, TaskSets DEF TypeOK, KeptBooks, OneBiller, ReadRunning,
     RunningBooks, CopyFresh, BilledWhenEnded, MidFunding, MidToken, Quiet, Write, CasWins,
     AfterWrite, AfterLoss, row, ledgers, copyVars, Running, Terminal, Billing, Refunding,
     Settling
<1>11. KeptNotOverRefunded'
  BY <1>1, <1>2, TaskConstants, TaskSets DEF TypeOK, KeptNotOverRefunded, SavesAQuota,
     MidFunding, MidToken, RunningBooks, Write, CasWins, AfterWrite, AfterLoss, row, ledgers,
     copyVars, Running, Terminal, Billing, Refunding, Settling
<1> QED
  BY <1>3, <1>4, <1>5, <1>6, <1>7, <1>8, <1>9, <1>10, <1>11 DEF BooksInv

LEMMA RefundFundingKeepsBooks ==
  ASSUME ~SettleFailing, BooksInv,
         NEW w \in Workers,
         RefundFunding(w)
  PROVE  BooksInv'
<1>1. /\ TypeOK /\ SavesAQuota /\ ReadRunning /\ FollowsUpstream /\ OneBiller
      /\ BilledWhenEnded /\ FirstRefund /\ GuardedRefunds
  BY DEF BooksInv, RefundInv
<1>2. /\ RunningBooks /\ CopyFresh /\ BillingFits /\ MidFunding /\ MidToken
      /\ FailedHasNoQuota /\ KeptBooks /\ KeptNotOverRefunded
  BY DEF BooksInv
<1>3. RefundInv'
  BY RefundFundingKeepsRefunds DEF BooksInv
<1>4. RunningBooks'
  BY <1>1, <1>2, TaskConstants, TaskSets DEF TypeOK, BilledWhenEnded, RunningBooks, ReadRunning,
     CopyFresh, Quiet, RefundFunding, Goto, row, copyVars, Running, Terminal, Billing,
     Refunding, Settling
<1>5. CopyFresh'
  BY <1>1, <1>2, TaskConstants, TaskSets DEF TypeOK, CopyFresh, ReadRunning, BillingFits,
     RefundFunding, Goto, row, copyVars, Running, Terminal, Billing, Refunding, Settling
<1>6. BillingFits'
  BY <1>1, <1>2, TaskConstants, TaskSets DEF TypeOK, BillingFits, ReadRunning, OneBiller,
     BilledWhenEnded, Quiet, RefundFunding, Goto, row, copyVars, Running, Terminal, Billing,
     Refunding, Settling
<1>7. MidFunding'
  BY <1>1, <1>2, TaskConstants, TaskSets DEF TypeOK, MidFunding, OneBiller, ReadRunning,
     RunningBooks, CopyFresh, BilledWhenEnded, Quiet, RefundFunding, Goto, row, copyVars,
     Running, Terminal, Billing, Refunding, Settling
<1>8. MidToken'
  BY <1>1, <1>2, TaskConstants, TaskSets DEF TypeOK, MidToken, OneBiller, ReadRunning,
     RunningBooks, CopyFresh, BilledWhenEnded, Quiet, RefundFunding, Goto, row, copyVars,
     Running, Terminal, Billing, Refunding, Settling
<1>9. FailedHasNoQuota'
  BY <1>1, <1>2, TaskConstants, TaskSets DEF TypeOK, FailedHasNoQuota, OneBiller, ReadRunning,
     CopyFresh, BillingFits, BilledWhenEnded, Quiet, RefundFunding, Goto, row, copyVars,
     Running, Terminal, Billing, Refunding, Settling
<1>10. KeptBooks'
  BY <1>1, <1>2, TaskConstants, TaskSets DEF TypeOK, KeptBooks, OneBiller, ReadRunning,
     RunningBooks, CopyFresh, BilledWhenEnded, MidFunding, MidToken, Quiet, RefundFunding, Goto,
     row, copyVars, Running, Terminal, Billing, Refunding, Settling
<1>11. KeptNotOverRefunded'
  BY <1>1, <1>2, TaskConstants, TaskSets DEF TypeOK, KeptNotOverRefunded, SavesAQuota,
     MidFunding, MidToken, RunningBooks, RefundFunding, Goto, row, copyVars, Running, Terminal,
     Billing, Refunding, Settling
<1> QED
  BY <1>3, <1>4, <1>5, <1>6, <1>7, <1>8, <1>9, <1>10, <1>11 DEF BooksInv

LEMMA RefundTokenKeepsBooks ==
  ASSUME ~SettleFailing, BooksInv,
         NEW w \in Workers,
         RefundToken(w)
  PROVE  BooksInv'
<1>1. /\ TypeOK /\ SavesAQuota /\ ReadRunning /\ FollowsUpstream /\ OneBiller
      /\ BilledWhenEnded /\ FirstRefund /\ GuardedRefunds
  BY DEF BooksInv, RefundInv
<1>2. /\ RunningBooks /\ CopyFresh /\ BillingFits /\ MidFunding /\ MidToken
      /\ FailedHasNoQuota /\ KeptBooks /\ KeptNotOverRefunded
  BY DEF BooksInv
<1>3. RefundInv'
  BY RefundTokenKeepsRefunds DEF BooksInv
<1>4. RunningBooks'
  BY <1>1, <1>2, TaskConstants, TaskSets DEF TypeOK, BilledWhenEnded, RunningBooks, ReadRunning,
     CopyFresh, Quiet, RefundToken, Goto, row, copyVars, Running, Terminal, Billing, Refunding,
     Settling
<1>5. CopyFresh'
  BY <1>1, <1>2, TaskConstants, TaskSets DEF TypeOK, CopyFresh, ReadRunning, BillingFits,
     RefundToken, Goto, row, copyVars, Running, Terminal, Billing, Refunding, Settling
<1>6. BillingFits'
  BY <1>1, <1>2, TaskConstants, TaskSets DEF TypeOK, BillingFits, ReadRunning, OneBiller,
     BilledWhenEnded, Quiet, RefundToken, Goto, row, copyVars, Running, Terminal, Billing,
     Refunding, Settling
<1>7. MidFunding'
  BY <1>1, <1>2, TaskConstants, TaskSets DEF TypeOK, MidFunding, OneBiller, ReadRunning,
     RunningBooks, CopyFresh, BilledWhenEnded, Quiet, RefundToken, Goto, row, copyVars, Running,
     Terminal, Billing, Refunding, Settling
<1>8. MidToken'
  BY <1>1, <1>2, TaskConstants, TaskSets DEF TypeOK, MidToken, OneBiller, ReadRunning,
     RunningBooks, CopyFresh, BilledWhenEnded, Quiet, RefundToken, Goto, row, copyVars, Running,
     Terminal, Billing, Refunding, Settling
<1>9. FailedHasNoQuota'
  BY <1>1, <1>2, TaskConstants, TaskSets DEF TypeOK, FailedHasNoQuota, OneBiller, ReadRunning,
     CopyFresh, BillingFits, BilledWhenEnded, Quiet, RefundToken, Goto, row, copyVars, Running,
     Terminal, Billing, Refunding, Settling
<1>10. KeptBooks'
  BY <1>1, <1>2, TaskConstants, TaskSets DEF TypeOK, KeptBooks, OneBiller, ReadRunning,
     RunningBooks, CopyFresh, BilledWhenEnded, MidFunding, MidToken, Quiet, RefundToken, Goto,
     row, copyVars, Running, Terminal, Billing, Refunding, Settling
<1>11. KeptNotOverRefunded'
  BY <1>1, <1>2, TaskConstants, TaskSets DEF TypeOK, KeptNotOverRefunded, SavesAQuota,
     MidFunding, MidToken, RunningBooks, RefundToken, Goto, row, copyVars, Running, Terminal,
     Billing, Refunding, Settling
<1> QED
  BY <1>3, <1>4, <1>5, <1>6, <1>7, <1>8, <1>9, <1>10, <1>11 DEF BooksInv

LEMMA ClearQuotaKeepsBooks ==
  ASSUME ~SettleFailing, BooksInv,
         NEW w \in Workers,
         ClearQuota(w)
  PROVE  BooksInv'
<1>1. /\ TypeOK /\ SavesAQuota /\ ReadRunning /\ FollowsUpstream /\ OneBiller
      /\ BilledWhenEnded /\ FirstRefund /\ GuardedRefunds
  BY DEF BooksInv, RefundInv
<1>2. /\ RunningBooks /\ CopyFresh /\ BillingFits /\ MidFunding /\ MidToken
      /\ FailedHasNoQuota /\ KeptBooks /\ KeptNotOverRefunded
  BY DEF BooksInv
<1>3. RefundInv'
  BY ClearQuotaKeepsRefunds DEF BooksInv
<1>4. RunningBooks'
  BY <1>1, <1>2, TaskConstants, TaskSets DEF TypeOK, BilledWhenEnded, RunningBooks, ReadRunning,
     CopyFresh, Quiet, ClearQuota, Goto, ledgers, copyVars, Running, Terminal, Billing,
     Refunding, Settling
<1>5. CopyFresh'
  BY <1>1, <1>2, TaskConstants, TaskSets DEF TypeOK, CopyFresh, ReadRunning, BillingFits,
     ClearQuota, Goto, ledgers, copyVars, Running, Terminal, Billing, Refunding, Settling
<1>6. BillingFits'
  BY <1>1, <1>2, TaskConstants, TaskSets DEF TypeOK, BillingFits, ReadRunning, OneBiller,
     BilledWhenEnded, Quiet, ClearQuota, Goto, ledgers, copyVars, Running, Terminal, Billing,
     Refunding, Settling
<1>7. MidFunding'
  BY <1>1, <1>2, TaskConstants, TaskSets DEF TypeOK, MidFunding, OneBiller, ReadRunning,
     RunningBooks, CopyFresh, BilledWhenEnded, Quiet, ClearQuota, Goto, ledgers, copyVars,
     Running, Terminal, Billing, Refunding, Settling
<1>8. MidToken'
  BY <1>1, <1>2, TaskConstants, TaskSets DEF TypeOK, MidToken, OneBiller, ReadRunning,
     RunningBooks, CopyFresh, BilledWhenEnded, Quiet, ClearQuota, Goto, ledgers, copyVars,
     Running, Terminal, Billing, Refunding, Settling
<1>9. FailedHasNoQuota'
  BY <1>1, <1>2, TaskConstants, TaskSets DEF TypeOK, FailedHasNoQuota, OneBiller, ReadRunning,
     CopyFresh, BillingFits, BilledWhenEnded, Quiet, ClearQuota, Goto, ledgers, copyVars,
     Running, Terminal, Billing, Refunding, Settling
<1>10. KeptBooks'
  BY <1>1, <1>2, TaskConstants, TaskSets DEF TypeOK, KeptBooks, OneBiller, ReadRunning,
     RunningBooks, CopyFresh, BilledWhenEnded, MidFunding, MidToken, Quiet, ClearQuota, Goto,
     ledgers, copyVars, Running, Terminal, Billing, Refunding, Settling
<1>11. KeptNotOverRefunded'
  BY <1>1, <1>2, TaskConstants, TaskSets DEF TypeOK, KeptNotOverRefunded, SavesAQuota,
     MidFunding, MidToken, RunningBooks, ClearQuota, Goto, ledgers, copyVars, Running, Terminal,
     Billing, Refunding, Settling
<1> QED
  BY <1>3, <1>4, <1>5, <1>6, <1>7, <1>8, <1>9, <1>10, <1>11 DEF BooksInv

LEMMA SettleFundingKeepsBooks ==
  ASSUME ~SettleFailing, BooksInv,
         NEW w \in Workers, NEW q \in Quotas,
         SettleFunding(w, q)
  PROVE  BooksInv'
<1>1. /\ TypeOK /\ SavesAQuota /\ ReadRunning /\ FollowsUpstream /\ OneBiller
      /\ BilledWhenEnded /\ FirstRefund /\ GuardedRefunds
  BY DEF BooksInv, RefundInv
<1>2. /\ RunningBooks /\ CopyFresh /\ BillingFits /\ MidFunding /\ MidToken
      /\ FailedHasNoQuota /\ KeptBooks /\ KeptNotOverRefunded
  BY DEF BooksInv
<1>3. RefundInv'
  BY SettleFundingKeepsRefunds DEF BooksInv
<1>4. RunningBooks'
  BY <1>1, <1>2, TaskConstants, TaskSets DEF TypeOK, BilledWhenEnded, RunningBooks, ReadRunning,
     CopyFresh, Quiet, SettleFunding, Goto, row, copyVars, Running, Terminal, Billing,
     Refunding, Settling
<1>5. CopyFresh'
  BY <1>1, <1>2, TaskConstants, TaskSets DEF TypeOK, CopyFresh, ReadRunning, BillingFits,
     SettleFunding, Goto, row, copyVars, Running, Terminal, Billing, Refunding, Settling
<1>6. BillingFits'
  BY <1>1, <1>2, TaskConstants, TaskSets DEF TypeOK, BillingFits, ReadRunning, OneBiller,
     BilledWhenEnded, Quiet, SettleFunding, Goto, row, copyVars, Running, Terminal, Billing,
     Refunding, Settling
<1>7. MidFunding'
  BY <1>1, <1>2, TaskConstants, TaskSets DEF TypeOK, MidFunding, OneBiller, ReadRunning,
     RunningBooks, CopyFresh, BilledWhenEnded, Quiet, SettleFunding, Goto, row, copyVars,
     Running, Terminal, Billing, Refunding, Settling
<1>8. MidToken'
  BY <1>1, <1>2, TaskConstants, TaskSets DEF TypeOK, MidToken, OneBiller, ReadRunning,
     RunningBooks, CopyFresh, BilledWhenEnded, Quiet, SettleFunding, Goto, row, copyVars,
     Running, Terminal, Billing, Refunding, Settling
<1>9. FailedHasNoQuota'
  BY <1>1, <1>2, TaskConstants, TaskSets DEF TypeOK, FailedHasNoQuota, OneBiller, ReadRunning,
     CopyFresh, BillingFits, BilledWhenEnded, Quiet, SettleFunding, Goto, row, copyVars,
     Running, Terminal, Billing, Refunding, Settling
<1>10. KeptBooks'
  <2>1. copy[w] \in Nat /\ on[w] \in Tasks
    BY <1>1, Amounts
  <2>2. CASE at'[w] = "settleToken"
    BY <1>1, <1>2, <2>1, <2>2, TaskSets DEF TypeOK, KeptBooks, Quiet, SettleFunding, Goto, row,
       copyVars, Billing, Refunding, Settling
  <2>3. CASE UNCHANGED held /\ at' = [at EXCEPT ![w] = "idle"]
    <3>1. on[w] \in Kept
            => held[on[w]] = copy[w] /\ heldToken[on[w]] = copy[w] /\ quota[on[w]] = copy[w]
      BY <1>2 DEF MidFunding, MidToken, SettleFunding
    <3>2. UNCHANGED <<held, heldToken, quota, on, dropped>>
      BY <2>3 DEF SettleFunding, row, copyVars
    <3>3. ASSUME NEW t \in Tasks, t # on[w], Quiet(t)' PROVE Quiet(t)
      BY <1>1, <2>3, <3>2, <3>3 DEF TypeOK, Quiet
    <3> QED
      BY <1>2, <3>1, <3>2, <3>3, TaskSets DEF KeptBooks
  <2> QED
    BY <1>1, <2>2, <2>3 DEF TypeOK, SettleFunding, Goto
<1>11. KeptNotOverRefunded'
  BY <1>1, <1>2, TaskConstants, TaskSets DEF TypeOK, KeptNotOverRefunded, SavesAQuota,
     MidFunding, MidToken, RunningBooks, SettleFunding, Goto, row, copyVars, Running, Terminal,
     Billing, Refunding, Settling
<1> QED
  BY <1>3, <1>4, <1>5, <1>6, <1>7, <1>8, <1>9, <1>10, <1>11 DEF BooksInv

LEMMA SettleTokenKeepsBooks ==
  ASSUME ~SettleFailing, BooksInv,
         NEW w \in Workers,
         SettleToken(w)
  PROVE  BooksInv'
<1>1. /\ TypeOK /\ SavesAQuota /\ ReadRunning /\ FollowsUpstream /\ OneBiller
      /\ BilledWhenEnded /\ FirstRefund /\ GuardedRefunds
  BY DEF BooksInv, RefundInv
<1>2. /\ RunningBooks /\ CopyFresh /\ BillingFits /\ MidFunding /\ MidToken
      /\ FailedHasNoQuota /\ KeptBooks /\ KeptNotOverRefunded
  BY DEF BooksInv
<1>3. RefundInv'
  BY SettleTokenKeepsRefunds DEF BooksInv
<1>4. RunningBooks'
  BY <1>1, <1>2, TaskConstants, TaskSets DEF TypeOK, BilledWhenEnded, RunningBooks, ReadRunning,
     CopyFresh, Quiet, SettleToken, Goto, row, copyVars, Running, Terminal, Billing, Refunding,
     Settling
<1>5. CopyFresh'
  BY <1>1, <1>2, TaskConstants, TaskSets DEF TypeOK, CopyFresh, ReadRunning, BillingFits,
     SettleToken, Goto, row, copyVars, Running, Terminal, Billing, Refunding, Settling
<1>6. BillingFits'
  BY <1>1, <1>2, TaskConstants, TaskSets DEF TypeOK, BillingFits, ReadRunning, OneBiller,
     BilledWhenEnded, Quiet, SettleToken, Goto, row, copyVars, Running, Terminal, Billing,
     Refunding, Settling
<1>7. MidFunding'
  BY <1>1, <1>2, TaskConstants, TaskSets DEF TypeOK, MidFunding, OneBiller, ReadRunning,
     RunningBooks, CopyFresh, BilledWhenEnded, Quiet, SettleToken, Goto, row, copyVars, Running,
     Terminal, Billing, Refunding, Settling
<1>8. MidToken'
  BY <1>1, <1>2, TaskConstants, TaskSets DEF TypeOK, MidToken, OneBiller, ReadRunning,
     RunningBooks, CopyFresh, BilledWhenEnded, Quiet, SettleToken, Goto, row, copyVars, Running,
     Terminal, Billing, Refunding, Settling
<1>9. FailedHasNoQuota'
  BY <1>1, <1>2, TaskConstants, TaskSets DEF TypeOK, FailedHasNoQuota, OneBiller, ReadRunning,
     CopyFresh, BillingFits, BilledWhenEnded, Quiet, SettleToken, Goto, row, copyVars, Running,
     Terminal, Billing, Refunding, Settling
<1>10. KeptBooks'
  BY <1>1, <1>2, TaskConstants, TaskSets DEF TypeOK, KeptBooks, OneBiller, ReadRunning,
     RunningBooks, CopyFresh, BilledWhenEnded, MidFunding, MidToken, Quiet, SettleToken, Goto,
     row, copyVars, Running, Terminal, Billing, Refunding, Settling
<1>11. KeptNotOverRefunded'
  BY <1>1, <1>2, TaskConstants, TaskSets DEF TypeOK, KeptNotOverRefunded, SavesAQuota,
     MidFunding, MidToken, RunningBooks, SettleToken, Goto, row, copyVars, Running, Terminal,
     Billing, Refunding, Settling
<1> QED
  BY <1>3, <1>4, <1>5, <1>6, <1>7, <1>8, <1>9, <1>10, <1>11 DEF BooksInv

LEMMA SaveQuotaKeepsBooks ==
  ASSUME ~SettleFailing, BooksInv,
         NEW w \in Workers,
         SaveQuota(w)
  PROVE  BooksInv'
<1>1. /\ TypeOK /\ SavesAQuota /\ ReadRunning /\ FollowsUpstream /\ OneBiller
      /\ BilledWhenEnded /\ FirstRefund /\ GuardedRefunds
  BY DEF BooksInv, RefundInv
<1>2. /\ RunningBooks /\ CopyFresh /\ BillingFits /\ MidFunding /\ MidToken
      /\ FailedHasNoQuota /\ KeptBooks /\ KeptNotOverRefunded
  BY DEF BooksInv
<1>3. RefundInv'
  BY SaveQuotaKeepsRefunds DEF BooksInv
<1>4. RunningBooks'
  BY <1>1, <1>2, TaskConstants, TaskSets DEF TypeOK, BilledWhenEnded, RunningBooks, ReadRunning,
     CopyFresh, Quiet, SaveQuota, Goto, ledgers, copyVars, Running, Terminal, Billing,
     Refunding, Settling
<1>5. CopyFresh'
  BY <1>1, <1>2, TaskConstants, TaskSets DEF TypeOK, CopyFresh, ReadRunning, BillingFits,
     SaveQuota, Goto, ledgers, copyVars, Running, Terminal, Billing, Refunding, Settling
<1>6. BillingFits'
  BY <1>1, <1>2, TaskConstants, TaskSets DEF TypeOK, BillingFits, ReadRunning, OneBiller,
     BilledWhenEnded, Quiet, SaveQuota, Goto, ledgers, copyVars, Running, Terminal, Billing,
     Refunding, Settling
<1>7. MidFunding'
  BY <1>1, <1>2, TaskConstants, TaskSets DEF TypeOK, MidFunding, OneBiller, ReadRunning,
     RunningBooks, CopyFresh, BilledWhenEnded, Quiet, SaveQuota, Goto, ledgers, copyVars,
     Running, Terminal, Billing, Refunding, Settling
<1>8. MidToken'
  BY <1>1, <1>2, TaskConstants, TaskSets DEF TypeOK, MidToken, OneBiller, ReadRunning,
     RunningBooks, CopyFresh, BilledWhenEnded, Quiet, SaveQuota, Goto, ledgers, copyVars,
     Running, Terminal, Billing, Refunding, Settling
<1>9. FailedHasNoQuota'
  BY <1>1, <1>2, TaskConstants, TaskSets DEF TypeOK, FailedHasNoQuota, OneBiller, ReadRunning,
     CopyFresh, BillingFits, BilledWhenEnded, Quiet, SaveQuota, Goto, ledgers, copyVars,
     Running, Terminal, Billing, Refunding, Settling
<1>10. KeptBooks'
  BY <1>1, <1>2, TaskConstants, TaskSets DEF TypeOK, KeptBooks, OneBiller, ReadRunning,
     RunningBooks, CopyFresh, BilledWhenEnded, MidFunding, MidToken, Quiet, SaveQuota, Goto,
     ledgers, copyVars, Running, Terminal, Billing, Refunding, Settling
<1>11. KeptNotOverRefunded'
  BY <1>1, <1>2, TaskConstants, TaskSets DEF TypeOK, KeptNotOverRefunded, SavesAQuota,
     MidFunding, MidToken, RunningBooks, SaveQuota, Goto, ledgers, copyVars, Running, Terminal,
     Billing, Refunding, Settling
<1> QED
  BY <1>3, <1>4, <1>5, <1>6, <1>7, <1>8, <1>9, <1>10, <1>11 DEF BooksInv

LEMMA CrashKeepsBooks ==
  ASSUME ~SettleFailing, BooksInv,
         NEW w \in Workers,
         Crash(w)
  PROVE  BooksInv'
<1>1. /\ TypeOK /\ SavesAQuota /\ ReadRunning /\ FollowsUpstream /\ OneBiller
      /\ BilledWhenEnded /\ FirstRefund /\ GuardedRefunds
  BY DEF BooksInv, RefundInv
<1>2. /\ RunningBooks /\ CopyFresh /\ BillingFits /\ MidFunding /\ MidToken
      /\ FailedHasNoQuota /\ KeptBooks /\ KeptNotOverRefunded
  BY DEF BooksInv
<1>3. RefundInv'
  BY CrashKeepsRefunds DEF BooksInv
<1>4. RunningBooks'
  BY <1>1, <1>2, TaskConstants, TaskSets DEF TypeOK, BilledWhenEnded, RunningBooks, ReadRunning,
     CopyFresh, Quiet, Crash, Goto, row, ledgers, copyVars, Running, Terminal, Billing,
     Refunding, Settling
<1>5. CopyFresh'
  BY <1>1, <1>2, TaskConstants, TaskSets DEF TypeOK, CopyFresh, ReadRunning, BillingFits, Crash,
     Goto, row, ledgers, copyVars, Running, Terminal, Billing, Refunding, Settling
<1>6. BillingFits'
  BY <1>1, <1>2, TaskConstants, TaskSets DEF TypeOK, BillingFits, ReadRunning, OneBiller,
     BilledWhenEnded, Quiet, Crash, Goto, row, ledgers, copyVars, Running, Terminal, Billing,
     Refunding, Settling
<1>7. MidFunding'
  BY <1>1, <1>2, TaskConstants, TaskSets DEF TypeOK, MidFunding, OneBiller, ReadRunning,
     RunningBooks, CopyFresh, BilledWhenEnded, Quiet, Crash, Goto, row, ledgers, copyVars,
     Running, Terminal, Billing, Refunding, Settling
<1>8. MidToken'
  BY <1>1, <1>2, TaskConstants, TaskSets DEF TypeOK, MidToken, OneBiller, ReadRunning,
     RunningBooks, CopyFresh, BilledWhenEnded, Quiet, Crash, Goto, row, ledgers, copyVars,
     Running, Terminal, Billing, Refunding, Settling
<1>9. FailedHasNoQuota'
  BY <1>1, <1>2, TaskConstants, TaskSets DEF TypeOK, FailedHasNoQuota, OneBiller, ReadRunning,
     CopyFresh, BillingFits, BilledWhenEnded, Quiet, Crash, Goto, row, ledgers, copyVars,
     Running, Terminal, Billing, Refunding, Settling
<1>10. KeptBooks'
  BY <1>1, <1>2, TaskConstants, TaskSets DEF TypeOK, KeptBooks, OneBiller, ReadRunning,
     RunningBooks, CopyFresh, BilledWhenEnded, MidFunding, MidToken, Quiet, Crash, Goto, row,
     ledgers, copyVars, Running, Terminal, Billing, Refunding, Settling
<1>11. KeptNotOverRefunded'
  BY <1>1, <1>2, TaskConstants, TaskSets DEF TypeOK, KeptNotOverRefunded, SavesAQuota,
     MidFunding, MidToken, RunningBooks, Crash, Goto, row, ledgers, copyVars, Running, Terminal,
     Billing, Refunding, Settling
<1> QED
  BY <1>3, <1>4, <1>5, <1>6, <1>7, <1>8, <1>9, <1>10, <1>11 DEF BooksInv

LEMMA StepKeepsBooks ==
  ASSUME ~SettleFailing, BooksInv, [Next]_vars
  PROVE  BooksInv'
<1>1. CASE UNCHANGED vars
  BY <1>1 DEF BooksInv, RefundInv, TypeOK, SavesAQuota, ReadRunning, FollowsUpstream, OneBiller,
     BilledWhenEnded, FirstRefund, GuardedRefunds, Quiet, RunningBooks, CopyFresh, BillingFits,
     MidFunding, MidToken, FailedHasNoQuota, KeptBooks, KeptNotOverRefunded, vars, row, ledgers,
     copyVars
<1>2. CASE \E t \in Tasks, pre \in Quotas, q \in Quotas : Submit(t, pre, q)
  BY <1>2, SubmitKeepsBooks
<1>3. CASE \E t \in Tasks, s \in Terminal : UpstreamEnds(t, s)
  BY <1>3, UpstreamEndsKeepsBooks
<1>4. CASE \E w \in Workers, t \in Tasks : LoadSweep(w, t)
  BY <1>4, LoadSweepKeepsBooks
<1>5. CASE \E w \in Workers, t \in Tasks : LoadPoll(w, t)
  BY <1>5, LoadPollKeepsBooks
<1>6. CASE \E w \in Workers, t \in Tasks : LoadFetch(w, t)
  BY <1>6, LoadFetchKeepsBooks
<1>7. CASE \E w \in Workers, s \in Running \cup Terminal : Answer(w, s)
  BY <1>7, AnswerKeepsBooks
<1>8. CASE \E w \in Workers : NoAnswer(w)
  BY <1>8, NoAnswerKeepsBooks
<1>9. CASE \E w \in Workers : ChannelLost(w)
  BY <1>9, ChannelLostKeepsBooks
<1>10. CASE \E w \in Workers : Write(w)
  BY <1>10, WriteKeepsBooks
<1>11. CASE \E w \in Workers : RefundFunding(w)
  BY <1>11, RefundFundingKeepsBooks
<1>12. CASE \E w \in Workers : RefundToken(w)
  BY <1>12, RefundTokenKeepsBooks
<1>13. CASE \E w \in Workers : ClearQuota(w)
  BY <1>13, ClearQuotaKeepsBooks
<1>14. CASE \E w \in Workers, q \in Quotas : SettleFunding(w, q)
  BY <1>14, SettleFundingKeepsBooks
<1>15. CASE \E w \in Workers : SettleToken(w)
  BY <1>15, SettleTokenKeepsBooks
<1>16. CASE \E w \in Workers : SaveQuota(w)
  BY <1>16, SaveQuotaKeepsBooks
<1>17. CASE \E w \in Workers : Crash(w)
  BY <1>17, CrashKeepsBooks
<1> QED
  BY <1>1, <1>2, <1>3, <1>4, <1>5, <1>6, <1>7, <1>8, <1>9, <1>10, <1>11, <1>12, <1>13, <1>14,
     <1>15, <1>16,
     <1>17 DEF Next, Work

-----------------------------------------------------------------------------
(* The theorems.                                                              *)

LEMMA InitRefunds == Init => RefundInv
<1> SUFFICES ASSUME Init PROVE RefundInv
  OBVIOUS
<1>1. TypeOK
  BY TaskConstants, TaskSets DEF Init, TypeOK, Running, Terminal, Billing, Refunding, Settling
<1>2. SavesAQuota /\ ReadRunning /\ FollowsUpstream /\ OneBiller /\ FirstRefund
  BY TaskConstants, TaskSets DEF Init, SavesAQuota, ReadRunning, FollowsUpstream, OneBiller,
     FirstRefund, Running, Terminal, Billing, Refunding, Settling
<1>3. BilledWhenEnded /\ GuardedRefunds
  BY TaskConstants, TaskSets DEF Init, BilledWhenEnded, Quiet, GuardedRefunds, Billing, Refunding,
     Settling
<1> QED
  BY <1>1, <1>2, <1>3 DEF RefundInv

LEMMA InitBooks == Init => BooksInv
<1> SUFFICES ASSUME Init PROVE BooksInv
  OBVIOUS
<1>1. RunningBooks /\ CopyFresh /\ BillingFits /\ MidFunding /\ MidToken
  BY TaskConstants, TaskSets DEF Init, RunningBooks, CopyFresh, BillingFits, MidFunding,
     MidToken, Refunding, Settling
<1>2. FailedHasNoQuota /\ KeptBooks /\ KeptNotOverRefunded
  BY TaskConstants, TaskSets DEF Init, FailedHasNoQuota, KeptBooks, KeptNotOverRefunded
<1> QED
  BY <1>1, <1>2, InitRefunds DEF BooksInv

\* The invariant of the refunds: readers saw a running row, one worker bills a
\* task, and only after its terminal write (UpdateWithStatus).
THEOREM RefundInvariant == Spec => []RefundInv
<1>1. Init => RefundInv
  BY InitRefunds
<1>2. RefundInv /\ [Next]_vars => RefundInv'
  BY StepKeepsRefunds
<1> QED
  BY <1>1, <1>2, PTL DEF Spec

\* No overlap of polls and sweeps, no failure and no crash refunds a guarded task
\* twice, whatever fetches and lost channels do to other tasks (updateSunoTasks,
\* updateVideoSingleTask, sweepTimedOutTasks).
THEOREM RefundOnceGuarded == Spec => []GuardedRefunds
<1>1. RefundInv => GuardedRefunds
  BY DEF RefundInv
<1> QED
  BY <1>1, RefundInvariant, PTL

\* So no task is refunded twice when all are guarded: when users fetch none, or when
\* what they fetch is ended by the upstream alone.
THEOREM RefundOnce ==
  ASSUME Guarded = Tasks
  PROVE  Spec => []RefundedAtMostOnce
<1>1. GuardedRefunds => RefundedAtMostOnce
  BY DEF GuardedRefunds, RefundedAtMostOnce
<1> QED
  BY <1>1, RefundOnceGuarded, PTL

\* The invariant of the books: what a kept task holds at every step of its billing.
THEOREM BooksInvariant ==
  ASSUME ~SettleFailing
  PROVE  Spec => []BooksInv
<1>1. Init => BooksInv
  BY InitBooks
<1>2. BooksInv /\ [Next]_vars => BooksInv'
  BY StepKeepsBooks
<1> QED
  BY <1>1, <1>2, PTL DEF Spec

\* Task.Quota is what a kept task holds whenever nobody bills it, unless a step of
\* its billing was lost; and no refund or settlement returns more than it paid.
THEOREM KeptBooksHold ==
  ASSUME ~SettleFailing
  PROVE  Spec => [](KeptBooks /\ KeptNotOverRefunded)
<1>1. BooksInv => KeptBooks /\ KeptNotOverRefunded
  BY DEF BooksInv
<1> QED
  BY <1>1, BooksInvariant, PTL

\* Task.Quota is what the task holds whenever nobody bills it, unless a step of its
\* billing was lost.
THEOREM BooksHold ==
  ASSUME Kept = Tasks, ~SettleFailing
  PROVE  Spec => []BooksAgree
<1>1. KeptBooks => BooksAgree
  BY DEF KeptBooks, BooksAgree
<1> QED
  BY <1>1, KeptBooksHold, PTL

\* A failed task that is not being refunded holds nothing, unless a step of its
\* refund was lost (RefundTaskQuota). A user's fetch fails a task without a refund.
THEOREM FailuresRefunded ==
  ASSUME Realtime = {}, ChannelLoss = {}, ~SettleFailing
  PROVE  Spec => []FailedIsRefunded
<1>1. Kept = Tasks
  BY DEF Kept, Guarded
<1>2. BooksInv => FailedIsRefunded
  BY <1>1 DEF BooksInv, KeptBooks, FailedHasNoQuota, FailedIsRefunded
<1> QED
  BY <1>2, BooksInvariant, PTL

\* No refund and no settlement returns more than the task paid, lost steps included.
THEOREM NoOverRefund ==
  ASSUME Kept = Tasks, ~SettleFailing
  PROVE  Spec => []NeverOverRefunded
<1>1. KeptNotOverRefunded => NeverOverRefunded
  BY DEF KeptNotOverRefunded, NeverOverRefunded
<1> QED
  BY <1>1, KeptBooksHold, PTL

\* The row of a kept task is written by guarded updates only, from a running status.
LEMMA TerminalKept ==
  ASSUME RefundInv, [Next]_vars, NEW u \in Kept, status[u] \in Terminal
  PROVE  status'[u] = status[u]
<1>1. TypeOK /\ ReadRunning /\ u \in Tasks /\ u \in Guarded /\ u \notin ChannelLoss
  BY TaskSets DEF RefundInv
<1>2. CASE UNCHANGED vars
  BY <1>2 DEF vars, row
<1>3. CASE \E t \in Tasks, pre, q \in Quotas : Submit(t, pre, q)
  BY <1>1, <1>3 DEF TypeOK, Submit, Terminal
<1>4. CASE \E w \in Workers : Write(w)
  BY <1>1, <1>4 DEF TypeOK, ReadRunning, Write, CasWins, row, Running, Terminal
<1>5. CASE \E t \in Tasks, s \in Terminal : UpstreamEnds(t, s)
  BY <1>5 DEF UpstreamEnds, row
<1>6. CASE \E w \in Workers, t \in Tasks : LoadSweep(w, t) \/ LoadPoll(w, t) \/ LoadFetch(w, t)
  BY <1>6 DEF LoadSweep, LoadPoll, LoadFetch, Read, row
<1>7. CASE \E w \in Workers, s \in Running \cup Terminal : Answer(w, s)
  BY <1>7 DEF Answer, row
<1>8. CASE \E w \in Workers : NoAnswer(w) \/ ChannelLost(w) \/ Crash(w)
  BY <1>1, <1>8 DEF TypeOK, NoAnswer, ChannelLost, Crash, row
<1>9. CASE \E w \in Workers : RefundFunding(w) \/ RefundToken(w) \/ ClearQuota(w)
  BY <1>9 DEF RefundFunding, RefundToken, ClearQuota, row
<1>10. CASE \E w \in Workers :
              SettleToken(w) \/ SaveQuota(w) \/ \E q \in Quotas : SettleFunding(w, q)
  BY <1>10 DEF SettleToken, SaveQuota, SettleFunding, row
<1> QED
  BY <1>2, <1>3, <1>4, <1>5, <1>6, <1>7, <1>8, <1>9, <1>10 DEF Next, Work

\* A terminal status of a kept task is final, whatever the other workers have read
\* before it was written (UpdateWithStatus).
THEOREM TerminalFinal ==
  ASSUME Kept = Tasks
  PROVE  Spec => TerminalStays
<1>1. RefundInv /\ [Next]_vars
        => [\A t \in Tasks : status[t] \in Terminal => status'[t] = status[t]]_vars
  BY TerminalKept
<1> QED
  BY <1>1, RefundInvariant, PTL DEF Spec, TerminalStays

-----------------------------------------------------------------------------
(* The promise of TaskCharges.  The charge of an ended task is due while its  *)
(* one biller has yet to move it; every other step leaves the promise alone.  *)

\* A worker that goes from one label to another changes what is due for its own
\* task only, and takes it off what is due if nobody else deals with the task.
LEMMA DueMoves ==
  ASSUME TypeOK, NEW CONSTANT L, NEW w \in Workers, NEW l,
         UNCHANGED on, at' = [at EXCEPT ![w] = l]
  PROVE  /\ l \in L => DealtAt(L)' = DealtAt(L) \cup ({on[w]} \cap Kept)
         /\ l \notin L /\ at[w] \notin L => DealtAt(L)' = DealtAt(L)
         /\ on[w] \notin Kept => DealtAt(L)' = DealtAt(L)
         /\ l \notin L /\ (\A v \in Workers : on[v] = on[w] /\ at[v] \in L => v = w)
              => DealtAt(L)' = DealtAt(L) \ {on[w]}
<1>1. \A v \in Workers : on'[v] = on[v] /\ at'[v] = IF v = w THEN l ELSE at[v]
  BY DEF TypeOK
<1>2. on[w] \in Tasks
  BY DEF TypeOK
<1>3. \A t \in Kept : t \in DealtAt(L)' <=> \E v \in Workers : on[v] = t /\ at'[v] \in L
  BY <1>1 DEF DealtAt
<1> QED
  BY <1>1, <1>2, <1>3 DEF DealtAt

\* A worker that takes a row is not billing, before or after.
LEMMA ReadKeepsDue ==
  ASSUME TypeOK, NEW CONSTANT L, L \subseteq Billing, NEW w \in Workers, NEW t \in Tasks,
         NEW l \in {"fetch", "write"}, Read(w, t, l)
  PROVE  DealtAt(L)' = DealtAt(L)
<1>1. at[w] \notin L /\ l \notin L
  BY DEF Read, Billing, Refunding, Settling
<1>2. \A v \in Workers : v # w => on'[v] = on[v] /\ at'[v] = at[v]
  BY DEF TypeOK, Read
<1>3. at'[w] = l
  BY DEF TypeOK, Read
<1> QED
  BY <1>1, <1>2, <1>3 DEF DealtAt

\* The steps that move no ledger and no kept task out of a running status.
LEMMA IdleKeepsPromise ==
  ASSUME BooksInv, NEW CONSTANT L, L \subseteq Billing,
         \/ UNCHANGED vars
         \/ \E t \in Tasks, s \in Terminal : UpstreamEnds(t, s)
         \/ \E w \in Workers, t \in Tasks : LoadSweep(w, t) \/ LoadPoll(w, t) \/ LoadFetch(w, t)
         \/ \E w \in Workers, s \in Running \cup Terminal : Answer(w, s)
         \/ \E w \in Workers : NoAnswer(w) \/ ChannelLost(w)
  PROVE  UNCHANGED <<KeptStatus, held, heldToken>> /\ DealtAt(L)' = DealtAt(L)
<1>1. TypeOK
  BY DEF BooksInv, RefundInv
<1>2. CASE UNCHANGED vars
  BY <1>2 DEF vars, row, ledgers, copyVars, KeptStatus, DealtAt
<1>3. CASE \E t \in Tasks, s \in Terminal : UpstreamEnds(t, s)
  BY <1>3 DEF UpstreamEnds, row, ledgers, copyVars, KeptStatus, DealtAt
<1>4. CASE \E w \in Workers, t \in Tasks : LoadSweep(w, t) \/ LoadPoll(w, t) \/ LoadFetch(w, t)
  <2>1. PICK w \in Workers, t \in Tasks : Read(w, t, "fetch") \/ Read(w, t, "write")
    BY <1>4 DEF LoadSweep, LoadPoll, LoadFetch
  <2>2. UNCHANGED <<status, held, heldToken>>
    BY <2>1 DEF Read, row, ledgers
  <2>3. DealtAt(L)' = DealtAt(L)
    BY <1>1, <2>1, ReadKeepsDue
  <2> QED
    BY <2>2, <2>3 DEF KeptStatus
<1>5. ASSUME NEW w \in Workers, NEW s \in Running \cup Terminal, Answer(w, s)
      PROVE  UNCHANGED <<KeptStatus, held, heldToken>> /\ DealtAt(L)' = DealtAt(L)
  <2>1. at[w] \notin L /\ "write" \notin L
    BY <1>5 DEF Answer, Billing, Refunding, Settling
  <2>2. UNCHANGED on /\ at' = [at EXCEPT ![w] = "write"]
    BY <1>5 DEF Answer
  <2> QED
    BY <1>1, <1>5, <2>1, <2>2, DueMoves DEF Answer, row, ledgers, KeptStatus
<1>6. ASSUME NEW w \in Workers, NoAnswer(w) \/ ChannelLost(w)
      PROVE  UNCHANGED <<KeptStatus, held, heldToken>> /\ DealtAt(L)' = DealtAt(L)
  <2>1. at[w] \notin L /\ "idle" \notin L
    BY <1>6 DEF NoAnswer, ChannelLost, Billing, Refunding, Settling
  <2>2. UNCHANGED on /\ at' = [at EXCEPT ![w] = "idle"]
    BY <1>6 DEF NoAnswer, ChannelLost, copyVars
  <2>3. UNCHANGED KeptStatus
    BY <1>1, <1>6, TaskSets DEF TypeOK, NoAnswer, ChannelLost, row, KeptStatus
  <2> QED
    BY <1>1, <1>6, <2>1, <2>2, <2>3, DueMoves DEF NoAnswer, ChannelLost, ledgers
<1> QED
  BY <1>2, <1>3, <1>4, <1>5, <1>6

\* The submission of a kept task charges it for its quota.
LEMMA SubmitCharges ==
  ASSUME BooksInv, ~SettleFailing, NEW CONSTANT L,
         NEW t \in Tasks, NEW pre \in Quotas, NEW q \in Quotas, Submit(t, pre, q)
  PROVE  /\ DealtAt(L)' = DealtAt(L)
         /\ held' = [held EXCEPT ![t] = q] /\ heldToken' = [heldToken EXCEPT ![t] = q]
         /\ t \in Kept => /\ KeptStatus[t] = "none"
                         /\ KeptStatus' = [KeptStatus EXCEPT ![t] = "running"]
         /\ t \notin Kept => UNCHANGED KeptStatus
<1>1. TypeOK
  BY DEF BooksInv, RefundInv
<1>2. status[t] = "none" /\ status' = [status EXCEPT ![t] = "NOT_START"]
  BY DEF Submit
<1>3. UNCHANGED <<at, on>>
  BY DEF Submit, copyVars
<1>4. held' = [held EXCEPT ![t] = q] /\ heldToken' = [heldToken EXCEPT ![t] = q]
  <2>1. PICK n \in {<<q, q>>} \cup (IF SettleFailing THEN {<<pre, pre>>, <<q, pre>>} ELSE {}) :
          /\ held' = [held EXCEPT ![t] = n[1]]
          /\ heldToken' = [heldToken EXCEPT ![t] = n[2]]
    BY DEF Submit
  <2>2. n = <<q, q>>
    BY <2>1
  <2>3. n[1] = q /\ n[2] = q
    BY <2>2
  <2> QED
    BY <2>1, <2>3
<1> QED
  BY <1>1, <1>2, <1>3, <1>4, TaskSets DEF TypeOK, DealtAt, KeptStatus, Running

\* A write ends a kept task that was running, or changes nothing of the promise.
LEMMA WriteEnds ==
  ASSUME BooksInv, NEW CONSTANT L, {"refund", "settle"} \subseteq L, L \subseteq Billing,
         NEW w \in Workers, Write(w)
  PROVE  \/ UNCHANGED KeptStatus /\ DealtAt(L)' = DealtAt(L)
         \/ /\ on[w] \in Kept /\ to[w] \in Terminal /\ KeptStatus[on[w]] = "running"
            /\ KeptStatus' = [KeptStatus EXCEPT ![on[w]] = to[w]]
            /\ DealtAt(L)' = DealtAt(L) \/ DealtAt(L)' = DealtAt(L) \cup {on[w]}
<1>1. TypeOK /\ ReadRunning
  BY DEF BooksInv, RefundInv
<1>2. at[w] \notin L /\ "idle" \notin L /\ UNCHANGED on
  BY DEF Write, copyVars, Billing, Refunding, Settling
<1>3. CASE UNCHANGED status /\ at' = [at EXCEPT ![w] = "idle"]
  BY <1>1, <1>2, <1>3, DueMoves DEF KeptStatus
<1>4. CASE /\ status[on[w]] = from[w] /\ status' = [status EXCEPT ![on[w]] = to[w]]
           /\ at' = [at EXCEPT ![w] = AfterWrite(w)]
  <2>1. CASE on[w] \notin Kept
    <3>1. DealtAt(L)' = DealtAt(L)
      BY <1>1, <1>2, <1>4, <2>1, DueMoves
    <3> QED
      BY <1>1, <1>4, <2>1, <3>1, TaskSets DEF TypeOK, KeptStatus
  <2>2. CASE on[w] \in Kept
    <3>1. from[w] \in Running /\ to[w] # "none" /\ to[w] \in Running \cup Terminal
      BY <1>1, <2>2, TaskSets DEF TypeOK, ReadRunning, Write
    <3>2. AfterWrite(w) \in {"idle", "refund", "settle"}
      BY DEF AfterWrite
    <3>3. DealtAt(L)' = DealtAt(L) \/ DealtAt(L)' = DealtAt(L) \cup {on[w]}
      BY <1>1, <1>2, <1>4, <2>2, <3>2, DueMoves
    <3>4. CASE to[w] \in Terminal
      BY <1>1, <1>4, <2>2, <3>1, <3>3, <3>4, TaskSets DEF TypeOK, KeptStatus, Running, Terminal
    <3>5. CASE to[w] \in Running
      <4>1. AfterWrite(w) = "idle"
        BY <3>5 DEF AfterWrite, Running
      <4>2. DealtAt(L)' = DealtAt(L)
        BY <1>1, <1>2, <1>4, <4>1, DueMoves
      <4> QED
        BY <1>1, <1>4, <2>2, <3>1, <3>5, <4>2, TaskSets DEF TypeOK, KeptStatus, Running
    <3> QED
      BY <3>1, <3>4, <3>5
  <2> QED
    BY <2>1, <2>2
<1> QED
  BY <1>3, <1>4 DEF Write, CasWins, AfterLoss, row

\* The one biller of a kept task goes from one label to another.
LEMMA BillerMoves ==
  ASSUME BooksInv, NEW CONSTANT L, L \subseteq Billing, NEW w \in Workers, NEW l,
         at[w] \in Billing, UNCHANGED <<status, on>>, at' = [at EXCEPT ![w] = l]
  PROVE  /\ UNCHANGED KeptStatus
         /\ on[w] \notin Kept => DealtAt(L)' = DealtAt(L)
         /\ l \notin L => DealtAt(L)' = DealtAt(L) \ {on[w]}
         /\ (l \in L <=> at[w] \in L) => DealtAt(L)' = DealtAt(L)
         /\ at[w] \in L /\ on[w] \in Kept => on[w] \in DealtAt(L)
<1>1. TypeOK /\ OneBiller
  BY DEF BooksInv, RefundInv
<1>2. UNCHANGED KeptStatus
  BY DEF KeptStatus
<1>3. at[w] \in L /\ on[w] \in Kept => on[w] \in DealtAt(L)
  BY DEF DealtAt
<1>4. on[w] \in Kept => \A v \in Workers : on[v] = on[w] /\ at[v] \in L => v = w
  BY <1>1, TaskSets DEF OneBiller
<1>5. on[w] \notin Kept => DealtAt(L)' = DealtAt(L) /\ DealtAt(L) = DealtAt(L) \ {on[w]}
  <2>1. on[w] \notin Kept => on[w] \notin DealtAt(L)
    BY DEF DealtAt
  <2> QED
    BY <1>1, <2>1, DueMoves
<1>6. on[w] \in Kept /\ l \notin L => DealtAt(L)' = DealtAt(L) \ {on[w]}
  BY <1>1, <1>4, DueMoves
<1>7. (l \in L <=> at[w] \in L) => DealtAt(L)' = DealtAt(L)
  <2>1. CASE l \in L /\ at[w] \in L
    <3>1. DealtAt(L)' = DealtAt(L) \cup ({on[w]} \cap Kept)
      BY <1>1, <2>1, DueMoves
    <3> QED
      BY <1>3, <2>1, <3>1
  <2>2. CASE l \notin L /\ at[w] \notin L
    BY <1>1, <2>2, DueMoves
  <2> QED
    BY <2>1, <2>2
<1> QED
  BY <1>2, <1>3, <1>5, <1>6, <1>7

\* A step of a biller is a step of the promise to the funding source.
LEMMA BillerKeepsSource ==
  ASSUME BooksInv, NEW w \in Workers, NEW q,
         \/ RefundFunding(w) \/ RefundToken(w) \/ ClearQuota(w)
         \/ q \in Quotas /\ SettleFunding(w, q)
         \/ SettleToken(w) \/ SaveQuota(w) \/ Crash(w)
  PROVE  [Source!Next]_<<KeptStatus, [t \in Kept |-> held[t]], DealtAt({"refund", "settle"})>>
<1> DEFINE L == {"refund", "settle"}
           H == [t \in Kept |-> held[t]]
<1>0. TypeOK /\ BillingFits /\ MidFunding
  BY DEF BooksInv, RefundInv
<1>1. PICK u \in Tasks : u = on[w]
  BY <1>0 DEF TypeOK
<1>2. copy[w] \in Nat /\ held[u] \in Int /\ held \in [Tasks -> Int]
  BY <1>0, <1>1, Amounts DEF TypeOK
<1>3. L \subseteq Billing
  BY DEF Billing, Refunding, Settling
<1>4. UNCHANGED <<status, on>>
  BY DEF RefundFunding, RefundToken, ClearQuota, SettleFunding, SettleToken, SaveQuota, Crash, row,
         copyVars
<1>5. ASSUME at[w] \in L, at' = [at EXCEPT ![w] = "idle"], UNCHANGED held
      PROVE  [Source!Next]_<<KeptStatus, H, DealtAt(L)>>
  <2>1. at[w] \in Billing
    BY <1>3, <1>5
  <2>2. /\ UNCHANGED KeptStatus
        /\ DealtAt(L)' = DealtAt(L) \ {u}
        /\ u \notin Kept => DealtAt(L)' = DealtAt(L)
        /\ u \in Kept => u \in DealtAt(L)
    <3>1. "idle" \notin L
      OBVIOUS
    <3> QED
      BY <1>1, <1>3, <1>4, <1>5, <2>1, <3>1, BillerMoves
  <2>3. H' = H
    BY <1>5
  <2>4. u \in Kept => Source!Leave(u)
    BY <2>2, <2>3 DEF Source!Leave
  <2>5. u \in Kept => Source!Next
    BY <2>4 DEF Source!Next
  <2> QED
    BY <2>2, <2>3, <2>5
<1>6. ASSUME at[w] \notin L, NEW l \in {"idle", "clear", "save"}, at' = [at EXCEPT ![w] = l],
             UNCHANGED held
      PROVE  [Source!Next]_<<KeptStatus, H, DealtAt(L)>>
  <2>1. DealtAt(L)' = DealtAt(L)
    BY <1>0, <1>4, <1>6, DueMoves
  <2> QED
    BY <1>4, <1>6, <2>1 DEF KeptStatus
<1>7. CASE RefundFunding(w) /\ at'[w] # "idle"
  <2>1. /\ at[w] = "refund" /\ at' = [at EXCEPT ![w] = "refundToken"]
        /\ held' = [held EXCEPT ![u] = @ - copy[w]]
    BY <1>0, <1>1, <1>7 DEF TypeOK, RefundFunding, Goto
  <2>2. /\ UNCHANGED KeptStatus
        /\ DealtAt(L)' = DealtAt(L) \ {u}
        /\ u \notin Kept => DealtAt(L)' = DealtAt(L)
        /\ u \in Kept => u \in DealtAt(L)
    <3>1. at[w] \in Billing /\ at[w] \in L /\ "refundToken" \notin L
      BY <2>1 DEF Billing, Refunding
    <3> QED
      BY <1>1, <1>3, <1>4, <2>1, <3>1, BillerMoves
  <2>3. CASE u \in Kept
    <3>1. KeptStatus[u] = "FAILURE"
      BY <1>0, <1>1, <2>1, <2>3 DEF BillingFits, KeptStatus, Running, Refunding
    <3>2. held' = [held EXCEPT ![u] = 0]
      <4>1. held[u] - copy[w] = 0
        BY <1>0, <1>1, <1>2, <2>1, <2>3 DEF MidFunding
      <4> QED
        BY <2>1, <4>1
    <3>3. H' = [H EXCEPT ![u] = 0]
      BY <1>2, <2>3, <3>2, TaskSets
    <3>4. Source!Refund(u)
      BY <2>2, <2>3, <3>1, <3>3 DEF Source!Refund
    <3>5. Source!Next
      BY <2>3, <3>4 DEF Source!Next
    <3> QED
      BY <3>5
  <2>4. CASE u \notin Kept
    BY <1>2, <2>1, <2>2, <2>4, TaskSets
  <2> QED
    BY <2>3, <2>4
<1>8. CASE q \in Quotas /\ SettleFunding(w, q) /\ at'[w] # "idle"
  <2>1. /\ at[w] = "settle" /\ at' = [at EXCEPT ![w] = "settleToken"]
        /\ held' = [held EXCEPT ![u] = @ + q - copy[w]]
    BY <1>0, <1>1, <1>8 DEF TypeOK, SettleFunding, Goto
  <2>2. /\ UNCHANGED KeptStatus
        /\ DealtAt(L)' = DealtAt(L) \ {u}
        /\ u \notin Kept => DealtAt(L)' = DealtAt(L)
        /\ u \in Kept => u \in DealtAt(L)
    <3>1. at[w] \in Billing /\ at[w] \in L /\ "settleToken" \notin L
      BY <2>1 DEF Billing, Settling
    <3> QED
      BY <1>1, <1>3, <1>4, <2>1, <3>1, BillerMoves
  <2>3. CASE u \in Kept
    <3>1. KeptStatus[u] = "SUCCESS"
      BY <1>0, <1>1, <2>1, <2>3 DEF BillingFits, KeptStatus, Running, Settling
    <3>2. held' = [held EXCEPT ![u] = q]
      <4>1. held[u] + q - copy[w] = q
        BY <1>0, <1>1, <1>2, <1>8, <2>1, <2>3, QuotasAreNat DEF MidFunding
      <4> QED
        BY <2>1, <4>1
    <3>3. H' = [H EXCEPT ![u] = q]
      BY <1>2, <2>3, <3>2, TaskSets
    <3>4. Source!Settle(u, q)
      BY <2>2, <2>3, <3>1, <3>3 DEF Source!Settle
    <3>5. Source!Next
      BY <1>8, <2>3, <3>4 DEF Source!Next
    <3> QED
      BY <3>5
  <2>4. CASE u \notin Kept
    BY <1>2, <2>1, <2>2, <2>4, TaskSets
  <2> QED
    BY <2>3, <2>4
<1>9. CASE (RefundFunding(w) \/ SettleFunding(w, q)) /\ at'[w] = "idle"
  <2>1. at[w] \in L /\ at' = [at EXCEPT ![w] = "idle"] /\ UNCHANGED held
    BY <1>0, <1>9 DEF TypeOK, RefundFunding, SettleFunding, Goto
  <2> QED
    BY <1>5, <2>1
<1>10. CASE RefundToken(w) \/ ClearQuota(w) \/ SettleToken(w) \/ SaveQuota(w)
  BY <1>6, <1>10 DEF RefundToken, ClearQuota, SettleToken, SaveQuota, Goto, ledgers
<1>11. CASE Crash(w)
  BY <1>5, <1>6, <1>11 DEF Crash, Goto, ledgers
<1> QED
  BY <1>7, <1>8, <1>9, <1>10, <1>11

\* ... and of the promise to the token.
LEMMA BillerKeepsToken ==
  ASSUME BooksInv, NEW w \in Workers, NEW q,
         \/ RefundFunding(w) \/ RefundToken(w) \/ ClearQuota(w)
         \/ q \in Quotas /\ SettleFunding(w, q)
         \/ SettleToken(w) \/ SaveQuota(w) \/ Crash(w)
  PROVE  [Token!Next]_<<KeptStatus, [t \in Kept |-> heldToken[t]],
                        DealtAt({"refund", "refundToken", "settle", "settleToken"})>>
<1> DEFINE L == {"refund", "refundToken", "settle", "settleToken"}
           H == [t \in Kept |-> heldToken[t]]
<1>0. TypeOK /\ SavesAQuota /\ BillingFits /\ MidToken
  BY DEF BooksInv, RefundInv
<1>1. PICK u \in Tasks : u = on[w]
  BY <1>0 DEF TypeOK
<1>2. copy[w] \in Nat /\ delta[w] \in Int /\ heldToken[u] \in Int /\ heldToken \in [Tasks -> Int]
  BY <1>0, <1>1, Amounts DEF TypeOK
<1>3. L \subseteq Billing
  BY DEF Billing, Refunding, Settling
<1>4. UNCHANGED <<status, on>>
  BY DEF RefundFunding, RefundToken, ClearQuota, SettleFunding, SettleToken, SaveQuota, Crash, row,
         copyVars
<1>5. ASSUME at[w] \in L, NEW l \in {"idle", "clear", "save"}, at' = [at EXCEPT ![w] = l]
      PROVE  /\ UNCHANGED KeptStatus
             /\ DealtAt(L)' = DealtAt(L) \ {u}
             /\ u \notin Kept => DealtAt(L)' = DealtAt(L)
             /\ u \in Kept => u \in DealtAt(L)
  <2>1. at[w] \in Billing /\ l \notin L
    BY <1>3, <1>5
  <2> QED
    BY <1>1, <1>3, <1>4, <1>5, <2>1, BillerMoves
<1>6. ASSUME at[w] \in L, NEW l \in {"idle", "clear", "save"}, at' = [at EXCEPT ![w] = l],
             UNCHANGED heldToken
      PROVE  [Token!Next]_<<KeptStatus, H, DealtAt(L)>>
  <2>1. H' = H
    BY <1>6
  <2>2. u \in Kept => Token!Leave(u)
    BY <1>5, <1>6, <2>1 DEF Token!Leave
  <2>3. u \in Kept => Token!Next
    BY <2>2 DEF Token!Next
  <2> QED
    BY <1>5, <1>6, <2>1, <2>3
<1>7. ASSUME NEW l \in {"idle", "refundToken", "settleToken"}, at' = [at EXCEPT ![w] = l],
             at[w] \in Billing, l \in L <=> at[w] \in L, UNCHANGED heldToken
      PROVE  [Token!Next]_<<KeptStatus, H, DealtAt(L)>>
  <2>1. UNCHANGED KeptStatus /\ DealtAt(L)' = DealtAt(L)
    BY <1>3, <1>4, <1>7, BillerMoves
  <2> QED
    BY <1>7, <2>1
<1>8. CASE RefundToken(w) /\ heldToken' = [heldToken EXCEPT ![u] = @ - copy[w]]
  <2>1. at[w] = "refundToken" /\ at' = [at EXCEPT ![w] = "clear"]
    BY <1>8 DEF RefundToken, Goto
  <2>2. CASE u \in Kept
    <3>1. KeptStatus[u] = "FAILURE"
      BY <1>0, <1>1, <2>1, <2>2 DEF BillingFits, KeptStatus, Running, Refunding
    <3>2. heldToken' = [heldToken EXCEPT ![u] = 0]
      <4>1. heldToken[u] - copy[w] = 0
        BY <1>0, <1>1, <1>2, <2>1, <2>2 DEF MidToken
      <4> QED
        BY <1>8, <4>1
    <3>3. H' = [H EXCEPT ![u] = 0]
      BY <1>2, <2>2, <3>2, TaskSets
    <3>4. Token!Refund(u)
      BY <1>5, <2>1, <2>2, <3>1, <3>3 DEF Token!Refund
    <3>5. Token!Next
      BY <2>2, <3>4 DEF Token!Next
    <3> QED
      BY <3>5
  <2>3. CASE u \notin Kept
    BY <1>2, <1>5, <1>8, <2>1, <2>3, TaskSets
  <2> QED
    BY <2>2, <2>3
<1>9. CASE SettleToken(w) /\ heldToken' = [heldToken EXCEPT ![u] = @ + delta[w]]
  <2>1. at[w] = "settleToken" /\ at' = [at EXCEPT ![w] = "save"]
    BY <1>9 DEF SettleToken, Goto
  <2>2. CASE u \in Kept
    <3>1. KeptStatus[u] = "SUCCESS"
      BY <1>0, <1>1, <2>1, <2>2 DEF BillingFits, KeptStatus, Running, Settling
    <3>2. PICK n \in Quotas : n = copy[w] + delta[w]
      BY <1>0, <2>1 DEF SavesAQuota
    <3>3. heldToken' = [heldToken EXCEPT ![u] = n]
      <4>1. heldToken[u] + delta[w] = n
        BY <1>0, <1>1, <1>2, <2>1, <2>2, <3>2 DEF MidToken
      <4> QED
        BY <1>9, <4>1
    <3>4. H' = [H EXCEPT ![u] = n]
      BY <1>2, <2>2, <3>3, TaskSets
    <3>5. Token!Settle(u, n)
      BY <1>5, <2>1, <2>2, <3>1, <3>4 DEF Token!Settle
    <3>6. Token!Next
      BY <2>2, <3>5 DEF Token!Next
    <3> QED
      BY <3>6
  <2>3. CASE u \notin Kept
    BY <1>2, <1>5, <1>9, <2>1, <2>3, TaskSets
  <2> QED
    BY <2>2, <2>3
<1>10. CASE RefundFunding(w) \/ SettleFunding(w, q)
  <2>1. /\ at[w] \in L /\ UNCHANGED heldToken
        /\ \E l \in {"idle", "refundToken", "settleToken"} : at' = [at EXCEPT ![w] = l]
    BY <1>10 DEF RefundFunding, SettleFunding, Goto
  <2> QED
    BY <1>3, <1>6, <1>7, <2>1
<1>11. CASE (RefundToken(w) \/ SettleToken(w)) /\ UNCHANGED heldToken
  <2>1. at[w] \in L /\ \E l \in {"clear", "save"} : at' = [at EXCEPT ![w] = l]
    BY <1>11 DEF RefundToken, SettleToken, Goto
  <2> QED
    BY <1>6, <1>11, <2>1
<1>12. CASE ClearQuota(w) \/ SaveQuota(w)
  <2>1. at[w] \in Billing \ L /\ at' = [at EXCEPT ![w] = "idle"] /\ UNCHANGED heldToken
    BY <1>12 DEF ClearQuota, SaveQuota, Goto, ledgers, Billing, Refunding, Settling
  <2> QED
    BY <1>7, <2>1
<1>13. CASE Crash(w)
  <2>1. at' = [at EXCEPT ![w] = "idle"] /\ UNCHANGED heldToken
    BY <1>13 DEF Crash, Goto, ledgers
  <2>2. CASE at[w] \in L
    BY <1>6, <2>1, <2>2
  <2>3. CASE at[w] \notin L
    <3>1. "idle" \notin L
      OBVIOUS
    <3>2. DealtAt(L)' = DealtAt(L)
      BY <1>0, <1>4, <2>1, <2>3, <3>1, DueMoves
    <3> QED
      BY <1>4, <2>1, <3>2 DEF KeptStatus
  <2> QED
    BY <2>2, <2>3
<1>14. RefundToken(w) \/ SettleToken(w)
         => \/ UNCHANGED heldToken
            \/ RefundToken(w) /\ heldToken' = [heldToken EXCEPT ![u] = @ - copy[w]]
            \/ SettleToken(w) /\ heldToken' = [heldToken EXCEPT ![u] = @ + delta[w]]
  BY <1>1 DEF RefundToken, SettleToken
<1> QED
  BY <1>8, <1>9, <1>10, <1>11, <1>12, <1>13, <1>14

\* Submission, answers and writes, for both.
LEMMA StepKeepsPromises ==
  ASSUME BooksInv, ~SettleFailing, [Next]_vars
  PROVE  /\ [Source!Next]_<<KeptStatus, [t \in Kept |-> held[t]], DealtAt({"refund", "settle"})>>
         /\ [Token!Next]_<<KeptStatus, [t \in Kept |-> heldToken[t]],
                           DealtAt({"refund", "refundToken", "settle", "settleToken"})>>
<1> DEFINE SL == {"refund", "settle"}
           TL == {"refund", "refundToken", "settle", "settleToken"}
           SH == [t \in Kept |-> held[t]]
           TH == [t \in Kept |-> heldToken[t]]
           Goal == /\ [Source!Next]_<<KeptStatus, SH, DealtAt(SL)>>
                   /\ [Token!Next]_<<KeptStatus, TH, DealtAt(TL)>>
<1>0. TypeOK /\ {"refund", "settle"} \subseteq SL /\ {"refund", "settle"} \subseteq TL
        /\ SL \subseteq Billing /\ TL \subseteq Billing
  BY DEF BooksInv, RefundInv, Billing, Refunding, Settling
<1>1. CASE \/ UNCHANGED vars
           \/ \E t \in Tasks, s \in Terminal : UpstreamEnds(t, s)
           \/ \E w \in Workers, t \in Tasks : LoadSweep(w, t) \/ LoadPoll(w, t) \/ LoadFetch(w, t)
           \/ \E w \in Workers, s \in Running \cup Terminal : Answer(w, s)
           \/ \E w \in Workers : NoAnswer(w) \/ ChannelLost(w)
  <2>1. /\ UNCHANGED <<KeptStatus, held, heldToken>>
        /\ DealtAt(SL)' = DealtAt(SL) /\ DealtAt(TL)' = DealtAt(TL)
    BY <1>0, <1>1, IdleKeepsPromise
  <2> QED
    BY <2>1
<1>2. ASSUME NEW t \in Tasks, NEW pre \in Quotas, NEW q \in Quotas, Submit(t, pre, q)
      PROVE  Goal
  <2>1. /\ DealtAt(SL)' = DealtAt(SL) /\ DealtAt(TL)' = DealtAt(TL)
        /\ held' = [held EXCEPT ![t] = q] /\ heldToken' = [heldToken EXCEPT ![t] = q]
        /\ t \in Kept => /\ KeptStatus[t] = "none"
                        /\ KeptStatus' = [KeptStatus EXCEPT ![t] = "running"]
        /\ t \notin Kept => UNCHANGED KeptStatus
    BY <1>2, SubmitCharges
  <2>2. CASE t \in Kept
    <3>1. SH' = [SH EXCEPT ![t] = q] /\ TH' = [TH EXCEPT ![t] = q]
      BY <1>0, <2>1, <2>2, TaskSets DEF TypeOK
    <3>2. Source!Submit(t, q) /\ Token!Submit(t, q)
      BY <2>1, <2>2, <3>1 DEF Source!Submit, Token!Submit
    <3>3. Source!Next /\ Token!Next
      BY <2>2, <3>2 DEF Source!Next, Token!Next
    <3> QED
      BY <3>3
  <2>3. CASE t \notin Kept
    <3>1. SH' = SH /\ TH' = TH
      BY <1>0, <2>1, <2>3, TaskSets DEF TypeOK
    <3> QED
      BY <2>1, <2>3, <3>1
  <2> QED
    BY <2>2, <2>3
<1>3. ASSUME NEW w \in Workers, Write(w) PROVE Goal
  <2>1. SH' = SH /\ TH' = TH
    BY <1>3 DEF Write, ledgers
  <2>2. PICK u \in Tasks, s \in {"none"} \cup Running \cup Terminal : u = on[w] /\ s = to[w]
    BY <1>0 DEF TypeOK
  <2>3. [Source!Next]_<<KeptStatus, SH, DealtAt(SL)>>
    <3>1. \/ UNCHANGED KeptStatus /\ DealtAt(SL)' = DealtAt(SL)
          \/ /\ u \in Kept /\ s \in Terminal /\ KeptStatus[u] = "running"
             /\ KeptStatus' = [KeptStatus EXCEPT ![u] = s]
             /\ DealtAt(SL)' = DealtAt(SL) \/ DealtAt(SL)' = DealtAt(SL) \cup {u}
      BY <1>0, <1>3, <2>2, WriteEnds
    <3>2. \/ UNCHANGED KeptStatus /\ DealtAt(SL)' = DealtAt(SL)
          \/ u \in Kept /\ s \in {"SUCCESS", "FAILURE"} /\ Source!End(u, s)
      BY <2>1, <3>1 DEF Source!End, Terminal
    <3>3. (UNCHANGED KeptStatus /\ DealtAt(SL)' = DealtAt(SL)) \/ Source!Next
      BY <3>2 DEF Source!Next
    <3> QED
      BY <2>1, <3>3
  <2>4. [Token!Next]_<<KeptStatus, TH, DealtAt(TL)>>
    <3>1. \/ UNCHANGED KeptStatus /\ DealtAt(TL)' = DealtAt(TL)
          \/ /\ u \in Kept /\ s \in Terminal /\ KeptStatus[u] = "running"
             /\ KeptStatus' = [KeptStatus EXCEPT ![u] = s]
             /\ DealtAt(TL)' = DealtAt(TL) \/ DealtAt(TL)' = DealtAt(TL) \cup {u}
      BY <1>0, <1>3, <2>2, WriteEnds
    <3>2. \/ UNCHANGED KeptStatus /\ DealtAt(TL)' = DealtAt(TL)
          \/ u \in Kept /\ s \in {"SUCCESS", "FAILURE"} /\ Token!End(u, s)
      BY <2>1, <3>1 DEF Token!End, Terminal
    <3>3. (UNCHANGED KeptStatus /\ DealtAt(TL)' = DealtAt(TL)) \/ Token!Next
      BY <3>2 DEF Token!Next
    <3> QED
      BY <2>1, <3>3
  <2> QED
    BY <2>3, <2>4
<1>4. ASSUME NEW w \in Workers, NEW q,
             \/ RefundFunding(w) \/ RefundToken(w) \/ ClearQuota(w)
             \/ q \in Quotas /\ SettleFunding(w, q)
             \/ SettleToken(w) \/ SaveQuota(w) \/ Crash(w)
      PROVE  Goal
  BY <1>4, BillerKeepsSource, BillerKeepsToken
<1> QED
  BY <1>1, <1>2, <1>3, <1>4 DEF Next, Work

\* The workers keep the promise of TaskCharges to the funding source: of all the polls,
\* sweeps, fetches, failures and crashes, one step at most moves the charge of an ended
\* kept task, the whole of it when it failed (RefundTaskQuota, RecalculateTaskQuota).
THEOREM SourceIsCharged ==
  ASSUME ~SettleFailing
  PROVE  Spec => SourceCharged
<1>1. Init => Source!Init
  BY TaskSets DEF Init, Source!Init, KeptStatus, DealtAt, Running
<1>2. BooksInv /\ [Next]_vars
        => [Source!Next]_<<KeptStatus, [t \in Kept |-> held[t]], DealtAt({"refund", "settle"})>>
  BY StepKeepsPromises
<1> QED
  BY <1>1, <1>2, BooksInvariant, PTL DEF Spec, SourceCharged, Source!Spec

\* ... and to the token, which is paid back and charged after the source.
THEOREM TokenIsCharged ==
  ASSUME ~SettleFailing
  PROVE  Spec => TokenCharged
<1>1. Init => Token!Init
  BY TaskSets DEF Init, Token!Init, KeptStatus, DealtAt, Running
<1>2. BooksInv /\ [Next]_vars
        => [Token!Next]_<<KeptStatus, [t \in Kept |-> heldToken[t]],
                          DealtAt({"refund", "refundToken", "settle", "settleToken"})>>
  BY StepKeepsPromises
<1> QED
  BY <1>1, <1>2, BooksInvariant, PTL DEF Spec, TokenCharged, Token!Spec
=============================================================================
