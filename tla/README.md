# Formal models of moligate

moligate is a gateway in front of AI providers (a descendant of new-api): it
authenticates a token, chooses a channel, relays the request and charges the
user. A web dashboard manages it, and an editor, the infinite canvas, keeps its
projects in the browser and syncs them over WebDAV. This directory holds TLA+
models of the parts where money, background work, login sessions and user data
can go wrong under concurrency and failure, the TLC configurations that check
them, and TLAPS proofs.

## 1. The system and its parts

| Part | State | Operations | What is hard |
|---|---|---|---|
| Billing session (`service/billing_session.go`, `funding_source.go`, `quota.go`, `tiered_settle.go`, `violation_fee.go`) | per request: funding source, counters, flags, mutex; shared: wallet, token, subscription | `NewBillingSession`, `preConsume`, `Reserve`, `Settle`, `Refund`, violation fee | requests of one user race on the balances; three ledgers and no transaction across them; the refund is a goroutine; realtime readers reserve after the handler returned |
| Asynchronous tasks (`service/task_polling.go`, `task_billing.go`, `model/task.go`, `relay/relay_task.go`) | a row per task: status, progress, quota | submit, poll, sweep, user fetch, guarded update, refund, settlement | overlapping polls of several instances, stale copies of the row, billing after the write, crashes in between |
| System tasks (`service/system_task.go`, `model/system_task.go`) | a row per job, a leased lock per type | create, claim, take over, heartbeat, expire, finish | leases running out under slow or dead runners; decisions on a lock read earlier |
| Dashboard login session (`web/src/lib/auth-session.ts`, `http-client.ts`, `routes/__root.tsx`, `service/auth_session.go`, `model/user_session.go`) | per tab: access token, refresh under way, requests; per browser: refresh cookie, lock, channel; server: session rows | login, bootstrap, refresh and its retries, 401 recovery, rotation, logout, events between tabs, revocation | tabs share one rotating secret; answers arrive after the tab has signed out or in again; lost answers; retries that restart |
| Infinite canvas: storage and sync (`web/infinite-canvas/src/services/app-sync.ts`, `webdav-sync.ts`, `image-storage.ts`, `stores/canvas/use-canvas-store.ts`) | per browser: projects, media, syncs and cleanup under way; server: manifest and files | edit, store media, delete, debounced save, clean up, sync | no lock or version on the manifest; merge, download, apply and upload are separate awaits; cleanup decides on an old scan, and ahead of the save |
| Subscription ledger (`model/subscription.go`) | usage per period, pre-consume records | pre-consume, refund, period reset, expiry | a reset between a charge and its refund; idempotence by request id |
| Quota cache and batch updater (`model/quota_reserve.go`, `user_cache.go`, `utils.go`) | Redis hash, database row, per-process delta stores | reserve in the cache, persist later, flush | the cache is ahead of the database; stores die with the process |
| Token cache, user authentication cache (`model/token_cache.go`, `user_auth_cache.go`) | hash, fence, version floor | mutate, fill, publish | delayed fills against fences that expire |
| Midjourney tasks (`controller/midjourney.go`) | a row per task | poll, refund | as asynchronous tasks, with another timeout rule |
| Channel selection and retry (`service/channel_select.go`, `controller/relay.go`) | ability cache, disabled channels and keys | select, retry, disable | retry across groups and priorities against a cache that changes |
| Payments, rate limits, accounts, adaptors, logs, the other pages of the front end | see `PROJECT.json` | | each listed there with the reason it is left out |

How they interact. A relay handler opens a billing session
(`PreConsumeBilling`), may raise the reservation between attempts or while a
websocket is open, and settles or refunds at the end. A task submission settles
its session at once and inserts a task row that remembers the charge
(`Task.Quota`); from then on only polls, sweeps and fetches deal with it. The
polls are themselves system tasks: a runner claims a job of type
`async_task_poll` under the lease and runs `RunTaskPollingOnce`. A pass whose
lease was lost is still finishing, so passes overlap whatever the lease does;
this is why TaskPolling allows any number of workers and why what the lease
promises is a module of its own.

The dashboard's tabs talk to the gateway with short-lived access tokens and get
new ones with a refresh cookie they share; whoever refreshes spends the secret in
it. Tabs tell each other of logins and logouts over a broadcast channel. The
canvas is a page of its own and touches the gateway only for generation; its sync
talks to a WebDAV server of the user. Neither shares state with the billing
modules.

Correctness, per part: a request costs what it used, or nothing; nothing is
returned twice or in excess; no ledger is overdrawn by a pre-charge; every
refund that was promised happens. A task is refunded once at most, its final
status stays, a failed one holds nothing, and it ends. A job runs once, keeps
its outcome, and never blocks its type. A session that was given up does not come
back, tabs do not make each other look like thieves, and a refresh ends. A
manifest promises only what is on the server, a browser has what it shows, the
last change of a project survives, and a deleted project stays away.

## 2. Modules

| Module | Stands for |
|---|---|
| `BillingSession`, `MCBillingSession`, `BillingSessionProofs`, `BillingChargesProofs` | the billing session and its three ledgers |
| `RequestCharges` | what a request promises a ledger; `BillingSession` implements it on the funding sources and on the token |
| `TaskPolling`, `MCTaskPolling`, `TaskPollingProofs` | task rows, their workers, and task billing |
| `TaskCharges` | what a task promises a ledger; `TaskPolling` implements it on the funding source and on the token |
| `SystemTaskLease`, `MCSystemTaskLease`, `SystemTaskLeaseProofs` | jobs, locks, runners and the clock |
| `JobRuns` | what the jobs of one type promise; `SystemTaskLease` implements it |
| `AuthSession`, `MCAuthSession`, `AuthSessionProofs` | tabs, cookie, lock, channel, and the server's sessions |
| `TabSessions` | what the tabs promise of sessions; `AuthSession` implements it |
| `AppSync`, `MCAppSync`, `AppSyncProofs` | browsers with projects and media, and the WebDAV directory |

The MC modules only add the symmetry sets; constants get their values in the
`.cfg` files. `PROJECT.json` maps every definition to the lines it models.

### BillingSession

State. `wallet`, `tokenRemain`, `subUsed`, `subRecord` are the ledgers;
`preConsumedQuota`, `tokenConsumed`, `extraReserved`, `consumed`,
`subPreConsumed` and the flag sets `trusted`, `settled`, `fundingSettled`,
`refunded` are the fields of the session and of its funding source; `mu` and
`delta` the session mutex and what its holder is moving; `pc` and `bg` the
request's goroutine and the refund goroutine. `paidWallet`, `paidSub`,
`paidToken`, `usage`, the fees and `lost` are history, read by properties only.

Grain. An action moves at most one ledger, because the code has no transaction
across ledgers: `Reserve` and `Settle` are two actions each, joined by `mu`,
`preConsume` is token, funding, reconciling, and the refund goroutine three
steps. A database error is a disjunct enabled by `Failing`; where the code only
logs it, the request enters `lost`.

Abstractions. Prices are inputs: the estimate, the price of the subscription
package that is picked, the estimate of the second source after a fallback and
the usage are any members of `Quotas`. A subscription is one capped counter and
one record per request; its resets and its resource grants are not here. The
wallet and the token are one balance each (no cache in front). The three
attempts of `refundWithRetry` are one step, since the record makes them
idempotent. The process does not die: nothing would resume a session.

`RequestCharges` has an outcome, an amount, a bill and a fee per request and no
goroutine, mutex or flag: the amount moves while the request is open, one of
denial, settlement and refund decides it, a fee comes once and beside it, and once
decided it moves no more. Of the final amount nothing is promised when an
operation was lost. `BillingSession` implements it twice. `SourceLedger` takes the
wallet and the subscription as one ledger, since a request that falls back has
been given back what it held; there a request is settled with `fundingSettled`
and refunded once the goroutine has passed `extra`. `TokenLedger` is the token;
there it is settled with `settled` and refunded at the end of the goroutine.

### TaskPolling

State. `status`, `full` (progress "100%") and `quota` are the row; `held` and
`heldToken` what the task has really cost; `up` the task at the provider. A
worker (`at`, `on`, `from`, `to`, `toFull`, `copy`, `delta`, `user`) is one
goroutine with one copy of one row. `refunds` and `dropped` are history.

Each read of a row, each answer, each write and each ledger move is an action.
`Write` is `UpdateWithStatus`: it succeeds if the status is still the one that
was read and then writes all columns, `Task.Quota` included. `ChannelLost` is
`TaskBulkUpdateByID`, which asks for nothing. `Submit` is the settlement of the
submission and the insertion of the row: with `SettleFailing` the settlement may
fail on the source, or on the token after the source was settled, while the row
records the final quota. `LoadFetch` and `Answer` of a
worker in `user` are `tryRealtimeFetch`. `Crash` ends a worker anywhere.

The booleans and sets among the constants (`Timeouts`, `ErrorAnswers`,
`FullProgress`, `SettleFailing`, `ChannelLoss`, `Realtime`, `Legacy`) switch
parts of the environment on, so that a run can say under which circumstances a
property holds.

`Guarded` and `Kept` say for which tasks. A guarded task has no user fetch, or is
ended by the upstream alone (no sweep, error answer or lost channel fails it while
the upstream still runs it); a kept task has no `ChannelLost` either, so that its
terminal status is final.

`TaskCharges` has a status, a charge and a set of tasks whose last move is due: a
task is charged when it is submitted, ends once, and after that its charge moves
once at most, to nothing when it failed and to what it used when it succeeded.
`TaskPolling` implements it for the kept tasks, with `held` and with `heldToken`;
a move that a crash or a failed operation loses is a step in which it stops being
due.

### SystemTaskLease

One type of job, since types share nothing. Wall-clock time is the number of
ticks the lease has left; a `now` that a runner read earlier is its membership
in `past`, which says that by this `now` the current lock is expired. Each SQL
statement is an action; the runner's main goroutine goes through its pass in
`at`, and its handlers run beside it. A statement that sets `locked_until` does so
from a clock read before it, so `Lease` may give any time up to TTL. `SlowClaims`
says whether the time between computing a claim's lease and starting the row may
exceed the lease (60 s in the code), `SlowRenewals` the same of the read of the
clock and the update in `RenewSystemTaskLock` and `FinishSystemTask` (`SawLive`): a
late renewal revives a lock that is already expired, as long as the row is still
there. A renewal that is still under way when its handler has returned is not
modelled (the code does not wait for the heartbeat goroutine): it could only prolong,
once, a lock that the handler failed to release.

`JobRuns` has the status of the jobs, their owner and whom they were handed to,
and no lock, lease or clock: one job of the type is pending or running at a time,
one runner makes it its own before any work is done for it, only that work makes
it succeed, and its outcome is final.

### AuthSession and TabSessions

State. `status` and `version` are the session rows of the server. `cookie` is the
refresh cookie of the browser: a session and the age of its secret, 0 for the
present one, 1 for the previous, 2 for older ones. `held` and `boot` are the
store of a tab, `run` its refresh, `call` and `logout` a request and a logout that
wait, `rot` a rotated bundle on its way, `inbox` the events on theirs. `gone`,
`reused`, `lossy` and `spent` are history.

Grain. A tab runs from one await to the next. `Request`, `Superseded`, `Accept`,
`RetryRace`, `RetryMismatch`, `GiveUp`, `Unauthorized` and `Transient` are the
branches of `createRefreshRunner`; `End` is the continuation of everybody who
awaits the refresh. `Refresh` is `RefreshLoginSession` with
`RotateUserSessionRefresh`.

Abstractions. `authEpoch` is only ever compared with the value a refresh began
with, so the refresh carries the result (`stale`). A request reaches the server
when it is sent and the delay is on its answer, which gives the same orders of
server steps and arrivals. The browser stores the cookie of an answer in the step
in which the await returns. The time since a rotation is not modelled: the
previous secret is answered again (inside `RefreshReplayWindow`) or taken for a
replay. The server as it is derives the next secret from the presented one and
never answers AUTH_REFRESH_RACE; the client handles it, and `RaceReplies` lets a
server send it. The lock is granted to any waiting tab. A page load is one step,
and "checking" is "idle" with a refresh under way. Left out: the sixty-second
expiry of events, requests without a session, requests and logouts that fail on
their way, the sign-out on the OAuth error page.

`TabSessions` has the session rows, the session each tab shows and what it has
dropped, and no cookie, lock, message or retry. Its `Hold` lets a tab take an
issued session, but none it dropped after the revocation. `AuthSession` maps
`held` to the `sid` of the bundle and is shown to implement it (`KeepsPromise`).

### AppSync

State. `store`, `saved`, `blobs`, `adding` and `sweep` are a browser's projects in
memory, what of them has been saved, its media in IndexedDB, a medium that no node
refers to yet, and a cleanup; `run` the calls of `syncDomain` under way on all
browsers; `manifest` and `server` the WebDAV directory. `clock`, `made`, `newest`,
`last` and `torn` are history: `last` has the last change of each project (an edit,
a deletion, or lost: overwritten by a sync of its browser that had merged before, or
gone with a page that closed before the save), `torn` the media a cleanup removed
while something of the browser needed them.

Grain. `Persist` is the debounced save, which may come at any time after a change;
a page that closes (`Crash`) shows what was saved when it is loaded again, while the
media a cleanup has removed by then are gone. `ReadManifest` is the await of the
manifest, `MergeData` the read of the local data and the merge, `DownloadFile` and
`UploadFile` move one medium, `ApplyData` and `PutManifest` are the ends of the two
halves. `Fail` may end a sync at each of them. When one of the four domains fails,
`Promise.all` rejects and the button works again while the other domains go on
(`app-config-modal.tsx`), so a browser may have several syncs of a domain.

Abstractions. One domain. Each browser has the canvas open in one tab: a second tab
would share the saved projects and the media and keep a store of its own, which
nothing brings up to date; its cleanup would remove media the first tab shows, and
its save would overwrite the first one's. A project is its `updatedAt` and one
medium. The clocks agree and no two versions are equally old. A medium's scan and
its transfer are one step. One cleanup at a time. The editor's own copy of the open
project and its undo history are not here; what the undo history needs is spared by
the cleanup as in the code. Nothing is ever deleted on the WebDAV server.

## 3. Runs

| Run | Configuration | Checks |
|---|---|---|
| `billing_contention` | two requests, amounts 0..2, wallet 3, token 4, subscription 3, all preferences and kinds | types; `OpenKeepsReservation`, `PreConsumeNeverOverdraws`, the refinements `ChargesSource` and `ChargesToken` |
| `billing_faults` | one request, amounts 0..3, failing operations, violation fee, playground | `OpenKeepsReservation` and the refinements again; `SettledExactly`, `RefundedFully`, `DeniedCostsNothing`, `NeverOverReturned`; `RefundHappens`, `RequestEnds` under fairness |
| `realtime_late_reserve` | one realtime request | violation of `RealtimeEndHoldsNothing` |
| `task_books` | a Suno and a video task, two workers, amounts 1 and 2, timeouts, error answers, 100% in progress, failures, crashes | types, `RefundedAtMostOnce`, `NeverOverRefunded`, `FailedIsRefunded`, `BooksAgree`, `TerminalStays`, the refinements `SourceCharged` and `TokenCharged` |
| `task_ends` | a legacy task that users fetch, polled and swept, and a Suno task that may lose its channel; fair workers and sweeps | `RefundedAtMostOnce`, `TasksEnd` |
| `task_fetch_loses_refund` | one fetched task | violation of `FailedIsRefunded` |
| `lease_faults` | two jobs, two runners, lease of two ticks, slow renewals, failures, panics, a crash | types, `RunsOnce`, `RunningHasLease`, `OutcomeStays`, the refinement `KeepsRuns` |
| `lease_ends` | two jobs, two runners, a crash at any step, fairness | `JobsEnd` |
| `lease_live_failed` | two jobs, three runners, crashes | violation of `LiveLeaseKeepsRunning` |
| `auth_tabs` | two tabs, two sessions, the lock, one retry after a race, two faults or logins, one event and one request under way | types, `GoneStaysGone`, `NoFalseReplay`, `RequestsBounded`, the refinement `KeepsPromise` |
| `app_sync` | two browsers, one project, one medium, two syncs, two changes | types, `ManifestWhole`, `MediaKept`, `NewestSurvives` |
| `app_sync_deleted` | one browser, one project, one sync at a time | violation of `DeletedStaysAway` |

Bounds. Two requests are enough for every race on a balance: the code relates a
request to the others through the balances only, and a third would only move
them further (the proofs cover any number). Amounts 0..2 with balances 3 and 4
make the first reservation fit and the second not, the trust threshold lie
between two balances, and a settlement be above, at or below the reservation.
Failures get a run of their own with one request, because a failed operation
concerns its own request only. Two workers on one row give every overlap of two
copies; the second task keeps a worker from being bound to a row. For the lease,
two jobs give the takeover of another job's lock; the violation needs three
runners: one that died, one that holds the new lease, one that expires the old.
Two tabs and two sessions give every way in which a tab can hold another session
than the cookie. `Budget` counts logins, security changes, lost answers and
reloads together; 2 allows a login with one fault, or two logins. Two browsers
with a sync each, or one with two, give every overlap of a sync with another one,
an edit, a cleanup, a save or a page that closes; two changes, with a project that
one browser may have from the start, allow a version that both browsers have and a
newer one or a deletion on either; a newer one on each takes a third, and is left to
`NewestIsKept`, which holds for any number of changes. The amounts 1 and 2 of
`task_books` give a settlement above, at and below the charge, and tasks that keep
it; a task that costs nothing is left to the proofs, which cover any amounts. `lease_ends`
was also run once with slow renewals and passes; it is too slow to keep.

In `billing_contention`, where nothing is lost, the refinements say of two racing
requests what `SettledExactly`, `RefundedFully`, `DeniedCostsNothing` and
`NeverOverReturned` say, with the wallet and the subscription as one ledger;
`billing_faults` checks the four as they stand, ledger by ledger, and the proofs
cover any number of requests.

`CHECK_DEADLOCK FALSE` where requests, tasks and jobs are finitely many and all
of them may have ended. In `auth_tabs` and `app_sync` somebody can always do
something and deadlock is checked.

Fairness. `BillingSession`: goroutines go on (weak fairness of a request's own
steps and of the refund goroutine); an upstream attempt ends by answer, error or
timeout, and the handler gets the mutex although readers keep reserving, for
`sync.Mutex` hands over to a starving waiter (strong fairness of `Handler`).
`TaskPolling`: a worker goes on, and sweeps recur: `async_task_poll` is scheduled
while a task is unfinished, and the sweep takes the oldest first (strong
fairness of `LoadSweep` for each task). That the provider ever ends a task is
not assumed. `SystemTaskLease`: time passes, a runner's pass goes on and recurs,
handlers return. A runner that is dead takes no step, and one survives.
`AuthSession` and `AppSync` state no fairness: users act or do not, and requests
have no timeout the code controls. That a refresh gives up is checked in its
safety form, a bound on the requests it sends (`RequestsBounded`).

Where the promises come from. "A refresh response cannot restore credentials
after a newer auth operation" is the name of a test
(`web/src/lib/auth-session.test.ts:221`) and `GoneStaysGone` its general form;
`docs/authentication.md:65-72` describes the single flight, the browser lock, the
retries after races and mismatches and the events between tabs.

### What the violations show

* `realtime_late_reserve`. `Refund` (`billing_session.go:115`) leaves no mark on
  a session that has nothing reserved. A reader goroutine that calls `Reserve`
  afterwards takes quota that nobody settles or returns.
* `task_fetch_loses_refund`. A user's fetch that sees a failure first writes
  FAILURE with 100% (`relay_task.go:547`); nothing refunds the task and no poll
  selects it again.
* `lease_live_failed`. `MarkSystemTaskLeaseExpired` (`system_task.go:366`) is
  guarded by task id and status only. An expiry that read a dead claimer's lock
  fails the row after another runner took the lock over, started it and is
  renewing the lease. A slow renewal does the same without any crash: with
  `SlowRenewals` (and `Crashing = FALSE`) the property fails because the renewal
  revives a lock that the expiry has read as expired. Without crashes, failing
  statements, slow claims and slow renewals the promise holds for any number of
  runners (`LiveLeaseWithoutFaults` below).
* `app_sync_deleted`. `mergeById` (`app-sync.ts:301`) is a union and nothing records
  a deletion: a canvas that was synced and then deleted is back after the next
  sync. `CHANGELOG.md:20` of the canvas says that this was fixed.

Further properties fail under constants that their passing runs exclude, each
listed as a hazard: `TerminalStays` and `FailedIsRefunded` for a task in
`ChannelLoss`; `RefundedAtMostOnce` for a fetched task with timeouts
that is not a legacy task;
`NeverOverRefunded` and `BooksAgree` with `SettleFailing`; `TasksEnd` with
`FullProgress`; `RunningHasLease` with `SlowClaims`. Others excuse what the code does
not prevent, also listed: `NoFalseReplay` lost answers, `MediaKept` and
`ManifestWhole` the media in `torn`, `NewestSurvives` the changes that are lost.

## 4. Proofs

All theorems hold for every value of the constants that satisfies the named
assumptions (`ConstantsAssumption`, `TaskConstants`, `LeaseConstants`,
`AuthConstants`, `AppConstants`) and the hypotheses in the statement.

* `BillingSessionProofs`: `TypeCorrect`, `Settles`, `Refunds`, `Denials`,
  `NoOverReturn`, `OpenSessions`, from `Invariant`. The safety properties speak
  of requests that have ended; to be inductive they need the books at every step.
  `FundBook(r)` and `TokenBook(r)` say what a request must have paid, given where
  its goroutines stand; `FundBalance` and `TokenBalance` say that it has, with
  equality unless an operation was lost and from above in any case.
  `NotServing`, `Counters` and `Control` tie the counters, flags, mutex and the
  two goroutines together. No balance of a shared ledger occurs in the invariant,
  only a request's own share, so other requests cannot disturb it (`Frame`), and
  each action is one lemma. `NoOverdraft` is `PreConsumeNeverOverdraws`: the three
  steps of preConsume that debit a ledger test it in the same statement, and no
  other step takes a request from where it does so.
* `BillingChargesProofs`: the refinements `SourceChargesKept` and
  `TokenChargesKept`, without further hypotheses. `Charges(r)` restates the books
  in the terms of `RequestCharges` (a decided charge is its bill, or nothing);
  then each of the twenty actions makes one move of the charge on each ledger, or
  none (one lemma per action), and a move of one request that leaves the others
  alone is a step of `RequestCharges` (`SourceNext`, `TokenNext`).
* `TaskPollingProofs`: `TypeCorrect` for every task, user fetches included; it
  needs that a settlement under way saves a quota the adaptor gave
  (`SavesAQuota`). `RefundOnceGuarded` from `RefundInvariant`, with no hypothesis:
  no guarded task is refunded twice, whatever fetches, lost channels, failures
  and crashes do to it and to the others. Whoever is about to
  write read a running row (`ReadRunning`); what users fetch ends as the upstream
  has ended it (`FollowsUpstream`); at most one worker bills a task, and only
  after the terminal write. `RefundOnce` is the case in which all
  tasks are guarded, as in the run `task_books`; it holds with `SettleFailing` too,
  which no run sets. `KeptBooksHold`
  from `BooksInvariant`, for the kept tasks beside others that are not, says that
  `Task.Quota` is what the task holds and that nothing is returned in excess;
  `BooksInv` says what is held, on the source and on the token, at each label of
  the worker that bills the task, and that copies of running rows carry the row's
  quota. It assumes `~SettleFailing`, without which the row and the charge differ
  from the start. `BooksHold`, `NoOverRefund` and `TerminalFinal` are the cases in
  which all tasks are kept; `FailuresRefunded` excludes fetches altogether, since
  a fetch that sees the failure first never refunds (`task_fetch_loses_refund`).
  `SourceIsCharged` and `TokenIsCharged` are the refinements of `TaskCharges`,
  from the same invariant.
* `SystemTaskLeaseProofs`: `TypeCorrect`, `DispatchedOnce` and `OutcomeFinal`
  from `Invariant`, with slow claims and renewals, failures and crashes: a dispatched row is
  no longer pending, and was dispatched by one runner. `OneActiveJob` and the
  refinement `RunsAreKept` need nothing more either: what `JobRuns` promises does
  not depend on leases. `RunningIsLeased` is
  `RunningHasLease` for `SlowClaims = FALSE`, from `LeaseInv`: one row of the type
  is active; a claim holds a live lock of a row that does not run
  (`ClaimHoldsLock`, which is where the time bound enters); a runner whose clock is
  past the lock does not take it from a running row (`StaleIsNotRunning`); and a
  handler releases the lock of a row that has ended, never that of a later claim of
  its own runner (`ReleasedIsEnded`, `ClaimsAnother`). `LiveLeaseWithoutFaults` is
  the property that `lease_live_failed` refutes, for runners that neither fail nor
  die nor claim or renew slowly: then nobody leaves the lock of a pending row behind
  (`PendingIsClaimed`), so an expiry only ever read a lock that does not come back
  to life (`ReaderSawOld`).
* `AuthSessionProofs`: all five properties of the run. `TypeCorrect` needs that a
  version is at most `spent`. One lemma per group of actions then summarises a
  step by its `Effects`: at most one session row moves, and forwards; at most one
  store changes, and its new session is the old one, one just issued, or that of
  an answer which is still current; a refresh ends, waits, sends, or keeps what it
  has. From the effects alone follow `RefreshGivesUp` (`RequestInv` charges each
  request to a race or to the one recovery), `RevokedIsGone` and the refinement
  `PromiseIsKept` (`SessionInv`: neither the store nor a current answer of a tab
  names a session it has dropped revoked; this is what the epoch is for).
  `ReplayNeedsLoss` assumes the lock: one refresh at a time is past it, and until
  an answer is lost the cookie or the answer of that refresh has the present
  secret (`LockInv`).
* `AppSyncProofs`: `TypeCorrect`; `ManifestIsWhole` and `MediaAreKept` from
  `MediaInvariant`, which says of the store and of the saved projects of every
  browser, and of the base manifest, the merged projects and the remaining work of
  every sync under way, which media they know to be where; the saved projects are
  part of it because a closed page brings them back. `NewestIsKept` from an
  invariant on the versions that stores, saves, merges and manifest carry, none newer
  than the newest, and on the browser of the last change, whose syncs bring that
  change again when they apply what they merged, or know that it came after.

Only model-checked: the liveness properties `RefundHappens`, `RequestEnds`,
`TasksEnd` and `JobsEnd`, since the prover does not reason about fairness and
`ENABLED`. Every other property that a passing run checks is stated by a theorem.

## 5. Not modelled

Resource grants (image counts) of a subscription in both billing modules; the
used-quota statistics, logs and notifications; the Redis cache and the batch
store below the ledgers; clock skew between nodes; a process that dies with an
open billing session, or between the charge of a task and the insertion of its
row (nothing recovers either), and an insertion that fails
(`controller/relay.go:661` only logs it, so that the charge stays and no row
remembers it); conversion of requests and responses by the provider adaptors;
accounts, payments and rate limits; the desktop shell.

Of the front end, which has most of the repository's lines, the login session and
the canvas's storage and sync are modelled because they are protocols: several
tabs or browsers, a server and failures in between. The rest is forms, tables,
charts, translations and the canvas editor's interface state over the HTTP API. A
model of it would restate component props.

Some behaviours are modelled, look odd, and break no promise the repository
makes: a late answer replaces the cookie of a newer login; after a mismatch a
repeated request, or a repeated logout, concerns the account the browser has
signed in to since (`docs/authentication.md:65` describes it). Outside the
models: several tabs of one browser with the canvas open; the open editor of the
canvas saves its own copy over what a sync has just written, and versions are
compared by the clocks of different machines.

## 6. Plan

1. `SubscriptionLedger`: plan selection, period resets, expiry, idempotent
   pre-consume and refund; an abstract ledger that `BillingSession`'s `subUsed`
   and `subRecord` are shown to be, as long as no reset falls in between.
2. `QuotaCache`: the Redis hash, the database row and the batch stores of
   several processes; the sum of the three is the balance that `BillingSession`
   moves atomically (refinement), and what a crash or an expired hash costs.
3. `UserAuthCache` and `TokenCache`: fences, floors and delayed fills; a change
   that was committed is never undone in the cache. Inductive proof for the
   floor.
4. Midjourney rows as a second instance of the guarded write, and the retry loop
   over groups, priorities and disabled channels.
5. The log domains of the canvas, which clear their store before they write it.
6. Proofs: the refinements of 1 and 2.
