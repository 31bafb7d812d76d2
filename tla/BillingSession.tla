--------------------------- MODULE BillingSession ---------------------------
(***************************************************************************)
(* The billing session of one relayed request: NewBillingSession chooses a *)
(* funding source and pre-consumes, Reserve grows the reservation, Settle  *)
(* turns it into a charge, Refund gives it back in a goroutine of its own. *)
(* Requests of one user run concurrently against the same wallet, the same *)
(* token allowance and the same subscription.                              *)
(*                                                                         *)
(* Every action moves at most one ledger, so requests interleave between   *)
(* any two ledger operations; mu stands for the session's mutex, which     *)
(* Reserve and Settle hold across the two ledgers they move.               *)
(***************************************************************************)
EXTENDS Integers

CONSTANTS
  Requests,            \* relayed requests of one user with one token
  Quotas,              \* quota amounts an estimate or a usage may come to
  Preferences,         \* billing preferences in play
  Kinds,               \* "relay", "realtime" or "task" requests in play
  Playgrounds,         \* values of relayInfo.IsPlayground in play
  WalletInit,          \* User.Quota at the start
  TokenInit,           \* Token.RemainQuota at the start
  SubTotal,            \* UserSubscription.AmountTotal, 0 for no limit
  TrustQuota,          \* common.GetTrustQuota()
  FeeQuota,            \* violation fee, 0 when disabled
  TokenUnlimited,      \* Token.UnlimitedQuota
  HasSubscription,     \* the user has an active subscription for the model
  AllowWalletOverflow, \* ... that allows falling back to the wallet
  Failing              \* whether database operations may fail

ASSUME ConstantsAssumption ==
  /\ Quotas \subseteq Nat
  /\ Preferences \subseteq {"wallet_only", "subscription_only", "wallet_first", "subscription_first"}
  /\ Kinds \subseteq {"relay", "realtime", "task"}
  /\ Playgrounds \subseteq BOOLEAN
  /\ WalletInit \in Int /\ TokenInit \in Int
  /\ SubTotal \in Nat /\ TrustQuota \in Nat /\ FeeQuota \in Nat
  /\ {TokenUnlimited, HasSubscription, AllowWalletOverflow, Failing} \subseteq BOOLEAN

VARIABLES
  \* the ledgers
  wallet,      \* User.Quota
  tokenRemain, \* Token.RemainQuota
  subUsed,     \* UserSubscription.AmountUsed
  subRecord,   \* SubscriptionPreConsumeRecord.Status by request id
  \* the request
  pc,          \* where the request's goroutine stands
  req,         \* RelayInfo: estimate, kind, playground, token trusted
  src,         \* the funding source being tried or in use
  alt,         \* the source NewBillingSession falls back to
  rich,        \* requests whose quoted wallet exceeded the trust quota
  \* the session and its funding source
  preConsumedQuota, tokenConsumed, extraReserved,
  consumed,        \* WalletFunding.consumed
  subPreConsumed,  \* SubscriptionFunding.preConsumed
  trusted, fundingSettled, settled, refunded, \* flags, as sets of requests
  mu,          \* the session mutex: free, or the operation that holds it
  delta,       \* the difference the holder of mu is moving
  bg,          \* the refund goroutine
  \* history
  paidWallet, paidSub, paidToken, \* net amount the request took from each ledger
  usage, fundFee, tokenFee,       \* what it was settled for, and the violation fee
  lost         \* requests for which a failed ledger operation was only logged

ledgers == <<wallet, tokenRemain, subUsed>>
reqVars == <<req, src, alt, rich>>
counters == <<preConsumedQuota, tokenConsumed, extraReserved, consumed, subPreConsumed>>
flags == <<trusted, fundingSettled, settled, refunded>>
lock == <<mu, delta>>
paid == <<paidWallet, paidSub, paidToken>>
charge == <<usage, fundFee, tokenFee>>
vars == <<ledgers, subRecord, pc, reqVars, counters, flags, lock, bg, paid, charge, lost>>

Sources == {"wallet", "subscription"}
Waiting == {"idle", "quote", "token", "fund", "reconcile", "abort", "rollback", "denied"}
Serving == {"open", "failed", "settled", "settleErr", "fee", "feeToken", "done"}

RelayInfo == [quota : Nat, kind : {"relay", "realtime", "task"},
              playground : BOOLEAN, trusts : BOOLEAN]

Zero == [r \in Requests |-> 0]
Add(f, r, n) == [f EXCEPT ![r] = @ + n]

Init ==
  /\ wallet = WalletInit
  /\ tokenRemain = TokenInit
  /\ subUsed = 0
  /\ subRecord = [r \in Requests |-> "none"]
  /\ pc = [r \in Requests |-> "idle"]
  /\ req = [r \in Requests |-> [quota |-> 0, kind |-> "relay", playground |-> FALSE, trusts |-> FALSE]]
  /\ src = [r \in Requests |-> "wallet"]
  /\ alt = [r \in Requests |-> "none"]
  /\ rich = {}
  /\ preConsumedQuota = Zero /\ tokenConsumed = Zero /\ extraReserved = Zero
  /\ consumed = Zero /\ subPreConsumed = Zero
  /\ trusted = {} /\ fundingSettled = {} /\ settled = {} /\ refunded = {}
  /\ mu = [r \in Requests |-> "free"]
  /\ delta = Zero
  /\ bg = [r \in Requests |-> "idle"]
  /\ paidWallet = Zero /\ paidSub = Zero /\ paidToken = Zero
  /\ usage = Zero /\ fundFee = Zero /\ tokenFee = Zero
  /\ lost = {}

-----------------------------------------------------------------------------
(* The ledger operations the session calls, each atomic on its ledger.     *)

\* IncreaseUserQuota and DecreaseUserQuota: unconditional, may go negative.
MoveWallet(r, n) ==
  /\ wallet' = wallet - n
  /\ paidWallet' = Add(paidWallet, r, n)
  /\ UNCHANGED <<tokenRemain, subUsed, paidSub, paidToken>>

\* IncreaseTokenQuota and DecreaseTokenQuota.
MoveToken(r, n) ==
  /\ tokenRemain' = tokenRemain - n
  /\ paidToken' = Add(paidToken, r, n)
  /\ UNCHANGED <<wallet, subUsed, paidWallet, paidSub>>

\* PostConsumeUserSubscriptionDelta: usage never drops below zero.
MoveSub(r, n) ==
  /\ subUsed' = IF subUsed + n < 0 THEN 0 ELSE subUsed + n
  /\ paidSub' = Add(paidSub, r, n)
  /\ UNCHANGED <<wallet, tokenRemain, paidWallet, paidToken>>

\* A subscription without a total is unlimited; giving back always fits.
SubFits(n) == n > 0 /\ SubTotal > 0 => subUsed + n <= SubTotal

MoveNothing == UNCHANGED <<ledgers, paid>>

\* A database error that the code only logs.
LogLoss(r) == /\ Failing
              /\ MoveNothing
              /\ lost' = lost \cup {r}

\* Mutant: the balance read by tryWallet is relied on when the wallet is debited.
WalletCoversStale(n) == n = n

\* The conditional update behind TryReserveUserQuota / TryReserveTokenQuota.
WalletCovers(n) == wallet >= n
TokenCovers(n) == TokenUnlimited \/ tokenRemain >= n

Goto(r, label) == pc' = [pc EXCEPT ![r] = label]

-----------------------------------------------------------------------------
(* NewBillingSession: the order in which the sources are tried.            *)

FirstSource(pref) ==
  IF pref \in {"wallet_only", "wallet_first"} \/ (pref = "subscription_first" /\ ~HasSubscription)
  THEN "wallet" ELSE "subscription"

\* The source tried after the first one reported insufficient quota.
SecondSource(pref) ==
  IF pref = "wallet_first" THEN "subscription"
  ELSE IF pref = "subscription_first" /\ HasSubscription /\ AllowWalletOverflow THEN "wallet"
  ELSE "none"

\* tryWallet reads the balance first, trySubscription goes to preConsume.
Entry(source) == IF source = "wallet" THEN "quote" ELSE "token"

\* PreConsumeBilling. The token part of shouldTrust is decided on the allowance
\* read when the request was authenticated.
Start(r, q, kind, playground, pref) ==
  /\ pc[r] = "idle"
  /\ req' = [req EXCEPT ![r] =
       [quota |-> q, kind |-> kind, playground |-> playground,
        trusts |-> kind # "task" /\ TrustQuota > 0
                   /\ (TokenUnlimited \/ tokenRemain > TrustQuota)]]
  /\ src' = [src EXCEPT ![r] = FirstSource(pref)]
  /\ alt' = [alt EXCEPT ![r] = SecondSource(pref)]
  /\ Goto(r, Entry(FirstSource(pref)))
  /\ MoveNothing
  /\ UNCHANGED <<subRecord, rich, counters, flags, lock, bg, charge, lost>>

\* An InsufficientUserQuota error moves on to the other source, with a new session
\* and an estimate at that source's ratio; without one, and for every other error
\* (a failed check of the overflow permission), the request is denied.
TryOther(r) ==
  /\ \/ /\ alt[r] = "none" \/ Failing
        /\ Goto(r, "denied")
        /\ UNCHANGED <<req, src>>
     \/ /\ alt[r] # "none"
        /\ \E q \in Quotas : req' = [req EXCEPT ![r].quota = q]
        /\ src' = [src EXCEPT ![r] = alt[r]]
        /\ Goto(r, Entry(alt[r]))
  /\ alt' = [alt EXCEPT ![r] = "none"]
  /\ tokenConsumed' = [tokenConsumed EXCEPT ![r] = 0]
  /\ subPreConsumed' = [subPreConsumed EXCEPT ![r] = 0]
  /\ trusted' = trusted \ {r}
  /\ UNCHANGED <<rich, preConsumedQuota, extraReserved, consumed,
                 fundingSettled, settled, refunded>>

\* tryWallet: the balance check in front of preConsume, and the wallet part of
\* shouldTrust, both on a balance that may have changed when it is used.
QuoteWallet(r) ==
  /\ pc[r] = "quote"
  /\ LET short == (req[r].quota > 0 /\ wallet <= 0) \/ wallet - req[r].quota < 0
     IN \/ short /\ TryOther(r)
        \/ /\ ~short
           /\ rich' = IF wallet > TrustQuota THEN rich \cup {r} ELSE rich
           /\ Goto(r, "token")
           /\ UNCHANGED <<req, src, alt, counters, flags>>
        \/ /\ Failing
           /\ Goto(r, "denied")
           /\ UNCHANGED <<reqVars, counters, flags>>
  /\ MoveNothing
  /\ UNCHANGED <<subRecord, lock, bg, charge, lost>>

-----------------------------------------------------------------------------
(* preConsume: trust check, token reservation, funding reservation.        *)

\* subConsume: a subscription reservation is never empty.
Estimate(r) == IF src[r] = "subscription" /\ req[r].quota = 0 THEN 1 ELSE req[r].quota

ShouldTrust(r) == src[r] = "wallet" /\ req[r].trusts /\ r \in rich

\* What preConsume asks the token for: nothing for a playground request, although
\* tokenConsumed counts the effective quota for it as well.
PreConsumeToken(r) ==
  /\ pc[r] = "token"
  /\ LET n == IF ShouldTrust(r) THEN 0 ELSE Estimate(r)
         needsToken == n > 0 /\ ~req[r].playground
     IN \/ /\ needsToken => TokenCovers(n)
           /\ trusted' = IF ShouldTrust(r) THEN trusted \cup {r} ELSE trusted
           /\ tokenConsumed' = [tokenConsumed EXCEPT ![r] = n]
           /\ MoveToken(r, IF needsToken THEN n ELSE 0)
           /\ Goto(r, "fund")
        \/ /\ needsToken /\ (~TokenCovers(n) \/ Failing)
           /\ Goto(r, "denied")
           /\ MoveNothing
           /\ UNCHANGED <<trusted, tokenConsumed>>
  /\ UNCHANGED <<subRecord, reqVars, preConsumedQuota, extraReserved, consumed, subPreConsumed,
                 fundingSettled, settled, refunded, lock, bg, charge, lost>>

\* WalletFunding.PreConsume for the effective quota (nothing when trusted).
PreConsumeWallet(r) ==
  /\ pc[r] = "fund" /\ src[r] = "wallet"
  /\ LET n == tokenConsumed[r]
     IN \/ /\ n > 0 => WalletCovers(n)
           /\ MoveWallet(r, n)
           /\ consumed' = [consumed EXCEPT ![r] = n]
           /\ preConsumedQuota' = [preConsumedQuota EXCEPT ![r] = n]
           /\ Goto(r, "open")
           /\ UNCHANGED alt
        \/ /\ n > 0
           /\ \/ ~WalletCovers(n) /\ UNCHANGED alt
              \/ Failing /\ alt' = [alt EXCEPT ![r] = "none"]
           /\ Goto(r, "rollback")
           /\ MoveNothing
           /\ UNCHANGED <<consumed, preConsumedQuota>>
  /\ UNCHANGED <<subRecord, req, src, rich, tokenConsumed, extraReserved, subPreConsumed,
                 flags, lock, bg, charge, lost>>

\* SubscriptionFunding.PreConsume: the transaction prices the package it selects
\* (amount n) and writes the record that makes the refund idempotent.
PreConsumeSubscription(r, n) ==
  /\ pc[r] = "fund" /\ src[r] = "subscription" /\ n > 0
  /\ \/ /\ HasSubscription /\ SubFits(n)
        /\ MoveSub(r, n)
        /\ subRecord' = [subRecord EXCEPT ![r] = "consumed"]
        /\ subPreConsumed' = [subPreConsumed EXCEPT ![r] = n]
        /\ Goto(r, "reconcile")
        /\ UNCHANGED alt
     \/ /\ \/ ~(HasSubscription /\ SubFits(n)) /\ UNCHANGED alt
           \/ Failing /\ alt' = [alt EXCEPT ![r] = "none"]
        /\ Goto(r, "rollback")
        /\ MoveNothing
        /\ UNCHANGED <<subRecord, subPreConsumed>>
  /\ UNCHANGED <<req, src, rich, preConsumedQuota, tokenConsumed, extraReserved, consumed,
                 flags, lock, bg, charge, lost>>

\* Mutant: the token reservation is not given back.
RollbackTokenForgotten(r) ==
  /\ pc[r] = "rollback"
  /\ MoveNothing
  /\ TryOther(r)
  /\ UNCHANGED <<subRecord, lock, bg, charge, lost>>

\* A share of an amount: the playground never moves the token.
OnToken(r, n) == IF req[r].playground THEN 0 ELSE n

\* The funding reservation failed: give the token reservation back, then fall
\* back or deny.
RollbackToken(r) ==
  /\ pc[r] = "rollback"
  /\ \/ MoveToken(r, -OnToken(r, tokenConsumed[r])) /\ UNCHANGED lost
     \/ OnToken(r, tokenConsumed[r]) > 0 /\ LogLoss(r)
  /\ TryOther(r)
  /\ UNCHANGED <<subRecord, lock, bg, charge>>

\* The token reservation follows the price of the package that was selected.
ReconcileToken(r) ==
  /\ pc[r] = "reconcile"
  /\ LET d == OnToken(r, subPreConsumed[r] - tokenConsumed[r])
     IN \/ /\ d > 0 => TokenCovers(d)
           /\ MoveToken(r, d)
           /\ tokenConsumed' = Add(tokenConsumed, r, d)
           /\ preConsumedQuota' = [preConsumedQuota EXCEPT ![r] = subPreConsumed[r]]
           /\ Goto(r, "open")
        \/ /\ (d > 0 /\ ~TokenCovers(d)) \/ (d # 0 /\ Failing)
           /\ Goto(r, "abort")
           /\ MoveNothing
           /\ UNCHANGED <<tokenConsumed, preConsumedQuota>>
  /\ UNCHANGED <<subRecord, reqVars, extraReserved, consumed, subPreConsumed,
                 flags, lock, bg, charge, lost>>

\* RefundSubscriptionPreConsume: the record's amount goes back at most once.
RefundRecord(r) ==
  /\ MoveSub(r, IF subRecord[r] = "consumed" THEN -subPreConsumed[r] ELSE 0)
  /\ subRecord' = [subRecord EXCEPT ![r] = "refunded"]

\* Reconciling failed: refund the subscription, then roll the token back.
AbortSubscription(r) ==
  /\ pc[r] = "abort"
  /\ \/ RefundRecord(r) /\ UNCHANGED lost
     \/ LogLoss(r) /\ UNCHANGED subRecord
  /\ Goto(r, "rollback")
  /\ alt' = [alt EXCEPT ![r] = "none"]
  /\ UNCHANGED <<req, src, rich, counters, flags, lock, bg, charge>>

-----------------------------------------------------------------------------
(* Reserve: funding first, then the token; the funding is rolled back when *)
(* the token refuses.                                                      *)

MoveFunding(r, n) == IF src[r] = "wallet" THEN MoveWallet(r, n) ELSE MoveSub(r, n)

\* Whether the funding source accepts a further n: only a subscription is capped.
FundingFits(r, n) == src[r] = "subscription" => SubFits(n)

\* WalletFunding counts what it holds; a subscription has its record.
OnWallet(r, n) == IF src[r] = "wallet" THEN n ELSE 0

\* A relay request reserves between attempts; the reader goroutines of a
\* realtime request may still do so after the handler has returned.
MayReserve(r) == \/ req[r].kind = "relay" /\ pc[r] = "open"
                 \/ req[r].kind = "realtime" /\ pc[r] \in Serving

\* A relay request gives up when Reserve fails; a realtime one settles its prefix.
ReserveFails(r) == Goto(r, IF req[r].kind = "relay" THEN "failed" ELSE pc[r])

\* Mutants: Reserve forgets that the session was settled, or that the reservation
\* already covers the target.
ReserveNoopSettled(r, target) == r \in refunded \cup trusted \/ target <= preConsumedQuota[r]
ReserveNoopCovered(r, target) ==
  r \in settled \cup refunded \cup trusted \/ target = preConsumedQuota[r]

ReserveNoop(r, target) ==
  r \in settled \cup refunded \cup trusted \/ target <= preConsumedQuota[r]

\* The first half of Reserve.
Reserve(r, target) ==
  /\ MayReserve(r) /\ mu[r] = "free" /\ ~ReserveNoop(r, target)
  /\ LET d == target - preConsumedQuota[r]
     IN \/ /\ FundingFits(r, d)
           /\ MoveFunding(r, d)
           /\ consumed' = Add(consumed, r, OnWallet(r, d))
           /\ mu' = [mu EXCEPT ![r] = "reserve"]
           /\ delta' = [delta EXCEPT ![r] = d]
           /\ UNCHANGED pc
        \/ /\ ~FundingFits(r, d) \/ Failing
           /\ ReserveFails(r)
           /\ MoveNothing
           /\ UNCHANGED <<consumed, lock>>
  /\ UNCHANGED <<subRecord, reqVars, preConsumedQuota, tokenConsumed, extraReserved,
                 subPreConsumed, flags, bg, charge, lost>>

Unlock(r) == /\ mu' = [mu EXCEPT ![r] = "free"]
             /\ delta' = [delta EXCEPT ![r] = 0]

\* Mutant: the raised reservation is not recorded in preConsumedQuota.
ReserveTokenUncounted(r) ==
  /\ mu[r] = "reserve"
  /\ req[r].playground \/ TokenCovers(delta[r])
  /\ MoveToken(r, OnToken(r, delta[r]))
  /\ tokenConsumed' = Add(tokenConsumed, r, delta[r])
  /\ extraReserved' = Add(extraReserved, r, delta[r])
  /\ Unlock(r)
  /\ UNCHANGED <<subRecord, reqVars, pc, preConsumedQuota, consumed, subPreConsumed, flags, bg,
                 charge, lost>>

\* The second half of Reserve.
ReserveToken(r) ==
  /\ mu[r] = "reserve"
  /\ req[r].playground \/ TokenCovers(delta[r])
  /\ MoveToken(r, OnToken(r, delta[r]))
  /\ preConsumedQuota' = Add(preConsumedQuota, r, delta[r])
  /\ tokenConsumed' = Add(tokenConsumed, r, delta[r])
  /\ extraReserved' = Add(extraReserved, r, delta[r])
  /\ Unlock(r)
  /\ UNCHANGED <<subRecord, reqVars, pc, consumed, subPreConsumed, flags, bg, charge, lost>>

\* Mutant: the funding stays reserved when the token refuses.
RollbackReserveForgotten(r) ==
  /\ mu[r] = "reserve"
  /\ ~req[r].playground /\ (~TokenCovers(delta[r]) \/ Failing)
  /\ MoveNothing
  /\ ReserveFails(r)
  /\ Unlock(r)
  /\ UNCHANGED <<subRecord, reqVars, counters, flags, bg, charge, lost>>

\* rollbackFundingReserve; a wallet rollback that fails keeps consumed raised.
RollbackReserve(r) ==
  /\ mu[r] = "reserve"
  /\ ~req[r].playground /\ (~TokenCovers(delta[r]) \/ Failing)
  /\ \/ /\ MoveFunding(r, -delta[r])
        /\ consumed' = Add(consumed, r, -OnWallet(r, delta[r]))
        /\ UNCHANGED lost
     \/ LogLoss(r) /\ UNCHANGED consumed
  /\ ReserveFails(r)
  /\ Unlock(r)
  /\ UNCHANGED <<subRecord, reqVars, preConsumedQuota, tokenConsumed, extraReserved,
                 subPreConsumed, flags, bg, charge>>

-----------------------------------------------------------------------------
(* Settle: funding first, then the token.                                  *)

\* The first half of Settle. A funding error leaves the session open.
Settle(r, actual) ==
  /\ pc[r] = "open" /\ mu[r] = "free" /\ r \notin settled
  /\ LET d == actual - preConsumedQuota[r]
     IN \/ /\ d # 0 => FundingFits(r, d)
           /\ MoveFunding(r, d)
           /\ fundingSettled' = fundingSettled \cup {r}
           /\ settled' = IF d = 0 THEN settled \cup {r} ELSE settled
           /\ usage' = [usage EXCEPT ![r] = actual]
           /\ mu' = [mu EXCEPT ![r] = IF d = 0 THEN "free" ELSE "settle"]
           /\ delta' = [delta EXCEPT ![r] = d]
           /\ Goto(r, "settled")
        \/ /\ d # 0 /\ (~FundingFits(r, d) \/ Failing)
           /\ Goto(r, "settleErr")
           /\ MoveNothing
           /\ UNCHANGED <<fundingSettled, settled, usage, lock>>
  /\ UNCHANGED <<subRecord, reqVars, counters, trusted, refunded, bg, fundFee, tokenFee, lost>>

\* The second half; a token error is logged and the session still settles.
SettleToken(r) ==
  /\ mu[r] = "settle"
  /\ \/ MoveToken(r, OnToken(r, delta[r])) /\ UNCHANGED lost
     \/ ~req[r].playground /\ LogLoss(r)
  /\ settled' = settled \cup {r}
  /\ Unlock(r)
  /\ UNCHANGED <<subRecord, reqVars, pc, counters, trusted, fundingSettled, refunded, bg, charge>>

-----------------------------------------------------------------------------
(* Refund: the flag under the mutex, the money in a goroutine.             *)

\* Mutant: a settled session still looks refundable.
NeedsRefundSettled(r) == r \notin refunded /\ (tokenConsumed[r] > 0 \/ subPreConsumed[r] > 0)

NeedsRefund(r) ==
  /\ r \notin settled \cup refunded \cup fundingSettled
  /\ tokenConsumed[r] > 0 \/ subPreConsumed[r] > 0

\* The deferred Refund of Relay, RelayTask and RelayVideoAccountTask: on any
\* error of the request, for a realtime one also after its prefix was settled
\* or after settling failed.
RefundCalled(r) == \/ pc[r] \in {"open", "failed"}
                   \/ pc[r] \in {"settled", "settleErr"} /\ req[r].kind = "realtime"

\* After it, an error that carries the violation marker costs a fee.
Refund(r) ==
  /\ RefundCalled(r) /\ mu[r] = "free"
  /\ IF NeedsRefund(r)
     THEN /\ refunded' = refunded \cup {r}
          /\ bg' = [bg EXCEPT ![r] = "funding"]
     ELSE UNCHANGED <<refunded, bg>>
  /\ \/ Goto(r, "done")
     \/ FeeQuota > 0 /\ req[r].kind # "task" /\ Goto(r, "fee")
  /\ MoveNothing
  /\ UNCHANGED <<subRecord, reqVars, counters, trusted, fundingSettled, settled, lock, charge, lost>>

RefundStep(r, label) ==
  /\ bg' = [bg EXCEPT ![r] = label]
  /\ UNCHANGED <<reqVars, pc, counters, flags, lock, charge>>

\* WalletFunding.Refund or SubscriptionFunding.Refund. Only the latter is
\* idempotent, and only the latter is retried.
RefundFunding(r) ==
  /\ bg[r] = "funding"
  /\ \/ /\ IF src[r] = "wallet"
           THEN MoveWallet(r, -consumed[r]) /\ UNCHANGED subRecord
           ELSE RefundRecord(r)
        /\ UNCHANGED lost
     \/ LogLoss(r) /\ UNCHANGED subRecord
  /\ RefundStep(r, "extra")

\* Mutants: the extra reservation is forgotten; only subscriptions get past it.
RefundExtraForgotten(r) ==
  /\ bg[r] = "extra"
  /\ MoveNothing
  /\ RefundStep(r, "token")
  /\ UNCHANGED <<subRecord, lost>>
RefundExtraStuck(r) ==
  /\ bg[r] = "extra" /\ src[r] = "subscription"
  /\ MoveSub(r, -extraReserved[r])
  /\ RefundStep(r, "token")
  /\ UNCHANGED <<subRecord, lost>>

\* What Reserve added to a subscription is not in its record.
RefundExtra(r) ==
  /\ bg[r] = "extra"
  /\ \/ MoveSub(r, OnWallet(r, extraReserved[r]) - extraReserved[r]) /\ UNCHANGED lost
     \/ src[r] = "subscription" /\ extraReserved[r] > 0 /\ LogLoss(r)
  /\ RefundStep(r, "token")
  /\ UNCHANGED subRecord

RefundToken(r) ==
  /\ bg[r] = "token"
  /\ \/ MoveToken(r, -OnToken(r, tokenConsumed[r])) /\ UNCHANGED lost
     \/ OnToken(r, tokenConsumed[r]) > 0 /\ LogLoss(r)
  /\ RefundStep(r, "done")
  /\ UNCHANGED subRecord

-----------------------------------------------------------------------------
(* ChargeViolationFeeIfNeeded: PostConsumeQuota on the same source.        *)

ChargeFee(r) ==
  /\ pc[r] = "fee"
  /\ \/ /\ FundingFits(r, FeeQuota)
        /\ MoveFunding(r, FeeQuota)
        /\ fundFee' = [fundFee EXCEPT ![r] = FeeQuota]
        /\ Goto(r, IF req[r].playground THEN "done" ELSE "feeToken")
     \/ /\ ~FundingFits(r, FeeQuota) \/ Failing
        /\ Goto(r, "done")
        /\ MoveNothing
        /\ UNCHANGED fundFee
  /\ UNCHANGED <<subRecord, reqVars, counters, flags, lock, bg, usage, tokenFee, lost>>

ChargeFeeToken(r) ==
  /\ pc[r] = "feeToken"
  /\ \/ /\ MoveToken(r, FeeQuota)
        /\ tokenFee' = [tokenFee EXCEPT ![r] = FeeQuota]
        /\ UNCHANGED lost
     \/ LogLoss(r) /\ UNCHANGED tokenFee
  /\ Goto(r, "done")
  /\ UNCHANGED <<subRecord, reqVars, counters, flags, lock, bg, usage, fundFee>>

\* Mutant: a failed settlement never lets the request end.
FinishSettledOnly(r) ==
  /\ mu[r] = "free" /\ pc[r] = "settled"
  /\ Goto(r, "done")
  /\ MoveNothing
  /\ UNCHANGED <<subRecord, reqVars, counters, flags, lock, bg, charge, lost>>

\* The handler returns without an error. Only the realtime path turns a failed
\* settlement into one, when there is something to refund.
Finish(r) ==
  /\ mu[r] = "free"
  /\ \/ pc[r] = "settled"
     \/ pc[r] = "settleErr" /\ (req[r].kind = "realtime" => ~NeedsRefund(r))
  /\ Goto(r, "done")
  /\ MoveNothing
  /\ UNCHANGED <<subRecord, reqVars, counters, flags, lock, bg, charge, lost>>

-----------------------------------------------------------------------------
\* The steps the request's own goroutine takes without waiting for anybody.
Progress(r) ==
  \/ QuoteWallet(r) \/ PreConsumeToken(r) \/ PreConsumeWallet(r)
  \/ \E n \in Quotas : PreConsumeSubscription(r, n)
  \/ RollbackToken(r) \/ ReconcileToken(r) \/ AbortSubscription(r)
  \/ ReserveToken(r) \/ RollbackReserve(r) \/ SettleToken(r)
  \/ ChargeFee(r) \/ ChargeFeeToken(r)

\* How the handler ends the upstream attempt.
Handler(r) == Refund(r) \/ (\E q \in Quotas : Settle(r, q)) \/ Finish(r)

RefundGoroutine(r) == RefundFunding(r) \/ RefundExtra(r) \/ RefundToken(r)

Next ==
  \E r \in Requests :
    \/ \E q \in Quotas, k \in Kinds, p \in Playgrounds, b \in Preferences : Start(r, q, k, p, b)
    \/ \E q \in Quotas : Reserve(r, q)
    \/ Progress(r)
    \/ Handler(r)
    \/ RefundGoroutine(r)

Spec == Init /\ [][Next]_vars

\* Goroutines run on, every upstream attempt ends (answer, error or timeout), and
\* sync.Mutex lets no waiter starve behind the readers that keep reserving.
Fairness == \A r \in Requests : /\ WF_vars(Progress(r))
                                /\ SF_vars(Handler(r))
                                /\ WF_vars(RefundGoroutine(r))

FairSpec == Spec /\ Fairness

-----------------------------------------------------------------------------
(* Properties.                                                             *)

\* Every variable has its type; the session's counters are never negative.
TypeOK ==
  /\ wallet \in Int /\ tokenRemain \in Int /\ subUsed \in Nat
  /\ subRecord \in [Requests -> {"none", "consumed", "refunded"}]
  /\ pc \in [Requests -> Waiting \cup Serving]
  /\ req \in [Requests -> RelayInfo]
  /\ src \in [Requests -> Sources]
  /\ alt \in [Requests -> Sources \cup {"none"}]
  /\ rich \subseteq Requests
  /\ preConsumedQuota \in [Requests -> Nat]
  /\ tokenConsumed \in [Requests -> Nat]
  /\ extraReserved \in [Requests -> Nat]
  /\ consumed \in [Requests -> Nat]
  /\ subPreConsumed \in [Requests -> Nat]
  /\ trusted \subseteq Requests /\ fundingSettled \subseteq Requests
  /\ settled \subseteq Requests /\ refunded \subseteq Requests
  /\ mu \in [Requests -> {"free", "reserve", "settle"}]
  /\ delta \in [Requests -> Int]
  /\ bg \in [Requests -> {"idle", "funding", "extra", "token", "done"}]
  /\ paidWallet \in [Requests -> Int]
  /\ paidSub \in [Requests -> Int]
  /\ paidToken \in [Requests -> Int]
  /\ usage \in [Requests -> Nat]
  /\ fundFee \in [Requests -> Nat]
  /\ tokenFee \in [Requests -> Nat]
  /\ lost \subseteq Requests

Funded(r) == IF src[r] = "wallet" THEN paidWallet[r] ELSE paidSub[r]
Unfunded(r) == IF src[r] = "wallet" THEN paidSub[r] ELSE paidWallet[r]

\* Once Settle has completed and nothing failed on the way, the request has cost
\* its source exactly the usage it was settled for (plus a violation fee), the
\* token the same unless it is a playground request, and the other source nothing.
SettledExactly ==
  \A r \in settled \ lost :
    /\ Funded(r) = usage[r] + fundFee[r]
    /\ Unfunded(r) = 0
    /\ paidToken[r] = OnToken(r, usage[r]) + tokenFee[r]

\* Once the refund goroutine is through and nothing failed, whatever was reserved
\* by preConsume and by every Reserve has gone back; only a violation fee remains.
RefundedFully ==
  \A r \in Requests \ lost : bg[r] = "done" =>
    /\ Funded(r) = fundFee[r]
    /\ Unfunded(r) = 0
    /\ paidToken[r] = tokenFee[r]

\* A request refused by preConsume, after any fallback between the sources, has
\* cost nothing unless a rollback failed.
DeniedCostsNothing ==
  \A r \in Requests \ lost : pc[r] = "denied" =>
    paidWallet[r] = 0 /\ paidSub[r] = 0 /\ paidToken[r] = 0

\* Whatever fails and in whatever order, no request is given back more than was
\* taken from it, on any of the three ledgers.
NeverOverReturned ==
  \A r \in Requests : paidWallet[r] >= 0 /\ paidSub[r] >= 0 /\ paidToken[r] >= 0

\* A request whose goroutine has ended with an open session and no refund under
\* way keeps exactly its reservation: settling it failed, or it was trusted.
OpenKeepsReservation ==
  \A r \in Requests \ (settled \cup refunded \cup lost) :
    pc[r] = "done" /\ mu[r] = "free" =>
      /\ Funded(r) = preConsumedQuota[r] + fundFee[r]
      /\ paidToken[r] = OnToken(r, preConsumedQuota[r]) + tokenFee[r]

\* What the comment on ReserveWssConsumeQuota promises: a reservation that grows
\* with the usage is settled exactly once when the websocket closes. So a realtime
\* request that has ended, was not settled and has no refund under way holds nothing.
RealtimeEndHoldsNothing ==
  \A r \in Requests \ (settled \cup refunded \cup lost) :
    req[r].kind = "realtime" /\ pc[r] = "done" /\ mu[r] = "free" =>
      Funded(r) = fundFee[r]

\* preConsume never overdraws a ledger, although it checks balances that other
\* requests change: only Reserve, settlement and fees may push the wallet below
\* zero, and only settlement and fees the token.
PreConsumeNeverOverdraws ==
  [][\A r \in Requests :
       /\ pc[r] = "fund" /\ pc'[r] = "open" /\ wallet' < wallet => wallet' >= 0
       /\ pc[r] \in {"token", "reconcile"} /\ pc'[r] # pc[r] /\ tokenRemain' < tokenRemain
          => TokenUnlimited \/ tokenRemain' >= 0]_vars

\* What became of request r on a ledger: done are the requests settled on it, and
\* moving the labels of the refund goroutine until it has paid the ledger back.
Outcome(r, done, moving) ==
  IF r \in done THEN "settled"
  ELSE IF bg[r] \in moving THEN "refunding"
  ELSE IF bg[r] # "idle" THEN "refunded"
  ELSE IF pc[r] = "denied" THEN "denied" ELSE "open"

\* The funding sources: a request that fell back has been given back what it held on
\* the first one, so they count as one ledger.
SourceLedger == INSTANCE RequestCharges WITH
  Fee <- FeeQuota, fee <- fundFee,
  outcome <- [r \in Requests |-> Outcome(r, fundingSettled, {"funding", "extra"})],
  amount <- [r \in Requests |-> paidWallet[r] + paidSub[r] - fundFee[r]],
  bill <- [r \in Requests |-> IF r \in fundingSettled THEN usage[r] ELSE 0]

TokenLedger == INSTANCE RequestCharges WITH
  Fee <- FeeQuota, fee <- tokenFee,
  outcome <- [r \in Requests |-> Outcome(r, settled, {"funding", "extra", "token"})],
  amount <- [r \in Requests |-> paidToken[r] - tokenFee[r]],
  bill <- [r \in Requests |-> IF r \in settled THEN OnToken(r, usage[r]) ELSE 0]

\* Every step of every request is one of RequestCharges on the funding sources: one of
\* denial, settlement and refund decides the charge, and no late Reserve, second Settle
\* or deferred Refund of any goroutine moves it afterwards (Settle, Refund, Reserve).
ChargesSource == SourceLedger!Spec

\* ... and on the token, which every operation moves after or before the source.
ChargesToken == TokenLedger!Spec

\* A refund that was promised (refunded set by Refund) is carried out.
RefundHappens == \A r \in Requests : r \in refunded ~> bg[r] = "done"

\* Every request that started is denied or its handler returns (Relay, RelayTask).
RequestEnds == \A r \in Requests : pc[r] # "idle" ~> pc[r] \in {"denied", "done"}
=============================================================================
