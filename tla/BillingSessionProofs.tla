------------------------ MODULE BillingSessionProofs ------------------------
(***************************************************************************)
(* Proofs about BillingSession for any number of requests and any amounts. *)
(*                                                                         *)
(* The books of a request (what it holds on its funding source and on the  *)
(* token) follow from where its goroutines stand.  The invariant says that *)
(* the request never holds less than its books say, and exactly what they  *)
(* say as long as no failed operation was swallowed.                       *)
(***************************************************************************)
EXTENDS BillingSession, TLAPS

\* Reserve has taken delta from the funding source but not yet from the token.
InFlight(r) == IF mu[r] = "reserve" THEN delta[r] ELSE 0

\* What the session holds on its funding source, fees apart, before it is settled
\* or refunded. WalletFunding keeps its own counter.
Reserved(r) == IF src[r] = "wallet" THEN consumed[r] ELSE preConsumedQuota[r] + InFlight(r)

FundBook(r) ==
  IF pc[r] \in {"reconcile", "abort"} THEN subPreConsumed[r]
  ELSE IF pc[r] \in Waiting THEN 0
  ELSE IF bg[r] \in {"token", "done"} THEN fundFee[r]
  ELSE IF bg[r] = "extra" THEN extraReserved[r] - OnWallet(r, extraReserved[r]) + fundFee[r]
  ELSE IF r \in fundingSettled THEN usage[r] + fundFee[r]
  ELSE Reserved(r) + fundFee[r]

TokenBook(r) ==
  IF pc[r] \in {"idle", "quote", "token", "denied"} THEN 0
  ELSE IF bg[r] = "done" THEN tokenFee[r]
  ELSE IF r \in settled THEN OnToken(r, usage[r]) + tokenFee[r]
  ELSE OnToken(r, tokenConsumed[r]) + tokenFee[r]

\* The books balance unless an operation was lost, and are never in the red.
FundBalance(r) ==
  /\ Funded(r) >= FundBook(r)
  /\ Unfunded(r) >= 0
  /\ r \notin lost => Funded(r) = FundBook(r) /\ Unfunded(r) = 0

TokenBalance(r) ==
  /\ paidToken[r] >= tokenFee[r]
  /\ r \notin settled => paidToken[r] >= TokenBook(r)
  /\ r \notin lost => paidToken[r] = TokenBook(r)

\* Before the session is handed out it is untouched by Reserve, Settle and Refund.
NotServing(r) ==
  pc[r] \in Waiting =>
    /\ mu[r] = "free" /\ bg[r] = "idle"
    /\ r \notin fundingSettled /\ r \notin settled /\ r \notin refunded
    /\ extraReserved[r] = 0 /\ preConsumedQuota[r] = 0 /\ consumed[r] = 0
    /\ fundFee[r] = 0 /\ tokenFee[r] = 0
    /\ pc[r] \in {"idle", "quote", "token", "fund"} => subPreConsumed[r] = 0
    /\ pc[r] \in {"idle", "quote", "token", "denied"} => tokenConsumed[r] = 0
    /\ pc[r] \in {"reconcile", "abort"} => src[r] = "subscription" /\ subRecord[r] = "consumed"
    /\ src[r] = "wallet" => subPreConsumed[r] = 0

\* While it is handed out, its counters fit together.
Counters(r) ==
  pc[r] \in Serving =>
    /\ src[r] = "wallet" =>
         /\ subPreConsumed[r] = 0
         /\ consumed[r] >= preConsumedQuota[r] + InFlight(r)
         /\ r \notin lost => consumed[r] = preConsumedQuota[r] + InFlight(r)
    /\ src[r] = "subscription" =>
         /\ preConsumedQuota[r] = subPreConsumed[r] + extraReserved[r]
         /\ bg[r] \in {"idle", "funding"} => subRecord[r] = "consumed"
    /\ ~req[r].playground => tokenConsumed[r] = preConsumedQuota[r]

\* The flags, the mutex and the two goroutines agree.
Control(r) ==
  /\ mu[r] = "free" => (r \in fundingSettled <=> r \in settled)
  /\ mu[r] = "settle" =>
       /\ r \in fundingSettled /\ r \notin settled /\ pc[r] = "settled"
       /\ usage[r] = preConsumedQuota[r] + delta[r]
  /\ mu[r] = "reserve" =>
       /\ r \notin fundingSettled /\ r \notin settled /\ r \notin refunded /\ delta[r] > 0
       /\ req[r].kind = "relay" => pc[r] = "open"
  /\ r \in refunded <=> bg[r] # "idle"
  /\ r \in refunded => r \notin fundingSettled /\ r \notin settled /\ mu[r] = "free"
  /\ pc[r] \in {"open", "failed", "settled", "settleErr"} => r \notin refunded
  /\ pc[r] \in {"open", "failed", "settleErr"} => r \notin fundingSettled /\ r \notin settled
  /\ pc[r] \in {"open", "failed", "settled", "settleErr", "fee"} =>
       fundFee[r] = 0 /\ tokenFee[r] = 0
  /\ pc[r] = "feeToken" => tokenFee[r] = 0 /\ ~req[r].playground

ReqInv(r) == NotServing(r) /\ Counters(r) /\ Control(r) /\ FundBalance(r) /\ TokenBalance(r)

IInv == TypeOK /\ \A r \in Requests : ReqInv(r)

-----------------------------------------------------------------------------
(* Lemmas.                                                                 *)

USE DEF RelayInfo, Waiting, Serving, Sources, ledgers, reqVars, counters, flags, lock, paid,
        charge, MoveWallet, MoveToken, MoveSub, MoveFunding, MoveNothing, LogLoss, FundingFits,
        OnWallet, OnToken, Goto, Add, Unlock, RefundStep

\* The types of one request's state.
Scalars(r) ==
  /\ preConsumedQuota[r] \in Nat /\ tokenConsumed[r] \in Nat /\ extraReserved[r] \in Nat
  /\ consumed[r] \in Nat /\ subPreConsumed[r] \in Nat /\ delta[r] \in Int
  /\ pc[r] \in Waiting \cup Serving /\ src[r] \in Sources /\ alt[r] \in Sources \cup {"none"}
  /\ req[r].quota \in Nat /\ req[r].playground \in BOOLEAN
  /\ req[r].kind \in {"relay", "realtime", "task"}
  /\ mu[r] \in {"free", "reserve", "settle"}
  /\ bg[r] \in {"idle", "funding", "extra", "token", "done"}
  /\ paidWallet[r] \in Int /\ paidSub[r] \in Int /\ paidToken[r] \in Int
  /\ usage[r] \in Nat /\ fundFee[r] \in Nat /\ tokenFee[r] \in Nat

\* Nothing of request q changes.
Same(q) ==
  /\ subRecord'[q] = subRecord[q]
  /\ pc'[q] = pc[q]
  /\ req'[q] = req[q]
  /\ src'[q] = src[q]
  /\ preConsumedQuota'[q] = preConsumedQuota[q]
  /\ tokenConsumed'[q] = tokenConsumed[q]
  /\ extraReserved'[q] = extraReserved[q]
  /\ consumed'[q] = consumed[q]
  /\ subPreConsumed'[q] = subPreConsumed[q]
  /\ mu'[q] = mu[q]
  /\ delta'[q] = delta[q]
  /\ bg'[q] = bg[q]
  /\ paidWallet'[q] = paidWallet[q]
  /\ paidSub'[q] = paidSub[q]
  /\ paidToken'[q] = paidToken[q]
  /\ usage'[q] = usage[q]
  /\ fundFee'[q] = fundFee[q]
  /\ tokenFee'[q] = tokenFee[q]
  /\ (q \in lost)' <=> q \in lost
  /\ (q \in fundingSettled)' <=> q \in fundingSettled
  /\ (q \in settled)' <=> q \in settled
  /\ (q \in refunded)' <=> q \in refunded

\* The type invariant gives the types of one request's state.
LEMMA ScalarTypes == ASSUME TypeOK, NEW r \in Requests PROVE Scalars(r)
BY DEF TypeOK, Scalars

\* What holds of a request is not disturbed by steps of other requests: no ledger
\* balance occurs in its invariant, only the request's own share of it.
LEMMA Frame == ASSUME NEW q \in Requests, ReqInv(q), Same(q) PROVE ReqInv(q)'
BY DEF Same, ReqInv, NotServing, Counters, Control, InFlight, FundBalance, TokenBalance,
       Funded, Unfunded, FundBook, TokenBook, Reserved

\* Start, entering NewBillingSession:
\* types and the request's invariant are kept, other requests are untouched.
LEMMA StartPreserves ==
  ASSUME NEW r \in Requests,
         NEW q \in Quotas, NEW k \in Kinds, NEW p \in Playgrounds, NEW b \in Preferences,
         ConstantsAssumption, TypeOK, ReqInv(r), Start(r, q, k, p, b)
  PROVE  TypeOK' /\ ReqInv(r)' /\ \A o \in Requests \ {r} : Same(o)
<1>1. /\ req \in [Requests -> RelayInfo]
      /\ src \in [Requests -> Sources]
      /\ alt \in [Requests -> Sources \cup {"none"}]
      /\ pc \in [Requests -> Waiting \cup Serving]
  BY DEF TypeOK
<1>2. Scalars(r)
  BY ScalarTypes
<1>3. /\ req' \in [Requests -> RelayInfo]
      /\ src' \in [Requests -> Sources]
      /\ alt' \in [Requests -> Sources \cup {"none"}]
      /\ pc' \in [Requests -> Waiting \cup Serving]
  BY <1>1 DEF Start, FirstSource, SecondSource, Entry
<1>4. TypeOK'
  BY <1>3 DEF TypeOK, Start
<1>5. NotServing(r)'
  BY <1>1, <1>2 DEF Scalars, Start, FirstSource, SecondSource, Entry, ReqInv, NotServing
<1>6. Counters(r)'
  BY <1>1, <1>2 DEF Scalars, Start, FirstSource, SecondSource, Entry, ReqInv, Counters,
     InFlight
<1>7. Control(r)'
  BY <1>1, <1>2 DEF Scalars, Start, FirstSource, SecondSource, Entry, ReqInv, Control,
     NotServing
<1>8. FundBalance(r)'
  BY <1>1, <1>2 DEF Scalars, Start, FirstSource, SecondSource, Entry, ReqInv, FundBalance,
     Funded, Unfunded, FundBook, Reserved
<1>9. TokenBalance(r)'
  BY <1>1, <1>2 DEF Scalars, Start, FirstSource, SecondSource, Entry, ReqInv, TokenBalance,
     TokenBook
<1>10. ASSUME NEW o \in Requests \ {r} PROVE Same(o)
  BY <1>1 DEF Start, FirstSource, SecondSource, Entry, Same
<1> QED
  BY <1>4, <1>5, <1>6, <1>7, <1>8, <1>9, <1>10 DEF ReqInv

\* QuoteWallet, reading the wallet balance:
\* types and the request's invariant are kept, other requests are untouched.
LEMMA QuoteWalletPreserves ==
  ASSUME NEW r \in Requests,
         ConstantsAssumption, TypeOK, ReqInv(r), QuoteWallet(r)
  PROVE  TypeOK' /\ ReqInv(r)' /\ \A o \in Requests \ {r} : Same(o)
<1>1. /\ req \in [Requests -> RelayInfo] /\ Quotas \subseteq Nat
      /\ src \in [Requests -> Sources]
      /\ alt \in [Requests -> Sources \cup {"none"}]
      /\ tokenConsumed \in [Requests -> Nat]
      /\ subPreConsumed \in [Requests -> Nat]
      /\ pc \in [Requests -> Waiting \cup Serving]
  BY DEF TypeOK, ConstantsAssumption
<1>2. Scalars(r)
  BY ScalarTypes
<1>12. req' \in [Requests -> RelayInfo]
  <2>1. req' = req \/ \E q \in Quotas : req' = [req EXCEPT ![r].quota = q]
    BY DEF QuoteWallet, TryOther
  <2>2. ASSUME NEW q \in Quotas, req' = [req EXCEPT ![r].quota = q]
        PROVE  req' \in [Requests -> RelayInfo]
    <3>1. req[r] \in RelayInfo /\ q \in Nat
      BY <1>1
    <3>2. [req[r] EXCEPT !.quota = q] \in RelayInfo
      BY <3>1
    <3> QED
      BY <1>1, <2>2, <3>2 DEF TypeOK
  <2> QED
    BY <1>1, <2>1, <2>2
<1>3. /\ src' \in [Requests -> Sources]
      /\ alt' \in [Requests -> Sources \cup {"none"}]
      /\ tokenConsumed' \in [Requests -> Nat]
      /\ subPreConsumed' \in [Requests -> Nat]
      /\ pc' \in [Requests -> Waiting \cup Serving]
  <2>1. src' \in [Requests -> Sources]
    <3>1. src' = src \/ (alt[r] \in Sources /\ src' = [src EXCEPT ![r] = alt[r]])
      BY <1>2 DEF QuoteWallet, TryOther, Scalars
    <3> QED
      BY <1>1, <3>1
  <2>2. alt' \in [Requests -> Sources \cup {"none"}]
    BY <1>1 DEF QuoteWallet, TryOther
  <2>3. tokenConsumed' \in [Requests -> Nat] /\ subPreConsumed' \in [Requests -> Nat]
    <3>1. \/ UNCHANGED <<tokenConsumed, subPreConsumed>>
          \/ /\ tokenConsumed' = [tokenConsumed EXCEPT ![r] = 0]
             /\ subPreConsumed' = [subPreConsumed EXCEPT ![r] = 0]
      BY DEF QuoteWallet, TryOther
    <3> QED
      BY <1>1, <3>1
  <2>4. pc' \in [Requests -> Waiting \cup Serving]
    <3>1. \E l \in {"denied", "quote", "token"} : pc' = [pc EXCEPT ![r] = l]
      BY DEF QuoteWallet, TryOther, Entry
    <3> QED
      BY <1>1, <3>1
  <2> QED
    BY <2>1, <2>2, <2>3, <2>4
<1>4. rich' \subseteq Requests /\ trusted' \subseteq Requests
  BY DEF TypeOK, QuoteWallet, TryOther
<1>5. TypeOK'
  BY <1>3, <1>4, <1>12 DEF TypeOK, QuoteWallet, TryOther
<1>6. NotServing(r)'
  BY <1>1, <1>2 DEF Scalars, QuoteWallet, TryOther, Entry, ReqInv, NotServing
<1>7. Counters(r)'
  BY <1>1, <1>2 DEF Scalars, QuoteWallet, TryOther, Entry, ReqInv, Counters, InFlight
<1>8. Control(r)'
  BY <1>1, <1>2 DEF Scalars, QuoteWallet, TryOther, Entry, ReqInv, Control
<1>9. FundBalance(r)'
  BY <1>1, <1>2 DEF Scalars, QuoteWallet, TryOther, Entry, ReqInv, FundBalance, Funded,
     Unfunded, FundBook, Reserved
<1>10. TokenBalance(r)'
  BY <1>1, <1>2 DEF Scalars, QuoteWallet, TryOther, Entry, ReqInv, TokenBalance, TokenBook
<1>11. ASSUME NEW o \in Requests \ {r} PROVE Same(o)
  BY <1>1 DEF QuoteWallet, TryOther, Entry, Same
<1> QED
  BY <1>5, <1>6, <1>7, <1>8, <1>9, <1>10, <1>11 DEF ReqInv

\* PreConsumeToken, reserving on the token:
\* types and the request's invariant are kept, other requests are untouched.
LEMMA PreConsumeTokenPreserves ==
  ASSUME NEW r \in Requests,
         ConstantsAssumption, TypeOK, ReqInv(r), PreConsumeToken(r)
  PROVE  TypeOK' /\ ReqInv(r)' /\ \A o \in Requests \ {r} : Same(o)
<1>1. /\ tokenConsumed \in [Requests -> Nat]
      /\ paidToken \in [Requests -> Int]
      /\ pc \in [Requests -> Waiting \cup Serving]
      /\ tokenRemain \in Int
  BY DEF TypeOK
<1>2. Scalars(r)
  BY ScalarTypes
<1>3. /\ tokenConsumed' \in [Requests -> Nat]
      /\ paidToken' \in [Requests -> Int]
      /\ pc' \in [Requests -> Waiting \cup Serving]
      /\ tokenRemain' \in Int
  BY <1>1, <1>2 DEF Scalars, PreConsumeToken, ShouldTrust, Estimate
<1>4. trusted' \subseteq Requests
  BY DEF TypeOK, PreConsumeToken
<1>5. TypeOK'
  BY <1>3, <1>4 DEF TypeOK, PreConsumeToken
<1>6. NotServing(r)'
  BY <1>1, <1>2 DEF Scalars, PreConsumeToken, ShouldTrust, Estimate, ReqInv, NotServing
<1>7. Counters(r)'
  BY <1>1, <1>2 DEF Scalars, PreConsumeToken, ShouldTrust, Estimate, ReqInv, Counters, InFlight
<1>8. Control(r)'
  BY <1>1, <1>2 DEF Scalars, PreConsumeToken, ShouldTrust, Estimate, ReqInv, Control
<1>9. FundBalance(r)'
  BY <1>1, <1>2 DEF Scalars, PreConsumeToken, ShouldTrust, Estimate, ReqInv, FundBalance,
     Funded, Unfunded, FundBook, Reserved
<1>10. TokenBalance(r)'
  BY <1>1, <1>2 DEF Scalars, PreConsumeToken, ShouldTrust, Estimate, ReqInv, TokenBalance,
     TokenBook, NotServing
<1>11. ASSUME NEW o \in Requests \ {r} PROVE Same(o)
  BY <1>1 DEF PreConsumeToken, ShouldTrust, Estimate, Same
<1> QED
  BY <1>5, <1>6, <1>7, <1>8, <1>9, <1>10, <1>11 DEF ReqInv

\* PreConsumeWallet, reserving on the wallet:
\* types and the request's invariant are kept, other requests are untouched.
LEMMA PreConsumeWalletPreserves ==
  ASSUME NEW r \in Requests,
         ConstantsAssumption, TypeOK, ReqInv(r), PreConsumeWallet(r)
  PROVE  TypeOK' /\ ReqInv(r)' /\ \A o \in Requests \ {r} : Same(o)
<1>1. /\ paidWallet \in [Requests -> Int]
      /\ consumed \in [Requests -> Nat]
      /\ preConsumedQuota \in [Requests -> Nat]
      /\ pc \in [Requests -> Waiting \cup Serving]
      /\ alt \in [Requests -> Sources \cup {"none"}]
      /\ wallet \in Int
  BY DEF TypeOK
<1>2. Scalars(r)
  BY ScalarTypes
<1>3. /\ paidWallet' \in [Requests -> Int]
      /\ consumed' \in [Requests -> Nat]
      /\ preConsumedQuota' \in [Requests -> Nat]
      /\ pc' \in [Requests -> Waiting \cup Serving]
      /\ alt' \in [Requests -> Sources \cup {"none"}]
      /\ wallet' \in Int
  BY <1>1, <1>2 DEF Scalars, PreConsumeWallet
<1>4. TypeOK'
  BY <1>3 DEF TypeOK, PreConsumeWallet
<1>5. NotServing(r)'
  BY <1>1, <1>2 DEF Scalars, PreConsumeWallet, ReqInv, NotServing
<1>6. Counters(r)'
  BY <1>1, <1>2 DEF Scalars, PreConsumeWallet, ReqInv, Counters, InFlight, NotServing
<1>7. Control(r)'
  BY <1>1, <1>2 DEF Scalars, PreConsumeWallet, ReqInv, Control, NotServing
<1>8. FundBalance(r)'
  BY <1>1, <1>2 DEF Scalars, PreConsumeWallet, ReqInv, FundBalance, Funded, Unfunded, FundBook,
     Reserved, NotServing
<1>9. TokenBalance(r)'
  BY <1>1, <1>2 DEF Scalars, PreConsumeWallet, ReqInv, TokenBalance, TokenBook
<1>10. ASSUME NEW o \in Requests \ {r} PROVE Same(o)
  BY <1>1 DEF PreConsumeWallet, Same
<1> QED
  BY <1>4, <1>5, <1>6, <1>7, <1>8, <1>9, <1>10 DEF ReqInv

\* PreConsumeSubscription, reserving on the subscription:
\* types and the request's invariant are kept, other requests are untouched.
LEMMA PreConsumeSubscriptionPreserves ==
  ASSUME NEW r \in Requests, NEW n \in Quotas,
         ConstantsAssumption, TypeOK, ReqInv(r), PreConsumeSubscription(r, n)
  PROVE  TypeOK' /\ ReqInv(r)' /\ \A o \in Requests \ {r} : Same(o)
<1>1. /\ paidSub \in [Requests -> Int]
      /\ subRecord \in [Requests -> {"none", "consumed", "refunded"}]
      /\ subPreConsumed \in [Requests -> Nat]
      /\ pc \in [Requests -> Waiting \cup Serving]
      /\ alt \in [Requests -> Sources \cup {"none"}]
      /\ subUsed \in Nat
  BY DEF TypeOK
<1>2. Scalars(r)
  BY ScalarTypes
<1>3. /\ paidSub' \in [Requests -> Int]
      /\ subRecord' \in [Requests -> {"none", "consumed", "refunded"}]
      /\ subPreConsumed' \in [Requests -> Nat]
      /\ pc' \in [Requests -> Waiting \cup Serving]
      /\ alt' \in [Requests -> Sources \cup {"none"}]
      /\ subUsed' \in Nat
  BY <1>1 DEF PreConsumeSubscription
<1>4. TypeOK'
  BY <1>3 DEF TypeOK, PreConsumeSubscription
<1>5. NotServing(r)'
  BY <1>1, <1>2 DEF Scalars, PreConsumeSubscription, ReqInv, NotServing
<1>6. Counters(r)'
  BY <1>1, <1>2 DEF Scalars, PreConsumeSubscription, ReqInv, Counters, InFlight
<1>7. Control(r)'
  BY <1>1, <1>2 DEF Scalars, PreConsumeSubscription, ReqInv, Control
<1>8. FundBalance(r)'
  BY <1>1, <1>2 DEF Scalars, PreConsumeSubscription, ReqInv, FundBalance, Funded, Unfunded,
     FundBook, Reserved
<1>9. TokenBalance(r)'
  BY <1>1, <1>2 DEF Scalars, PreConsumeSubscription, ReqInv, TokenBalance, TokenBook
<1>10. ASSUME NEW o \in Requests \ {r} PROVE Same(o)
  BY <1>1 DEF PreConsumeSubscription, Same
<1> QED
  BY <1>4, <1>5, <1>6, <1>7, <1>8, <1>9, <1>10 DEF ReqInv

\* RollbackToken, giving the token reservation back:
\* types and the request's invariant are kept, other requests are untouched.
LEMMA RollbackTokenPreserves ==
  ASSUME NEW r \in Requests,
         ConstantsAssumption, TypeOK, ReqInv(r), RollbackToken(r)
  PROVE  TypeOK' /\ ReqInv(r)' /\ \A o \in Requests \ {r} : Same(o)
<1>1. /\ paidToken \in [Requests -> Int]
      /\ req \in [Requests -> RelayInfo] /\ Quotas \subseteq Nat
      /\ src \in [Requests -> Sources]
      /\ alt \in [Requests -> Sources \cup {"none"}]
      /\ tokenConsumed \in [Requests -> Nat]
      /\ subPreConsumed \in [Requests -> Nat]
      /\ pc \in [Requests -> Waiting \cup Serving]
      /\ tokenRemain \in Int
  BY DEF TypeOK, ConstantsAssumption
<1>2. Scalars(r)
  BY ScalarTypes
<1>12. req' \in [Requests -> RelayInfo]
  <2>1. req' = req \/ \E q \in Quotas : req' = [req EXCEPT ![r].quota = q]
    BY DEF RollbackToken, TryOther
  <2>2. ASSUME NEW q \in Quotas, req' = [req EXCEPT ![r].quota = q]
        PROVE  req' \in [Requests -> RelayInfo]
    <3>1. req[r] \in RelayInfo /\ q \in Nat
      BY <1>1
    <3>2. [req[r] EXCEPT !.quota = q] \in RelayInfo
      BY <3>1
    <3> QED
      BY <1>1, <2>2, <3>2 DEF TypeOK
  <2> QED
    BY <1>1, <2>1, <2>2
<1>3. /\ src' \in [Requests -> Sources]
      /\ alt' \in [Requests -> Sources \cup {"none"}]
      /\ tokenConsumed' \in [Requests -> Nat]
      /\ subPreConsumed' \in [Requests -> Nat]
      /\ pc' \in [Requests -> Waiting \cup Serving]
      /\ paidToken' \in [Requests -> Int]
      /\ tokenRemain' \in Int
  <2>1. src' \in [Requests -> Sources]
    <3>1. src' = src \/ (alt[r] \in Sources /\ src' = [src EXCEPT ![r] = alt[r]])
      BY <1>2 DEF RollbackToken, TryOther, Scalars
    <3> QED
      BY <1>1, <3>1
  <2>2. alt' \in [Requests -> Sources \cup {"none"}]
    BY <1>1 DEF RollbackToken, TryOther
  <2>3. tokenConsumed' \in [Requests -> Nat] /\ subPreConsumed' \in [Requests -> Nat]
    BY <1>1 DEF RollbackToken, TryOther
  <2>4. pc' \in [Requests -> Waiting \cup Serving]
    BY <1>1 DEF RollbackToken, TryOther, Entry
  <2>5. paidToken' \in [Requests -> Int] /\ tokenRemain' \in Int
    BY <1>1, <1>2 DEF RollbackToken, Scalars
  <2> QED
    BY <2>1, <2>2, <2>3, <2>4, <2>5
<1>4. trusted' \subseteq Requests /\ lost' \subseteq Requests
  BY DEF TypeOK, RollbackToken, TryOther
<1>5. TypeOK'
  BY <1>3, <1>4, <1>12 DEF TypeOK, RollbackToken, TryOther
<1>6. NotServing(r)'
  BY <1>1, <1>2 DEF Scalars, RollbackToken, TryOther, Entry, ReqInv, NotServing
<1>7. Counters(r)'
  BY <1>1, <1>2 DEF Scalars, RollbackToken, TryOther, Entry, ReqInv, Counters, InFlight
<1>8. Control(r)'
  BY <1>1, <1>2 DEF Scalars, RollbackToken, TryOther, Entry, ReqInv, Control
<1>9. FundBalance(r)'
  BY <1>1, <1>2 DEF Scalars, RollbackToken, TryOther, Entry, ReqInv, FundBalance, Funded,
     Unfunded, FundBook, Reserved
<1>10. TokenBalance(r)'
  <2>1. pc[r] = "rollback" /\ bg[r] = "idle" /\ r \notin settled /\ tokenFee[r] = 0
    BY DEF RollbackToken, ReqInv, NotServing
  <2>2. pc'[r] \in {"denied", "quote", "token"}
    BY <1>1, <1>2 DEF RollbackToken, TryOther, Entry
  <2>3. tokenFee' = tokenFee /\ settled' = settled
    BY DEF RollbackToken, TryOther
  <2>4. \/ paidToken'[r] = paidToken[r] - OnToken(r, tokenConsumed[r]) /\ lost' = lost
        \/ paidToken'[r] = paidToken[r] /\ lost' = lost \cup {r}
    BY <1>1, <1>2 DEF RollbackToken, Scalars
  <2>5. TokenBook(r) = OnToken(r, tokenConsumed[r]) /\ TokenBook(r) \in Nat
    BY <1>2, <2>1 DEF TokenBook, Scalars
  <2>6. TokenBook(r)' = 0
    BY <2>2 DEF TokenBook
  <2>7. paidToken[r] >= TokenBook(r) /\ (r \notin lost => paidToken[r] = TokenBook(r))
    BY <2>1 DEF ReqInv, TokenBalance
  <2> HIDE DEF OnToken
  <2> QED
    BY <1>2, <2>1, <2>3, <2>4, <2>5, <2>6, <2>7 DEF Scalars, TokenBalance
<1>11. ASSUME NEW o \in Requests \ {r} PROVE Same(o)
  BY <1>1 DEF RollbackToken, TryOther, Entry, Same
<1> QED
  BY <1>5, <1>6, <1>7, <1>8, <1>9, <1>10, <1>11 DEF ReqInv

\* ReconcileToken, repricing the token reservation:
\* types and the request's invariant are kept, other requests are untouched.
LEMMA ReconcileTokenPreserves ==
  ASSUME NEW r \in Requests,
         ConstantsAssumption, TypeOK, ReqInv(r), ReconcileToken(r)
  PROVE  TypeOK' /\ ReqInv(r)' /\ \A o \in Requests \ {r} : Same(o)
<1>1. /\ paidToken \in [Requests -> Int]
      /\ tokenConsumed \in [Requests -> Nat]
      /\ preConsumedQuota \in [Requests -> Nat]
      /\ pc \in [Requests -> Waiting \cup Serving]
      /\ tokenRemain \in Int
  BY DEF TypeOK
<1>2. Scalars(r)
  BY ScalarTypes
<1>3. /\ paidToken' \in [Requests -> Int]
      /\ tokenConsumed' \in [Requests -> Nat]
      /\ preConsumedQuota' \in [Requests -> Nat]
      /\ pc' \in [Requests -> Waiting \cup Serving]
      /\ tokenRemain' \in Int
  BY <1>1, <1>2 DEF Scalars, ReconcileToken
<1>4. TypeOK'
  BY <1>3 DEF TypeOK, ReconcileToken
<1>5. NotServing(r)'
  BY <1>1, <1>2 DEF Scalars, ReconcileToken, ReqInv, NotServing
<1>6. Counters(r)'
  BY <1>1, <1>2 DEF Scalars, ReconcileToken, ReqInv, Counters, InFlight, NotServing
<1>7. Control(r)'
  BY <1>1, <1>2 DEF Scalars, ReconcileToken, ReqInv, Control, NotServing
<1>8. FundBalance(r)'
  BY <1>1, <1>2 DEF Scalars, ReconcileToken, ReqInv, FundBalance, Funded, Unfunded, FundBook,
     Reserved, NotServing, Counters, InFlight
<1>9. TokenBalance(r)'
  BY <1>1, <1>2 DEF Scalars, ReconcileToken, ReqInv, TokenBalance, TokenBook, NotServing,
     Control
<1>10. ASSUME NEW o \in Requests \ {r} PROVE Same(o)
  BY <1>1 DEF ReconcileToken, Same
<1> QED
  BY <1>4, <1>5, <1>6, <1>7, <1>8, <1>9, <1>10 DEF ReqInv

\* AbortSubscription, refunding the subscription after a failed repricing:
\* types and the request's invariant are kept, other requests are untouched.
LEMMA AbortSubscriptionPreserves ==
  ASSUME NEW r \in Requests,
         ConstantsAssumption, TypeOK, ReqInv(r), AbortSubscription(r)
  PROVE  TypeOK' /\ ReqInv(r)' /\ \A o \in Requests \ {r} : Same(o)
<1>1. /\ paidSub \in [Requests -> Int]
      /\ subRecord \in [Requests -> {"none", "consumed", "refunded"}]
      /\ pc \in [Requests -> Waiting \cup Serving]
      /\ alt \in [Requests -> Sources \cup {"none"}]
      /\ subUsed \in Nat
  BY DEF TypeOK
<1>2. Scalars(r)
  BY ScalarTypes
<1>3. /\ paidSub' \in [Requests -> Int]
      /\ subRecord' \in [Requests -> {"none", "consumed", "refunded"}]
      /\ pc' \in [Requests -> Waiting \cup Serving]
      /\ alt' \in [Requests -> Sources \cup {"none"}]
      /\ subUsed' \in Nat
  BY <1>1, <1>2 DEF Scalars, AbortSubscription, RefundRecord
<1>4. lost' \subseteq Requests
  BY DEF TypeOK, AbortSubscription, RefundRecord
<1>5. TypeOK'
  BY <1>3, <1>4 DEF TypeOK, AbortSubscription, RefundRecord
<1>6. NotServing(r)'
  BY <1>1, <1>2 DEF Scalars, AbortSubscription, RefundRecord, ReqInv, NotServing
<1>7. Counters(r)'
  BY <1>1, <1>2 DEF Scalars, AbortSubscription, RefundRecord, ReqInv, Counters, InFlight
<1>8. Control(r)'
  BY <1>1, <1>2 DEF Scalars, AbortSubscription, RefundRecord, ReqInv, Control
<1>9. FundBalance(r)'
  BY <1>1, <1>2 DEF Scalars, AbortSubscription, RefundRecord, ReqInv, FundBalance, Funded,
     Unfunded, FundBook, Reserved, NotServing
<1>10. TokenBalance(r)'
  BY <1>1, <1>2 DEF Scalars, AbortSubscription, RefundRecord, ReqInv, TokenBalance, TokenBook
<1>11. ASSUME NEW o \in Requests \ {r} PROVE Same(o)
  BY <1>1 DEF AbortSubscription, RefundRecord, Same
<1> QED
  BY <1>5, <1>6, <1>7, <1>8, <1>9, <1>10, <1>11 DEF ReqInv

\* Reserve, raising the funding reservation:
\* types and the request's invariant are kept, other requests are untouched.
LEMMA ReservePreserves ==
  ASSUME NEW r \in Requests, NEW q \in Quotas,
         ConstantsAssumption, TypeOK, ReqInv(r), Reserve(r, q)
  PROVE  TypeOK' /\ ReqInv(r)' /\ \A o \in Requests \ {r} : Same(o)
<1>1. /\ paidWallet \in [Requests -> Int]
      /\ paidSub \in [Requests -> Int]
      /\ consumed \in [Requests -> Nat]
      /\ mu \in [Requests -> {"free", "reserve", "settle"}]
      /\ delta \in [Requests -> Int]
      /\ pc \in [Requests -> Waiting \cup Serving]
      /\ wallet \in Int
      /\ subUsed \in Nat
  BY DEF TypeOK
<1>2. Scalars(r)
  BY ScalarTypes
<1>3. /\ paidWallet' \in [Requests -> Int]
      /\ paidSub' \in [Requests -> Int]
      /\ consumed' \in [Requests -> Nat]
      /\ mu' \in [Requests -> {"free", "reserve", "settle"}]
      /\ delta' \in [Requests -> Int]
      /\ pc' \in [Requests -> Waiting \cup Serving]
      /\ wallet' \in Int
      /\ subUsed' \in Nat
  BY <1>1, <1>2 DEF Scalars, Reserve, MayReserve, ReserveNoop, ReserveFails
<1>4. TypeOK'
  BY <1>3 DEF TypeOK, Reserve, MayReserve, ReserveNoop
<1>5. NotServing(r)'
  BY <1>1, <1>2 DEF Scalars, Reserve, MayReserve, ReserveNoop, ReserveFails, ReqInv, NotServing
<1>6. Counters(r)'
  BY <1>1, <1>2 DEF Scalars, Reserve, MayReserve, ReserveNoop, ReserveFails, ReqInv, Counters,
     InFlight
<1>7. Control(r)'
  BY <1>1, <1>2 DEF Scalars, Reserve, MayReserve, ReserveNoop, ReserveFails, ReqInv, Control
<1>8. FundBalance(r)'
  <2>1. CASE src[r] = "wallet"
    BY <1>1, <1>2, <2>1 DEF Scalars, Reserve, MayReserve, ReserveNoop, ReserveFails, ReqInv,
       FundBalance, Funded, Unfunded, FundBook, Reserved, NotServing, Control
  <2>2. CASE src[r] = "subscription"
    BY <1>1, <1>2, <2>2 DEF Scalars, Reserve, MayReserve, ReserveNoop, ReserveFails, ReqInv,
       FundBalance, Funded, Unfunded, FundBook, Reserved, NotServing, Counters, Control,
       InFlight
  <2> QED
    BY <1>2, <2>1, <2>2 DEF Scalars
<1>9. TokenBalance(r)'
  BY <1>1, <1>2 DEF Scalars, Reserve, MayReserve, ReserveNoop, ReserveFails, ReqInv,
     TokenBalance, TokenBook
<1>10. ASSUME NEW o \in Requests \ {r} PROVE Same(o)
  BY <1>1 DEF Reserve, MayReserve, ReserveNoop, ReserveFails, Same
<1> QED
  BY <1>4, <1>5, <1>6, <1>7, <1>8, <1>9, <1>10 DEF ReqInv

\* ReserveToken, raising the token reservation:
\* types and the request's invariant are kept, other requests are untouched.
LEMMA ReserveTokenPreserves ==
  ASSUME NEW r \in Requests,
         ConstantsAssumption, TypeOK, ReqInv(r), ReserveToken(r)
  PROVE  TypeOK' /\ ReqInv(r)' /\ \A o \in Requests \ {r} : Same(o)
<1>1. /\ paidToken \in [Requests -> Int]
      /\ preConsumedQuota \in [Requests -> Nat]
      /\ tokenConsumed \in [Requests -> Nat]
      /\ extraReserved \in [Requests -> Nat]
      /\ mu \in [Requests -> {"free", "reserve", "settle"}]
      /\ delta \in [Requests -> Int]
      /\ tokenRemain \in Int
  BY DEF TypeOK
<1>2. Scalars(r)
  BY ScalarTypes
<1>3. /\ paidToken' \in [Requests -> Int]
      /\ preConsumedQuota' \in [Requests -> Nat]
      /\ tokenConsumed' \in [Requests -> Nat]
      /\ extraReserved' \in [Requests -> Nat]
      /\ mu' \in [Requests -> {"free", "reserve", "settle"}]
      /\ delta' \in [Requests -> Int]
      /\ tokenRemain' \in Int
  BY <1>1, <1>2 DEF Scalars, ConstantsAssumption, ReserveToken, ReqInv, NotServing, Counters,
     Control, InFlight
<1>4. TypeOK'
  BY <1>3 DEF TypeOK, ReserveToken
<1>5. NotServing(r)'
  BY <1>1, <1>2 DEF Scalars, ReserveToken, ReqInv, NotServing
<1>6. Counters(r)'
  BY <1>1, <1>2 DEF Scalars, ReserveToken, ReqInv, Counters, InFlight
<1>7. Control(r)'
  BY <1>1, <1>2 DEF Scalars, ReserveToken, ReqInv, Control
<1>8. FundBalance(r)'
  BY <1>1, <1>2 DEF Scalars, ReserveToken, ReqInv, FundBalance, Funded, Unfunded, FundBook,
     Reserved, NotServing, Counters, Control, InFlight
<1>9. TokenBalance(r)'
  BY <1>1, <1>2 DEF Scalars, ReserveToken, ReqInv, TokenBalance, TokenBook, NotServing, Control
<1>10. ASSUME NEW o \in Requests \ {r} PROVE Same(o)
  BY <1>1 DEF ReserveToken, Same
<1> QED
  BY <1>4, <1>5, <1>6, <1>7, <1>8, <1>9, <1>10 DEF ReqInv

\* RollbackReserve, rolling the funding reservation back:
\* types and the request's invariant are kept, other requests are untouched.
LEMMA RollbackReservePreserves ==
  ASSUME NEW r \in Requests,
         ConstantsAssumption, TypeOK, ReqInv(r), RollbackReserve(r)
  PROVE  TypeOK' /\ ReqInv(r)' /\ \A o \in Requests \ {r} : Same(o)
<1>1. /\ paidWallet \in [Requests -> Int]
      /\ paidSub \in [Requests -> Int]
      /\ consumed \in [Requests -> Nat]
      /\ pc \in [Requests -> Waiting \cup Serving]
      /\ mu \in [Requests -> {"free", "reserve", "settle"}]
      /\ delta \in [Requests -> Int]
      /\ wallet \in Int
      /\ subUsed \in Nat
  BY DEF TypeOK
<1>2. Scalars(r)
  BY ScalarTypes
<1>3. /\ paidWallet' \in [Requests -> Int]
      /\ paidSub' \in [Requests -> Int]
      /\ consumed' \in [Requests -> Nat]
      /\ pc' \in [Requests -> Waiting \cup Serving]
      /\ mu' \in [Requests -> {"free", "reserve", "settle"}]
      /\ delta' \in [Requests -> Int]
      /\ wallet' \in Int
      /\ subUsed' \in Nat
  BY <1>1, <1>2 DEF Scalars, ConstantsAssumption, RollbackReserve, ReserveFails, ReqInv,
     NotServing, Counters, Control, InFlight
<1>4. lost' \subseteq Requests
  BY DEF TypeOK, RollbackReserve
<1>5. TypeOK'
  BY <1>3, <1>4 DEF TypeOK, RollbackReserve
<1>6. NotServing(r)'
  BY <1>1, <1>2 DEF Scalars, RollbackReserve, ReserveFails, ReqInv, NotServing
<1>7. Counters(r)'
  BY <1>1, <1>2 DEF Scalars, RollbackReserve, ReserveFails, ReqInv, Counters, InFlight,
     NotServing, Control
<1>8. Control(r)'
  BY <1>1, <1>2 DEF Scalars, RollbackReserve, ReserveFails, ReqInv, Control
<1>9. FundBalance(r)'
  BY <1>1, <1>2 DEF Scalars, RollbackReserve, ReserveFails, ReqInv, FundBalance, Funded,
     Unfunded, FundBook, Reserved, NotServing, Counters, Control, InFlight
<1>10. TokenBalance(r)'
  BY <1>1, <1>2 DEF Scalars, RollbackReserve, ReserveFails, ReqInv, TokenBalance, TokenBook,
     NotServing
<1>11. ASSUME NEW o \in Requests \ {r} PROVE Same(o)
  BY <1>1 DEF RollbackReserve, ReserveFails, Same
<1> QED
  BY <1>5, <1>6, <1>7, <1>8, <1>9, <1>10, <1>11 DEF ReqInv

\* Settle, settling the funding source:
\* types and the request's invariant are kept, other requests are untouched.
LEMMA SettlePreserves ==
  ASSUME NEW r \in Requests, NEW q \in Quotas,
         ConstantsAssumption, TypeOK, ReqInv(r), Settle(r, q)
  PROVE  TypeOK' /\ ReqInv(r)' /\ \A o \in Requests \ {r} : Same(o)
<1>1. /\ paidWallet \in [Requests -> Int]
      /\ paidSub \in [Requests -> Int]
      /\ usage \in [Requests -> Nat]
      /\ mu \in [Requests -> {"free", "reserve", "settle"}]
      /\ delta \in [Requests -> Int]
      /\ pc \in [Requests -> Waiting \cup Serving]
      /\ wallet \in Int
      /\ subUsed \in Nat
  BY DEF TypeOK
<1>2. Scalars(r)
  BY ScalarTypes
<1>3. /\ paidWallet' \in [Requests -> Int]
      /\ paidSub' \in [Requests -> Int]
      /\ usage' \in [Requests -> Nat]
      /\ mu' \in [Requests -> {"free", "reserve", "settle"}]
      /\ delta' \in [Requests -> Int]
      /\ pc' \in [Requests -> Waiting \cup Serving]
      /\ wallet' \in Int
      /\ subUsed' \in Nat
  BY <1>1, <1>2 DEF Scalars, Settle
<1>4. fundingSettled' \subseteq Requests /\ settled' \subseteq Requests
  BY DEF TypeOK, Settle
<1>5. TypeOK'
  BY <1>3, <1>4 DEF TypeOK, Settle
<1>6. NotServing(r)'
  BY <1>1, <1>2 DEF Scalars, Settle, ReqInv, NotServing
<1>7. Counters(r)'
  BY <1>1, <1>2 DEF Scalars, Settle, ReqInv, Counters, InFlight
<1>8. Control(r)'
  BY <1>1, <1>2 DEF Scalars, Settle, ReqInv, Control
<1>9. FundBalance(r)'
  <2>1. /\ pc[r] = "open" /\ mu[r] = "free" /\ bg[r] = "idle" /\ fundFee[r] = 0
        /\ r \notin fundingSettled
    BY <1>2 DEF Scalars, Settle, ReqInv, Control
  <2>2. /\ FundBook(r) = Reserved(r) /\ Reserved(r) \in Nat
        /\ Reserved(r) >= preConsumedQuota[r]
        /\ r \notin lost => Reserved(r) = preConsumedQuota[r]
    BY <1>2, <2>1 DEF Scalars, ReqInv, Counters, FundBook, Reserved, InFlight
  <2>3. Funded(r) \in Int /\ Unfunded(r) \in Int /\ FundBalance(r) /\ q \in Nat
    BY <1>2 DEF Scalars, ReqInv, Funded, Unfunded, ConstantsAssumption
  <2>4. CASE pc'[r] = "settled"
    <3>1. /\ Funded(r)' = Funded(r) + (q - preConsumedQuota[r])
          /\ Unfunded(r)' = Unfunded(r)
      BY <1>1, <1>2, <2>1, <2>4 DEF Scalars, Settle, Funded, Unfunded
    <3>2. FundBook(r)' = q
      <4>1. usage'[r] = q /\ fundFee' = fundFee /\ bg' = bg /\ r \in fundingSettled'
        BY <1>1, <2>1, <2>4 DEF Settle
      <4> QED
        BY <2>1, <2>3, <2>4, <4>1 DEF FundBook
    <3>3. lost' = lost
      BY DEF Settle
    <3> QED
      BY <1>2, <2>2, <2>3, <3>1, <3>2, <3>3 DEF Scalars, FundBalance
  <2>5. CASE pc'[r] = "settleErr"
    <3>1. /\ Funded(r)' = Funded(r) /\ Unfunded(r)' = Unfunded(r)
          /\ FundBook(r)' = FundBook(r) /\ lost' = lost
      BY <1>1, <2>1, <2>5 DEF Settle, Funded, Unfunded, FundBook, Reserved, InFlight
    <3> QED
      BY <2>3, <3>1 DEF FundBalance
  <2>6. pc'[r] \in {"settled", "settleErr"}
    BY <1>1 DEF Settle
  <2> QED
    BY <2>4, <2>5, <2>6
<1>10. TokenBalance(r)'
  <2>1. CASE req[r].playground
    BY <1>1, <1>2, <2>1 DEF Scalars, Settle, ReqInv, TokenBalance, TokenBook
  <2>2. CASE ~req[r].playground
    BY <1>1, <1>2, <2>2 DEF Scalars, Settle, ReqInv, TokenBalance, TokenBook, NotServing,
       Counters, InFlight
  <2> QED
    BY <2>1, <2>2
<1>11. ASSUME NEW o \in Requests \ {r} PROVE Same(o)
  BY <1>1 DEF Settle, Same
<1> QED
  BY <1>5, <1>6, <1>7, <1>8, <1>9, <1>10, <1>11 DEF ReqInv

\* SettleToken, settling the token:
\* types and the request's invariant are kept, other requests are untouched.
LEMMA SettleTokenPreserves ==
  ASSUME NEW r \in Requests,
         ConstantsAssumption, TypeOK, ReqInv(r), SettleToken(r)
  PROVE  TypeOK' /\ ReqInv(r)' /\ \A o \in Requests \ {r} : Same(o)
<1>1. /\ paidToken \in [Requests -> Int]
      /\ mu \in [Requests -> {"free", "reserve", "settle"}]
      /\ delta \in [Requests -> Int]
      /\ tokenRemain \in Int
  BY DEF TypeOK
<1>2. Scalars(r)
  BY ScalarTypes
<1>3. /\ paidToken' \in [Requests -> Int]
      /\ mu' \in [Requests -> {"free", "reserve", "settle"}]
      /\ delta' \in [Requests -> Int]
      /\ tokenRemain' \in Int
  BY <1>1 DEF SettleToken
<1>4. settled' \subseteq Requests /\ lost' \subseteq Requests
  BY DEF TypeOK, SettleToken
<1>5. TypeOK'
  BY <1>3, <1>4 DEF TypeOK, SettleToken
<1>6. NotServing(r)'
  BY <1>1, <1>2 DEF Scalars, SettleToken, ReqInv, NotServing
<1>7. Counters(r)'
  BY <1>1, <1>2 DEF Scalars, SettleToken, ReqInv, Counters, InFlight
<1>8. Control(r)'
  BY <1>1, <1>2 DEF Scalars, SettleToken, ReqInv, Control
<1>9. FundBalance(r)'
  BY <1>1, <1>2 DEF Scalars, SettleToken, ReqInv, FundBalance, Funded, Unfunded, FundBook,
     Reserved, NotServing, Control
<1>10. TokenBalance(r)'
  BY <1>1, <1>2 DEF Scalars, SettleToken, ReqInv, TokenBalance, TokenBook, NotServing,
     Counters, Control, InFlight
<1>11. ASSUME NEW o \in Requests \ {r} PROVE Same(o)
  BY <1>1 DEF SettleToken, Same
<1> QED
  BY <1>5, <1>6, <1>7, <1>8, <1>9, <1>10, <1>11 DEF ReqInv

\* Refund, starting a refund:
\* types and the request's invariant are kept, other requests are untouched.
LEMMA RefundPreserves ==
  ASSUME NEW r \in Requests,
         ConstantsAssumption, TypeOK, ReqInv(r), Refund(r)
  PROVE  TypeOK' /\ ReqInv(r)' /\ \A o \in Requests \ {r} : Same(o)
<1>1. /\ bg \in [Requests -> {"idle", "funding", "extra", "token", "done"}]
      /\ pc \in [Requests -> Waiting \cup Serving]
  BY DEF TypeOK
<1>2. Scalars(r)
  BY ScalarTypes
<1>3. /\ bg' \in [Requests -> {"idle", "funding", "extra", "token", "done"}]
      /\ pc' \in [Requests -> Waiting \cup Serving]
  BY <1>1 DEF Refund, RefundCalled, NeedsRefund
<1>4. refunded' \subseteq Requests
  BY DEF TypeOK, Refund
<1>5. TypeOK'
  BY <1>3, <1>4 DEF TypeOK, Refund
<1>6. NotServing(r)'
  BY <1>1, <1>2 DEF Scalars, Refund, RefundCalled, NeedsRefund, ReqInv, NotServing
<1>7. Counters(r)'
  BY <1>1, <1>2 DEF Scalars, Refund, RefundCalled, NeedsRefund, ReqInv, Counters, InFlight,
     NotServing, Control
<1>8. Control(r)'
  BY <1>1, <1>2 DEF Scalars, Refund, RefundCalled, NeedsRefund, ReqInv, Control
<1>9. FundBalance(r)'
  <2>1. CASE NeedsRefund(r)
    BY <1>1, <1>2, <2>1 DEF Scalars, Refund, RefundCalled, NeedsRefund, ReqInv, FundBalance,
       Funded, Unfunded, FundBook, Reserved, NotServing, Counters, Control, InFlight
  <2>2. CASE ~NeedsRefund(r)
    BY <1>1, <1>2, <2>2 DEF Scalars, Refund, RefundCalled, NeedsRefund, ReqInv, FundBalance,
       Funded, Unfunded, FundBook, Reserved, NotServing, Counters, InFlight
  <2> QED
    BY <2>1, <2>2
<1>10. TokenBalance(r)'
  BY <1>1, <1>2 DEF Scalars, Refund, RefundCalled, NeedsRefund, ReqInv, TokenBalance,
     TokenBook, NotServing, Control
<1>11. ASSUME NEW o \in Requests \ {r} PROVE Same(o)
  BY <1>1 DEF Refund, RefundCalled, NeedsRefund, Same
<1> QED
  BY <1>5, <1>6, <1>7, <1>8, <1>9, <1>10, <1>11 DEF ReqInv

\* RefundFunding, refunding the pre-consumed funding:
\* types and the request's invariant are kept, other requests are untouched.
LEMMA RefundFundingPreserves ==
  ASSUME NEW r \in Requests,
         ConstantsAssumption, TypeOK, ReqInv(r), RefundFunding(r)
  PROVE  TypeOK' /\ ReqInv(r)' /\ \A o \in Requests \ {r} : Same(o)
<1>1. /\ paidWallet \in [Requests -> Int]
      /\ paidSub \in [Requests -> Int]
      /\ subRecord \in [Requests -> {"none", "consumed", "refunded"}]
      /\ bg \in [Requests -> {"idle", "funding", "extra", "token", "done"}]
      /\ wallet \in Int
      /\ subUsed \in Nat
  BY DEF TypeOK
<1>2. Scalars(r)
  BY ScalarTypes
<1>3. /\ paidWallet' \in [Requests -> Int]
      /\ paidSub' \in [Requests -> Int]
      /\ subRecord' \in [Requests -> {"none", "consumed", "refunded"}]
      /\ bg' \in [Requests -> {"idle", "funding", "extra", "token", "done"}]
      /\ wallet' \in Int
      /\ subUsed' \in Nat
  BY <1>1, <1>2 DEF Scalars, RefundFunding, RefundRecord
<1>4. lost' \subseteq Requests
  BY DEF TypeOK, RefundFunding, RefundRecord
<1>5. TypeOK'
  BY <1>3, <1>4 DEF TypeOK, RefundFunding, RefundRecord
<1>6. NotServing(r)'
  BY <1>1, <1>2 DEF Scalars, RefundFunding, RefundRecord, ReqInv, NotServing
<1>7. Counters(r)'
  BY <1>1, <1>2 DEF Scalars, RefundFunding, RefundRecord, ReqInv, Counters, InFlight
<1>8. Control(r)'
  BY <1>1, <1>2 DEF Scalars, RefundFunding, RefundRecord, ReqInv, Control
<1>9. FundBalance(r)'
  <2>1. CASE src[r] = "wallet"
    BY <1>1, <1>2, <2>1 DEF Scalars, RefundFunding, RefundRecord, ReqInv, FundBalance, Funded,
       Unfunded, FundBook, Reserved, NotServing, Control
  <2>2. CASE src[r] = "subscription"
    BY <1>1, <1>2, <2>2 DEF Scalars, RefundFunding, RefundRecord, ReqInv, FundBalance, Funded,
       Unfunded, FundBook, Reserved, NotServing, Counters, Control, InFlight
  <2> QED
    BY <1>2, <2>1, <2>2 DEF Scalars
<1>10. TokenBalance(r)'
  BY <1>1, <1>2 DEF Scalars, RefundFunding, RefundRecord, ReqInv, TokenBalance, TokenBook
<1>11. ASSUME NEW o \in Requests \ {r} PROVE Same(o)
  BY <1>1 DEF RefundFunding, RefundRecord, Same
<1> QED
  BY <1>5, <1>6, <1>7, <1>8, <1>9, <1>10, <1>11 DEF ReqInv

\* RefundExtra, refunding the extra reservation:
\* types and the request's invariant are kept, other requests are untouched.
LEMMA RefundExtraPreserves ==
  ASSUME NEW r \in Requests,
         ConstantsAssumption, TypeOK, ReqInv(r), RefundExtra(r)
  PROVE  TypeOK' /\ ReqInv(r)' /\ \A o \in Requests \ {r} : Same(o)
<1>1. /\ paidSub \in [Requests -> Int]
      /\ bg \in [Requests -> {"idle", "funding", "extra", "token", "done"}]
      /\ subUsed \in Nat
  BY DEF TypeOK
<1>2. Scalars(r)
  BY ScalarTypes
<1>3. /\ paidSub' \in [Requests -> Int]
      /\ bg' \in [Requests -> {"idle", "funding", "extra", "token", "done"}]
      /\ subUsed' \in Nat
  BY <1>1, <1>2 DEF Scalars, RefundExtra
<1>4. lost' \subseteq Requests
  BY DEF TypeOK, RefundExtra
<1>5. TypeOK'
  BY <1>3, <1>4 DEF TypeOK, RefundExtra
<1>6. NotServing(r)'
  BY <1>1, <1>2 DEF Scalars, RefundExtra, ReqInv, NotServing
<1>7. Counters(r)'
  BY <1>1, <1>2 DEF Scalars, RefundExtra, ReqInv, Counters, InFlight
<1>8. Control(r)'
  BY <1>1, <1>2 DEF Scalars, RefundExtra, ReqInv, Control
<1>9. FundBalance(r)'
  <2>1. CASE src[r] = "wallet"
    BY <1>1, <1>2, <2>1 DEF Scalars, RefundExtra, ReqInv, FundBalance, Funded, Unfunded,
       FundBook, Reserved
  <2>2. CASE src[r] = "subscription"
    BY <1>1, <1>2, <2>2 DEF Scalars, RefundExtra, ReqInv, FundBalance, Funded, Unfunded,
       FundBook, Reserved, NotServing
  <2> QED
    BY <1>2, <2>1, <2>2 DEF Scalars
<1>10. TokenBalance(r)'
  BY <1>1, <1>2 DEF Scalars, RefundExtra, ReqInv, TokenBalance, TokenBook
<1>11. ASSUME NEW o \in Requests \ {r} PROVE Same(o)
  BY <1>1 DEF RefundExtra, Same
<1> QED
  BY <1>5, <1>6, <1>7, <1>8, <1>9, <1>10, <1>11 DEF ReqInv

\* RefundToken, refunding the token:
\* types and the request's invariant are kept, other requests are untouched.
LEMMA RefundTokenPreserves ==
  ASSUME NEW r \in Requests,
         ConstantsAssumption, TypeOK, ReqInv(r), RefundToken(r)
  PROVE  TypeOK' /\ ReqInv(r)' /\ \A o \in Requests \ {r} : Same(o)
<1>1. /\ paidToken \in [Requests -> Int]
      /\ bg \in [Requests -> {"idle", "funding", "extra", "token", "done"}]
      /\ tokenRemain \in Int
  BY DEF TypeOK
<1>2. Scalars(r)
  BY ScalarTypes
<1>3. /\ paidToken' \in [Requests -> Int]
      /\ bg' \in [Requests -> {"idle", "funding", "extra", "token", "done"}]
      /\ tokenRemain' \in Int
  BY <1>1, <1>2 DEF Scalars, RefundToken
<1>4. lost' \subseteq Requests
  BY DEF TypeOK, RefundToken
<1>5. TypeOK'
  BY <1>3, <1>4 DEF TypeOK, RefundToken
<1>6. NotServing(r)'
  BY <1>1, <1>2 DEF Scalars, RefundToken, ReqInv, NotServing
<1>7. Counters(r)'
  BY <1>1, <1>2 DEF Scalars, RefundToken, ReqInv, Counters, InFlight
<1>8. Control(r)'
  BY <1>1, <1>2 DEF Scalars, RefundToken, ReqInv, Control
<1>9. FundBalance(r)'
  BY <1>1, <1>2 DEF Scalars, RefundToken, ReqInv, FundBalance, Funded, Unfunded, FundBook,
     Reserved
<1>10. TokenBalance(r)'
  BY <1>1, <1>2 DEF Scalars, RefundToken, ReqInv, TokenBalance, TokenBook, NotServing, Control
<1>11. ASSUME NEW o \in Requests \ {r} PROVE Same(o)
  BY <1>1 DEF RefundToken, Same
<1> QED
  BY <1>5, <1>6, <1>7, <1>8, <1>9, <1>10, <1>11 DEF ReqInv

\* ChargeFee, charging a violation fee:
\* types and the request's invariant are kept, other requests are untouched.
LEMMA ChargeFeePreserves ==
  ASSUME NEW r \in Requests,
         ConstantsAssumption, TypeOK, ReqInv(r), ChargeFee(r)
  PROVE  TypeOK' /\ ReqInv(r)' /\ \A o \in Requests \ {r} : Same(o)
<1>1. /\ paidWallet \in [Requests -> Int]
      /\ paidSub \in [Requests -> Int]
      /\ fundFee \in [Requests -> Nat]
      /\ pc \in [Requests -> Waiting \cup Serving]
      /\ wallet \in Int
      /\ subUsed \in Nat
  BY DEF TypeOK
<1>2. Scalars(r)
  BY ScalarTypes
<1>3. /\ paidWallet' \in [Requests -> Int]
      /\ paidSub' \in [Requests -> Int]
      /\ fundFee' \in [Requests -> Nat]
      /\ pc' \in [Requests -> Waiting \cup Serving]
      /\ wallet' \in Int
      /\ subUsed' \in Nat
  BY <1>1 DEF ChargeFee
<1>4. TypeOK'
  BY <1>3 DEF TypeOK, ChargeFee
<1>5. NotServing(r)'
  BY <1>1, <1>2 DEF Scalars, ChargeFee, ReqInv, NotServing
<1>6. Counters(r)'
  BY <1>1, <1>2 DEF Scalars, ChargeFee, ReqInv, Counters, InFlight
<1>7. Control(r)'
  BY <1>1, <1>2 DEF Scalars, ChargeFee, ReqInv, Control
<1>8. FundBalance(r)'
  BY <1>1, <1>2 DEF Scalars, ChargeFee, ReqInv, FundBalance, Funded, Unfunded, FundBook,
     Reserved, NotServing, Counters, Control, InFlight
<1>9. TokenBalance(r)'
  BY <1>1, <1>2 DEF Scalars, ChargeFee, ReqInv, TokenBalance, TokenBook
<1>10. ASSUME NEW o \in Requests \ {r} PROVE Same(o)
  BY <1>1 DEF ChargeFee, Same
<1> QED
  BY <1>4, <1>5, <1>6, <1>7, <1>8, <1>9, <1>10 DEF ReqInv

\* ChargeFeeToken, charging the fee to the token:
\* types and the request's invariant are kept, other requests are untouched.
LEMMA ChargeFeeTokenPreserves ==
  ASSUME NEW r \in Requests,
         ConstantsAssumption, TypeOK, ReqInv(r), ChargeFeeToken(r)
  PROVE  TypeOK' /\ ReqInv(r)' /\ \A o \in Requests \ {r} : Same(o)
<1>1. /\ paidToken \in [Requests -> Int]
      /\ tokenFee \in [Requests -> Nat]
      /\ pc \in [Requests -> Waiting \cup Serving]
      /\ tokenRemain \in Int
  BY DEF TypeOK
<1>2. Scalars(r)
  BY ScalarTypes
<1>3. /\ paidToken' \in [Requests -> Int]
      /\ tokenFee' \in [Requests -> Nat]
      /\ pc' \in [Requests -> Waiting \cup Serving]
      /\ tokenRemain' \in Int
  BY <1>1 DEF ChargeFeeToken
<1>4. lost' \subseteq Requests
  BY DEF TypeOK, ChargeFeeToken
<1>5. TypeOK'
  BY <1>3, <1>4 DEF TypeOK, ChargeFeeToken
<1>6. NotServing(r)'
  BY <1>1, <1>2 DEF Scalars, ChargeFeeToken, ReqInv, NotServing
<1>7. Counters(r)'
  BY <1>1, <1>2 DEF Scalars, ChargeFeeToken, ReqInv, Counters, InFlight
<1>8. Control(r)'
  BY <1>1, <1>2 DEF Scalars, ChargeFeeToken, ReqInv, Control
<1>9. FundBalance(r)'
  BY <1>1, <1>2 DEF Scalars, ChargeFeeToken, ReqInv, FundBalance, Funded, Unfunded, FundBook,
     Reserved, NotServing, Counters, InFlight
<1>10. TokenBalance(r)'
  BY <1>1, <1>2 DEF Scalars, ChargeFeeToken, ReqInv, TokenBalance, TokenBook, NotServing,
     Control
<1>11. ASSUME NEW o \in Requests \ {r} PROVE Same(o)
  BY <1>1 DEF ChargeFeeToken, Same
<1> QED
  BY <1>5, <1>6, <1>7, <1>8, <1>9, <1>10, <1>11 DEF ReqInv

\* Finish, returning from the handler:
\* types and the request's invariant are kept, other requests are untouched.
LEMMA FinishPreserves ==
  ASSUME NEW r \in Requests,
         ConstantsAssumption, TypeOK, ReqInv(r), Finish(r)
  PROVE  TypeOK' /\ ReqInv(r)' /\ \A o \in Requests \ {r} : Same(o)
<1>1. /\ pc \in [Requests -> Waiting \cup Serving]
  BY DEF TypeOK
<1>2. Scalars(r)
  BY ScalarTypes
<1>3. pc' \in [Requests -> Waiting \cup Serving]
  BY <1>1 DEF Finish, NeedsRefund
<1>4. TypeOK'
  BY <1>3 DEF TypeOK, Finish
<1>5. NotServing(r)'
  BY <1>1, <1>2 DEF Scalars, Finish, NeedsRefund, ReqInv, NotServing
<1>6. Counters(r)'
  BY <1>1, <1>2 DEF Scalars, Finish, NeedsRefund, ReqInv, Counters, InFlight
<1>7. Control(r)'
  BY <1>1, <1>2 DEF Scalars, Finish, NeedsRefund, ReqInv, Control
<1>8. FundBalance(r)'
  BY <1>1, <1>2 DEF Scalars, Finish, NeedsRefund, ReqInv, FundBalance, Funded, Unfunded,
     FundBook, Reserved, NotServing, Counters, InFlight
<1>9. TokenBalance(r)'
  BY <1>1, <1>2 DEF Scalars, Finish, NeedsRefund, ReqInv, TokenBalance, TokenBook
<1>10. ASSUME NEW o \in Requests \ {r} PROVE Same(o)
  BY <1>1 DEF Finish, NeedsRefund, Same
<1> QED
  BY <1>4, <1>5, <1>6, <1>7, <1>8, <1>9, <1>10 DEF ReqInv

-----------------------------------------------------------------------------
(* The invariant is inductive.                                             *)

\* No request holds anything when the server starts.
LEMMA InitInv == ASSUME ConstantsAssumption, Init PROVE IInv
<1>1. TypeOK
  BY DEF ConstantsAssumption, Init, Zero, TypeOK
<1>2. ASSUME NEW r \in Requests PROVE ReqInv(r)
  BY DEF Init, Zero, ReqInv, NotServing, Counters, Control, FundBalance, TokenBalance,
     Funded, Unfunded, FundBook, TokenBook
<1> QED
  BY <1>1, <1>2 DEF IInv

\* A stuttering step keeps the invariant.
LEMMA StutterInv == ASSUME IInv, UNCHANGED vars PROVE IInv'
<1>1. TypeOK'
  BY DEF IInv, TypeOK, vars
<1>2. ASSUME NEW r \in Requests PROVE Same(r)
  BY DEF vars, Same
<1> QED
  BY <1>1, <1>2, Frame DEF IInv

\* Every step of every request keeps the invariant of all of them.
LEMMA StepInv == ASSUME ConstantsAssumption, IInv, Next PROVE IInv'
<1>1. PICK r \in Requests :
        \/ \E q \in Quotas, k \in Kinds, p \in Playgrounds, b \in Preferences : Start(r, q, k, p, b)
        \/ \E q \in Quotas : Reserve(r, q)
        \/ Progress(r)
        \/ Handler(r)
        \/ RefundGoroutine(r)
  BY DEF Next
<1>2. TypeOK /\ ReqInv(r)
  BY DEF IInv
<1>3. TypeOK' /\ ReqInv(r)' /\ \A o \in Requests \ {r} : Same(o)
  <2>1. CASE \E q \in Quotas, k \in Kinds, p \in Playgrounds, b \in Preferences :
               Start(r, q, k, p, b)
    BY <1>2, <2>1, StartPreserves
  <2>2. CASE \E q \in Quotas : Reserve(r, q)
    BY <1>2, <2>2, ReservePreserves
  <2>3. CASE Progress(r)
    BY <1>2, <2>3, QuoteWalletPreserves, PreConsumeTokenPreserves, PreConsumeWalletPreserves,
       PreConsumeSubscriptionPreserves, RollbackTokenPreserves, ReconcileTokenPreserves,
       AbortSubscriptionPreserves, ReserveTokenPreserves, RollbackReservePreserves,
       SettleTokenPreserves, ChargeFeePreserves, ChargeFeeTokenPreserves DEF Progress
  <2>4. CASE Handler(r)
    BY <1>2, <2>4, RefundPreserves, SettlePreserves, FinishPreserves DEF Handler
  <2>5. CASE RefundGoroutine(r)
    BY <1>2, <2>5, RefundFundingPreserves, RefundExtraPreserves, RefundTokenPreserves
       DEF RefundGoroutine
  <2> QED
    BY <1>1, <2>1, <2>2, <2>3, <2>4, <2>5
<1>4. ASSUME NEW q \in Requests PROVE ReqInv(q)'
  <2>1. CASE q = r
    BY <1>3, <2>1
  <2>2. CASE q # r
    BY <1>3, <2>2, Frame DEF IInv
  <2> QED
    BY <2>1, <2>2
<1> QED
  BY <1>3, <1>4 DEF IInv

\* The books of every request fit its control state in every reachable state.
THEOREM Invariant == Spec => []IInv
<1>1. Init => IInv
  BY InitInv, ConstantsAssumption
<1>2. IInv /\ [Next]_vars => IInv'
  BY StepInv, StutterInv, ConstantsAssumption
<1> QED
  BY <1>1, <1>2, PTL DEF Spec

-----------------------------------------------------------------------------
(* What follows from it.                                                   *)

\* Every variable keeps its type; the session's counters and the subscription's
\* usage are never negative.
THEOREM TypeCorrect == Spec => []TypeOK
<1>1. IInv => TypeOK
  BY DEF IInv
<1> QED
  BY <1>1, Invariant, PTL

\* Settle leaves exactly the usage on the source and on the token, whatever was
\* reserved before and however many requests share the ledgers.
THEOREM Settles == Spec => []SettledExactly
<1>1. IInv => SettledExactly
  <2>1. SUFFICES ASSUME IInv, NEW r \in settled \ lost
                 PROVE  /\ Funded(r) = usage[r] + fundFee[r]
                        /\ Unfunded(r) = 0
                        /\ paidToken[r] = OnToken(r, usage[r]) + tokenFee[r]
    BY DEF SettledExactly
  <2>2. r \in Requests /\ TypeOK /\ ReqInv(r)
    BY <2>1 DEF IInv, TypeOK
  <2>3. Scalars(r)
    BY <2>2, ScalarTypes
  <2>4. pc[r] \in Serving /\ bg[r] = "idle" /\ r \in fundingSettled
    BY <2>2, <2>3 DEF Scalars, ReqInv, NotServing, Control
  <2> QED
    BY <2>2, <2>3, <2>4 DEF Scalars, ReqInv, FundBalance, TokenBalance, FundBook, TokenBook
<1> QED
  BY <1>1, Invariant, PTL

\* A completed refund goroutine leaves nothing but a violation fee.
THEOREM Refunds == Spec => []RefundedFully
<1>1. IInv => RefundedFully
  <2>1. SUFFICES ASSUME IInv, NEW r \in Requests \ lost, bg[r] = "done"
                 PROVE  /\ Funded(r) = fundFee[r]
                        /\ Unfunded(r) = 0
                        /\ paidToken[r] = tokenFee[r]
    BY DEF RefundedFully
  <2>2. TypeOK /\ ReqInv(r)
    BY <2>1 DEF IInv
  <2>3. Scalars(r)
    BY <2>2, ScalarTypes
  <2>4. pc[r] \in Serving
    BY <2>1, <2>2, <2>3 DEF Scalars, ReqInv, NotServing
  <2> QED
    BY <2>1, <2>2, <2>3, <2>4 DEF Scalars, ReqInv, FundBalance, TokenBalance, FundBook, TokenBook
<1> QED
  BY <1>1, Invariant, PTL

\* A denied request has cost nothing, whatever sources were tried.
THEOREM Denials == Spec => []DeniedCostsNothing
<1>1. IInv => DeniedCostsNothing
  <2>1. SUFFICES ASSUME IInv, NEW r \in Requests \ lost, pc[r] = "denied"
                 PROVE  paidWallet[r] = 0 /\ paidSub[r] = 0 /\ paidToken[r] = 0
    BY DEF DeniedCostsNothing
  <2>2. TypeOK /\ ReqInv(r)
    BY <2>1 DEF IInv
  <2> QED
    BY <2>1, <2>2, ScalarTypes DEF Scalars, ReqInv, FundBalance, TokenBalance, FundBook,
       TokenBook, Funded, Unfunded
<1> QED
  BY <1>1, Invariant, PTL

\* No ledger ever gives a request more than it took, failures included.
THEOREM NoOverReturn == Spec => []NeverOverReturned
<1>1. IInv => NeverOverReturned
  <2>1. SUFFICES ASSUME IInv, NEW r \in Requests
                 PROVE  paidWallet[r] >= 0 /\ paidSub[r] >= 0 /\ paidToken[r] >= 0
    BY DEF NeverOverReturned
  <2>2. TypeOK /\ ReqInv(r)
    BY <2>1 DEF IInv
  <2>3. Scalars(r)
    BY <2>2, ScalarTypes
  <2>4. FundBook(r) >= 0
    BY <2>2, <2>3 DEF Scalars, ReqInv, FundBook, Reserved, InFlight, Control
  <2>5. Funded(r) >= 0 /\ Unfunded(r) >= 0 /\ paidToken[r] >= 0
    <3>1. Funded(r) \in Int /\ FundBook(r) \in Int
      BY <2>3 DEF Scalars, Funded, FundBook, Reserved, InFlight
    <3> QED
      BY <2>2, <2>3, <2>4, <3>1 DEF Scalars, ReqInv, FundBalance, TokenBalance
  <2> QED
    BY <2>3, <2>5 DEF Scalars, Funded, Unfunded
<1> QED
  BY <1>1, Invariant, PTL

\* A request that ended with an open session holds exactly its reservation.
THEOREM OpenSessions == Spec => []OpenKeepsReservation
<1>1. IInv => OpenKeepsReservation
  <2>1. SUFFICES ASSUME IInv, NEW r \in Requests \ (settled \cup refunded \cup lost),
                        pc[r] = "done", mu[r] = "free"
                 PROVE  /\ Funded(r) = preConsumedQuota[r] + fundFee[r]
                        /\ paidToken[r] = OnToken(r, preConsumedQuota[r]) + tokenFee[r]
    BY DEF OpenKeepsReservation
  <2>2. TypeOK /\ ReqInv(r)
    BY <2>1 DEF IInv
  <2>3. Scalars(r)
    BY <2>2, ScalarTypes
  <2>4. bg[r] = "idle" /\ r \notin fundingSettled
    BY <2>1, <2>2, <2>3 DEF Scalars, ReqInv, Control
  <2>5. FundBook(r) = Reserved(r) + fundFee[r]
    BY <2>1, <2>4 DEF FundBook
  <2>6. Reserved(r) = preConsumedQuota[r]
    BY <2>1, <2>2, <2>3 DEF Scalars, ReqInv, Counters, Reserved, InFlight
  <2>7. TokenBook(r) = OnToken(r, tokenConsumed[r]) + tokenFee[r]
    BY <2>1, <2>4 DEF TokenBook
  <2>8. ~req[r].playground => tokenConsumed[r] = preConsumedQuota[r]
    BY <2>1, <2>2 DEF ReqInv, Counters
  <2> QED
    BY <2>1, <2>2, <2>5, <2>6, <2>7, <2>8 DEF ReqInv, FundBalance, TokenBalance
<1> QED
  BY <1>1, Invariant, PTL

-----------------------------------------------------------------------------
(* Overdrafts: the steps of preConsume that debit a ledger check it.       *)

\* What PreConsumeNeverOverdraws says of request q.
Covered(q) ==
  /\ pc[q] = "fund" /\ pc'[q] = "open" /\ wallet' < wallet => wallet' >= 0
  /\ pc[q] \in {"token", "reconcile"} /\ pc'[q] # pc[q] /\ tokenRemain' < tokenRemain
     => TokenUnlimited \/ tokenRemain' >= 0

\* Start, QuoteWallet, Refund and Finish move no ledger; the refund goroutine, the
\* second half of Reserve and that of Settle leave pc alone.
LEMMA StillCovered ==
  ASSUME TypeOK, NEW q \in Requests, UNCHANGED <<wallet, tokenRemain>> \/ UNCHANGED pc
  PROVE  Covered(q)
BY DEF TypeOK, Covered

\* A step of r that begins elsewhere than in preConsume, or ends elsewhere than in
\* the states that follow it.
LEMMA ElsewhereCovered ==
  ASSUME TypeOK, NEW r \in Requests, NEW q \in Requests, NEW label, Goto(r, label),
         \/ pc[r] \notin {"token", "fund", "reconcile"}
         \/ label # "open" /\ tokenRemain' = tokenRemain
  PROVE  Covered(q)
BY DEF TypeOK, Covered, Goto

\* TryReserveTokenQuota refuses an allowance that does not cover the estimate.
LEMMA PreConsumeTokenCovered ==
  ASSUME ConstantsAssumption, TypeOK, NEW r \in Requests, NEW q \in Requests, PreConsumeToken(r)
  PROVE  Covered(q)
<1>1. CASE q = r
  <2>1. pc[q] = "token"
    BY <1>1 DEF PreConsumeToken
  <2>2. UNCHANGED <<wallet, tokenRemain>> \/ TokenUnlimited \/ tokenRemain' >= 0
    <3>1. Estimate(r) \in Nat
      BY ScalarTypes DEF Scalars, Estimate
    <3> QED
      BY <3>1 DEF TypeOK, PreConsumeToken, MoveNothing, MoveToken, TokenCovers, ledgers
  <2> QED
    BY <2>1, <2>2, StillCovered DEF Covered
<1>2. CASE q # r
  BY <1>2 DEF TypeOK, Covered, PreConsumeToken, Goto
<1> QED
  BY <1>1, <1>2

\* TryReserveUserQuota refuses a wallet that does not cover the effective quota.
LEMMA PreConsumeWalletCovered ==
  ASSUME TypeOK, NEW r \in Requests, NEW q \in Requests, PreConsumeWallet(r)
  PROVE  Covered(q)
<1>1. CASE q = r
  <2>1. pc[q] = "fund"
    BY <1>1 DEF PreConsumeWallet
  <2>2. UNCHANGED <<wallet, tokenRemain>> \/ wallet' >= 0
    <3>1. tokenConsumed[r] \in Nat
      BY ScalarTypes DEF Scalars
    <3> QED
      BY <3>1 DEF TypeOK, PreConsumeWallet, MoveNothing, MoveWallet, WalletCovers, ledgers
  <2> QED
    BY <2>1, <2>2, StillCovered DEF Covered
<1>2. CASE q # r
  BY <1>2 DEF TypeOK, Covered, PreConsumeWallet, Goto
<1> QED
  BY <1>1, <1>2

\* Raising the token reservation to the price of the package asks the same question.
LEMMA ReconcileTokenCovered ==
  ASSUME TypeOK, NEW r \in Requests, NEW q \in Requests, ReconcileToken(r)
  PROVE  Covered(q)
<1>1. CASE q = r
  <2>1. pc[q] = "reconcile"
    BY <1>1 DEF ReconcileToken
  <2>2. \/ tokenRemain' >= tokenRemain \/ TokenUnlimited \/ tokenRemain' >= 0
    <3>1. OnToken(r, subPreConsumed[r] - tokenConsumed[r]) \in Int
      BY ScalarTypes DEF Scalars, OnToken
    <3> QED
      BY <3>1 DEF TypeOK, ReconcileToken, MoveNothing, MoveToken, TokenCovers, ledgers
  <2>3. tokenRemain \in Int /\ tokenRemain' \in Int
    <3>1. OnToken(r, subPreConsumed[r] - tokenConsumed[r]) \in Int
      BY ScalarTypes DEF Scalars, OnToken
    <3> QED
      BY <3>1 DEF TypeOK, ReconcileToken, MoveNothing, MoveToken, ledgers
  <2> QED
    BY <2>1, <2>2, <2>3 DEF Covered
<1>2. CASE q # r
  BY <1>2 DEF TypeOK, Covered, ReconcileToken, Goto
<1> QED
  BY <1>1, <1>2

LEMMA StepCovered ==
  ASSUME ConstantsAssumption, TypeOK, Next, NEW q \in Requests
  PROVE  Covered(q)
<1>1. PICK r \in Requests :
        \/ \E a \in Quotas, k \in Kinds, p \in Playgrounds, b \in Preferences : Start(r, a, k, p, b)
        \/ \E a \in Quotas : Reserve(r, a)
        \/ Progress(r)
        \/ Handler(r)
        \/ RefundGoroutine(r)
  BY DEF Next
<1>2. CASE \E a \in Quotas, k \in Kinds, p \in Playgrounds, b \in Preferences : Start(r, a, k, p, b)
  BY <1>2, StillCovered DEF Start, MoveNothing, ledgers
<1>3. CASE \E a \in Quotas : Reserve(r, a)
  BY <1>3, StillCovered DEF Reserve, MoveNothing, ledgers
<1>4. CASE Progress(r)
  <2>1. CASE QuoteWallet(r)
    BY <2>1, StillCovered DEF QuoteWallet, MoveNothing, ledgers
  <2>2. CASE PreConsumeToken(r)
    BY <2>2, PreConsumeTokenCovered
  <2>3. CASE PreConsumeWallet(r)
    BY <2>3, PreConsumeWalletCovered
  <2>4. CASE \E n \in Quotas : PreConsumeSubscription(r, n)
    BY <2>4, StillCovered DEF PreConsumeSubscription, MoveSub, MoveNothing, ledgers
  <2>5. CASE RollbackToken(r)
    BY <2>5, ElsewhereCovered DEF RollbackToken, TryOther
  <2>6. CASE ReconcileToken(r)
    BY <2>6, ReconcileTokenCovered
  <2>7. CASE AbortSubscription(r)
    BY <2>7, ElsewhereCovered DEF AbortSubscription
  <2>8. CASE ReserveToken(r) \/ SettleToken(r)
    BY <2>8, StillCovered DEF ReserveToken, SettleToken
  <2>9. CASE RollbackReserve(r)
    <3>1. tokenRemain' = tokenRemain
      BY <2>9 DEF RollbackReserve, MoveFunding, MoveWallet, MoveSub, LogLoss, MoveNothing, ledgers
    <3>2. pc' = pc \/ pc' = [pc EXCEPT ![r] = "failed"]
      BY <2>9 DEF TypeOK, RollbackReserve, ReserveFails, Goto
    <3> QED
      BY <3>1, <3>2 DEF TypeOK, Covered
  <2>10. CASE ChargeFee(r) \/ ChargeFeeToken(r)
    BY <2>10, ElsewhereCovered DEF ChargeFee, ChargeFeeToken
  <2> QED
    BY <1>4, <2>1, <2>2, <2>3, <2>4, <2>5, <2>6, <2>7, <2>8, <2>9, <2>10 DEF Progress
<1>5. CASE Handler(r)
  <2>1. CASE Refund(r) \/ Finish(r)
    BY <2>1, StillCovered DEF Refund, Finish, MoveNothing, ledgers
  <2>2. CASE \E a \in Quotas : Settle(r, a)
    BY <2>2, ElsewhereCovered DEF Settle
  <2> QED
    BY <1>5, <2>1, <2>2 DEF Handler
<1>6. CASE RefundGoroutine(r)
  BY <1>6, StillCovered DEF RefundGoroutine, RefundFunding, RefundExtra, RefundToken, RefundStep
<1> QED
  BY <1>1, <1>2, <1>3, <1>4, <1>5, <1>6

\* preConsume never overdraws the wallet or the token, however many requests race
\* between its check of the balance and its debit (preConsume, PreConsumeTokenQuota).
THEOREM NoOverdraft == Spec => PreConsumeNeverOverdraws
<1>1. TypeOK /\ [Next]_vars
        => [\A r \in Requests :
              /\ pc[r] = "fund" /\ pc'[r] = "open" /\ wallet' < wallet => wallet' >= 0
              /\ pc[r] \in {"token", "reconcile"} /\ pc'[r] # pc[r] /\ tokenRemain' < tokenRemain
                 => TokenUnlimited \/ tokenRemain' >= 0]_vars
  BY StepCovered, ConstantsAssumption DEF Covered
<1> QED
  BY <1>1, TypeCorrect, PTL DEF Spec, PreConsumeNeverOverdraws
=============================================================================
