------------------------ MODULE BillingChargesProofs ------------------------
(***************************************************************************)
(* BillingSession implements RequestCharges, once on the funding sources   *)
(* and once on the token, for any number of requests and any amounts.      *)
(*                                                                         *)
(* What the books of BillingSessionProofs say of one request is first      *)
(* restated in the terms of RequestCharges; then every action is shown to  *)
(* be one move of the charge it is about, or none, on each ledger.         *)
(***************************************************************************)
EXTENDS BillingSessionProofs

USE DEF RelayInfo, Waiting, Serving, Sources, ledgers, reqVars, counters, flags, lock, paid,
        charge, MoveWallet, MoveToken, MoveSub, MoveFunding, MoveNothing, LogLoss, FundingFits,
        OnWallet, OnToken, Goto, Add, Unlock, RefundStep

\* The charge of request r on the funding sources, as SourceLedger sees it.
SourceOutcome(r) == Outcome(r, fundingSettled, {"funding", "extra"})
SourceAmount(r) == paidWallet[r] + paidSub[r] - fundFee[r]
SourceBill(r) == IF r \in fundingSettled THEN usage[r] ELSE 0

\* The charge of request r on the token, as TokenLedger sees it.
TokenOutcome(r) == Outcome(r, settled, {"funding", "extra", "token"})
TokenAmount(r) == paidToken[r] - tokenFee[r]
TokenBill(r) == IF r \in settled THEN OnToken(r, usage[r]) ELSE 0

\* A charge that is decided is what the decision says unless an operation was lost.
Charged(r, outcome, amount, bill) ==
  /\ outcome \in {"open", "denied", "settled", "refunding", "refunded"}
  /\ amount \in Nat /\ bill \in Nat
  /\ r \notin lost =>
       /\ outcome = "settled" => amount = bill
       /\ outcome \in {"denied", "refunded"} => amount = 0

Charges(r) ==
  /\ Charged(r, SourceOutcome(r), SourceAmount(r), SourceBill(r))
  /\ Charged(r, TokenOutcome(r), TokenAmount(r), TokenBill(r))

\* The moves of RequestCharges that one charge may make: x becomes y, the amount a
\* becomes b, the bill m becomes n and the fee e becomes f.
Moves(x, y, a, b, m, n, e, f) ==
  \/ x = "open" /\ y = "open" /\ f = e /\ n = m
  \/ x = "open" /\ y = "settled" /\ f = e
  \/ x = "open" /\ y = "denied" /\ f = e /\ n = m /\ b <= a
  \/ x = "open" /\ y = "refunding" /\ f = e /\ n = m /\ b = a
  \/ x = "refunding" /\ y \in {"refunding", "refunded"} /\ f = e /\ n = m /\ b <= a
  \/ x # "denied" /\ e = 0 /\ f = FeeQuota /\ y = x /\ b = a /\ n = m
  \/ y = x /\ b = a /\ n = m /\ f = e

SourceMoves(r) ==
  Moves(SourceOutcome(r), SourceOutcome(r)', SourceAmount(r), SourceAmount(r)',
        SourceBill(r), SourceBill(r)', fundFee[r], fundFee'[r])

TokenMoves(r) ==
  Moves(TokenOutcome(r), TokenOutcome(r)', TokenAmount(r), TokenAmount(r)',
        TokenBill(r), TokenBill(r)', tokenFee[r], tokenFee'[r])

Loses(r) == lost' = lost \/ lost' = lost \cup {r}

\* The invariant of the session, in the terms of RequestCharges.
LEMMA ChargesFollow == ASSUME TypeOK, NEW r \in Requests, ReqInv(r) PROVE Charges(r)
<1>1. Scalars(r)
  BY ScalarTypes
<1>2. Charged(r, SourceOutcome(r), SourceAmount(r), SourceBill(r))
  <2>1. SourceAmount(r) \in Nat
    <3>1. FundBook(r) >= fundFee[r] /\ FundBook(r) \in Int
      BY <1>1 DEF Scalars, ReqInv, NotServing, Counters, Control, FundBook, Reserved, InFlight
    <3> QED
      BY <1>1, <3>1 DEF Scalars, ReqInv, FundBalance, Funded, Unfunded, SourceAmount
  <2>2. SourceBill(r) \in Nat
    BY <1>1 DEF Scalars, SourceBill
  <2>3. ASSUME r \notin lost, SourceOutcome(r) = "settled" PROVE SourceAmount(r) = SourceBill(r)
    <3>1. r \in fundingSettled
      BY <2>3 DEF SourceOutcome, Outcome
    <3>2. pc[r] \notin Waiting /\ bg[r] = "idle"
      BY <1>1, <3>1 DEF Scalars, ReqInv, NotServing, Control
    <3>3. FundBook(r) = usage[r] + fundFee[r]
      BY <3>1, <3>2 DEF FundBook
    <3> QED
      BY <1>1, <2>3, <3>1, <3>3
         DEF Scalars, ReqInv, FundBalance, Funded, Unfunded, SourceAmount, SourceBill
  <2>4. ASSUME r \notin lost, SourceOutcome(r) \in {"denied", "refunded"} PROVE SourceAmount(r) = 0
    <3>1. FundBook(r) = fundFee[r]
      BY <1>1, <2>4 DEF SourceOutcome, Outcome, Scalars, ReqInv, NotServing, FundBook
    <3> QED
      BY <1>1, <2>4, <3>1 DEF Scalars, ReqInv, FundBalance, Funded, Unfunded, SourceAmount
  <2> QED
    BY <2>1, <2>2, <2>3, <2>4 DEF Charged, SourceOutcome, Outcome
<1>3. Charged(r, TokenOutcome(r), TokenAmount(r), TokenBill(r))
  <2>1. TokenAmount(r) \in Nat /\ TokenBill(r) \in Nat
    BY <1>1 DEF Scalars, ReqInv, TokenBalance, TokenAmount, TokenBill
  <2>2. ASSUME r \notin lost, TokenOutcome(r) = "settled" PROVE TokenAmount(r) = TokenBill(r)
    <3>1. r \in settled
      BY <2>2 DEF TokenOutcome, Outcome
    <3>2. pc[r] \notin Waiting /\ bg[r] = "idle"
      BY <1>1, <3>1 DEF Scalars, ReqInv, NotServing, Control
    <3>3. TokenBook(r) = OnToken(r, usage[r]) + tokenFee[r]
      BY <3>1, <3>2 DEF TokenBook
    <3> QED
      BY <1>1, <2>2, <3>1, <3>3 DEF Scalars, ReqInv, TokenBalance, TokenAmount, TokenBill
  <2>3. ASSUME r \notin lost, TokenOutcome(r) \in {"denied", "refunded"} PROVE TokenAmount(r) = 0
    <3>1. TokenBook(r) = tokenFee[r]
      BY <1>1, <2>3 DEF TokenOutcome, Outcome, Scalars, ReqInv, NotServing, TokenBook
    <3> QED
      BY <1>1, <2>3, <3>1 DEF Scalars, ReqInv, TokenBalance, TokenAmount
  <2> QED
    BY <2>1, <2>2, <2>3 DEF Charged, TokenOutcome, Outcome
<1> QED
  BY <1>2, <1>3 DEF Charges

-----------------------------------------------------------------------------
(* A move of one charge is a step of RequestCharges.                       *)

\* On the funding sources.
LEMMA SourceNext ==
  ASSUME NEW r \in Requests, \A q \in Requests : Charges(q)', TypeOK', SourceMoves(r), Loses(r),
         \A o \in Requests \ {r} : Same(o)
  PROVE  SourceLedger!Next
<1> DEFINE out == [q \in Requests |-> SourceOutcome(q)]
           amt == [q \in Requests |-> SourceAmount(q)]
           bil == [q \in Requests |-> SourceBill(q)]
<1>1. /\ out' \in [Requests -> SourceLedger!Outcomes] /\ amt' \in [Requests -> Nat]
      /\ bil' \in [Requests -> Nat] /\ fundFee' \in [Requests -> Nat]
  BY DEF Charges, Charged, TypeOK, SourceLedger!Outcomes
<1>2. ASSUME NEW q \in Requests \ {r}
      PROVE  /\ SourceOutcome(q)' = SourceOutcome(q) /\ SourceAmount(q)' = SourceAmount(q)
             /\ SourceBill(q)' = SourceBill(q) /\ fundFee'[q] = fundFee[q]
  BY <1>2 DEF Same, SourceOutcome, SourceAmount, SourceBill, Outcome
<1>3. SourceLedger!Alone(r)
  BY <1>1, <1>2 DEF SourceLedger!Alone, Loses, SourceOutcome, SourceAmount, SourceBill
<1>4. \/ SourceLedger!Hold(r) \/ SourceLedger!Settle(r) \/ SourceLedger!Deny(r)
      \/ SourceLedger!BeginRefund(r) \/ SourceLedger!GiveBack(r) \/ SourceLedger!EndRefund(r)
      \/ SourceLedger!ChargeFee(r) \/ SourceLedger!Lose(r)
  <2>1. Charged(r, SourceOutcome(r), SourceAmount(r), SourceBill(r))'
    BY DEF Charges
  <2>2. /\ out[r] = SourceOutcome(r) /\ amt[r] = SourceAmount(r) /\ bil[r] = SourceBill(r)
        /\ out'[r] = SourceOutcome(r)' /\ amt'[r] = SourceAmount(r)' /\ bil'[r] = SourceBill(r)'
    OBVIOUS
  <2> HIDE DEF out, amt, bil
  <2>3. Moves(out[r], out'[r], amt[r], amt'[r], bil[r], bil'[r], fundFee[r], fundFee'[r])
    BY <2>2 DEF SourceMoves
  <2>4. r \notin lost' =>
          /\ out'[r] = "settled" => amt'[r] = bil'[r]
          /\ out'[r] \in {"denied", "refunded"} => amt'[r] = 0
    BY <2>1, <2>2 DEF Charged
  <2> USE DEF out, amt, bil
  <2> QED
    BY <2>3, <2>4 DEF Moves, SourceLedger!Hold, SourceLedger!Settle, SourceLedger!Deny,
       SourceLedger!BeginRefund, SourceLedger!GiveBack, SourceLedger!EndRefund,
       SourceLedger!ChargeFee, SourceLedger!Lose, SourceLedger!Becomes, SourceOutcome,
       SourceAmount, SourceBill
<1> QED
  BY <1>3, <1>4 DEF SourceLedger!Next

\* On the token.
LEMMA TokenNext ==
  ASSUME NEW r \in Requests, \A q \in Requests : Charges(q)', TypeOK', TokenMoves(r), Loses(r),
         \A o \in Requests \ {r} : Same(o)
  PROVE  TokenLedger!Next
<1> DEFINE out == [q \in Requests |-> TokenOutcome(q)]
           amt == [q \in Requests |-> TokenAmount(q)]
           bil == [q \in Requests |-> TokenBill(q)]
<1>1. /\ out' \in [Requests -> TokenLedger!Outcomes] /\ amt' \in [Requests -> Nat]
      /\ bil' \in [Requests -> Nat] /\ tokenFee' \in [Requests -> Nat]
  BY DEF Charges, Charged, TypeOK, TokenLedger!Outcomes
<1>2. ASSUME NEW q \in Requests \ {r}
      PROVE  /\ TokenOutcome(q)' = TokenOutcome(q) /\ TokenAmount(q)' = TokenAmount(q)
             /\ TokenBill(q)' = TokenBill(q) /\ tokenFee'[q] = tokenFee[q]
  BY <1>2 DEF Same, TokenOutcome, TokenAmount, TokenBill, Outcome
<1>3. TokenLedger!Alone(r)
  BY <1>1, <1>2 DEF TokenLedger!Alone, Loses, TokenOutcome, TokenAmount, TokenBill
<1>4. \/ TokenLedger!Hold(r) \/ TokenLedger!Settle(r) \/ TokenLedger!Deny(r)
      \/ TokenLedger!BeginRefund(r) \/ TokenLedger!GiveBack(r) \/ TokenLedger!EndRefund(r)
      \/ TokenLedger!ChargeFee(r) \/ TokenLedger!Lose(r)
  <2>1. Charged(r, TokenOutcome(r), TokenAmount(r), TokenBill(r))'
    BY DEF Charges
  <2>2. /\ out[r] = TokenOutcome(r) /\ amt[r] = TokenAmount(r) /\ bil[r] = TokenBill(r)
        /\ out'[r] = TokenOutcome(r)' /\ amt'[r] = TokenAmount(r)' /\ bil'[r] = TokenBill(r)'
    OBVIOUS
  <2> HIDE DEF out, amt, bil
  <2>3. Moves(out[r], out'[r], amt[r], amt'[r], bil[r], bil'[r], tokenFee[r], tokenFee'[r])
    BY <2>2 DEF TokenMoves
  <2>4. r \notin lost' =>
          /\ out'[r] = "settled" => amt'[r] = bil'[r]
          /\ out'[r] \in {"denied", "refunded"} => amt'[r] = 0
    BY <2>1, <2>2 DEF Charged
  <2> USE DEF out, amt, bil
  <2> QED
    BY <2>3, <2>4 DEF Moves, TokenLedger!Hold, TokenLedger!Settle, TokenLedger!Deny,
       TokenLedger!BeginRefund, TokenLedger!GiveBack, TokenLedger!EndRefund,
       TokenLedger!ChargeFee, TokenLedger!Lose, TokenLedger!Becomes, TokenOutcome,
       TokenAmount, TokenBill
<1> QED
  BY <1>3, <1>4 DEF TokenLedger!Next

-----------------------------------------------------------------------------
(* Every action moves each charge by one move or none.                  *)

\* Start leaves both charges alone.
LEMMA StartMoves ==
  ASSUME NEW r \in Requests,
         NEW q \in Quotas, NEW k \in Kinds, NEW p \in Playgrounds, NEW b \in Preferences,
         TypeOK, ReqInv(r), Start(r, q, k, p, b)
  PROVE  SourceMoves(r) /\ TokenMoves(r) /\ Loses(r)
<1>1. SourceMoves(r)
  BY DEF Start, FirstSource, SecondSource, Entry, SourceMoves, Moves, SourceOutcome,
     SourceAmount, SourceBill, Outcome
<1>2. TokenMoves(r)
  BY DEF Start, FirstSource, SecondSource, Entry, ReqInv, NotServing, TokenMoves, Moves,
     TokenOutcome, TokenAmount, TokenBill, Outcome
<1> QED
  BY <1>1, <1>2 DEF Start, Loses

\* QuoteWallet denies a request that holds nothing, or moves on.
LEMMA QuoteWalletMoves ==
  ASSUME NEW r \in Requests,
         TypeOK, ReqInv(r), QuoteWallet(r)
  PROVE  SourceMoves(r) /\ TokenMoves(r) /\ Loses(r)
<1>1. SourceMoves(r)
  BY DEF TypeOK, QuoteWallet, TryOther, Entry, SourceMoves, Moves, SourceOutcome,
     SourceAmount, SourceBill, Outcome
<1>2. TokenMoves(r)
  BY DEF TypeOK, QuoteWallet, TryOther, Entry, ReqInv, NotServing, TokenMoves, Moves,
     TokenOutcome, TokenAmount, TokenBill, Outcome
<1> QED
  BY <1>1, <1>2 DEF QuoteWallet, Loses

\* PreConsumeToken takes the token's reservation or denies.
LEMMA PreConsumeTokenMoves ==
  ASSUME NEW r \in Requests,
         TypeOK, ReqInv(r), PreConsumeToken(r)
  PROVE  SourceMoves(r) /\ TokenMoves(r) /\ Loses(r)
<1>1. SourceMoves(r)
  BY DEF TypeOK, PreConsumeToken, Estimate, ShouldTrust, SourceMoves, Moves, SourceOutcome,
     SourceAmount, SourceBill, Outcome
<1>2. TokenMoves(r)
  BY DEF TypeOK, PreConsumeToken, Estimate, ShouldTrust, ReqInv, NotServing, TokenMoves,
     Moves, TokenOutcome, TokenAmount, TokenBill, Outcome
<1> QED
  BY <1>1, <1>2 DEF PreConsumeToken, Loses

\* PreConsumeWallet takes the source's reservation.
LEMMA PreConsumeWalletMoves ==
  ASSUME NEW r \in Requests,
         TypeOK, ReqInv(r), PreConsumeWallet(r)
  PROVE  SourceMoves(r) /\ TokenMoves(r) /\ Loses(r)
<1>1. SourceMoves(r)
  BY DEF TypeOK, PreConsumeWallet, ReqInv, NotServing, SourceMoves, Moves, SourceOutcome,
     SourceAmount, SourceBill, Outcome
<1>2. TokenMoves(r)
  BY DEF TypeOK, PreConsumeWallet, TokenMoves, Moves, TokenOutcome, TokenAmount, TokenBill,
     Outcome
<1> QED
  BY <1>1, <1>2 DEF PreConsumeWallet, Loses

\* PreConsumeSubscription takes the source's reservation.
LEMMA PreConsumeSubscriptionMoves ==
  ASSUME NEW r \in Requests, NEW n \in Quotas,
         TypeOK, ReqInv(r), PreConsumeSubscription(r, n)
  PROVE  SourceMoves(r) /\ TokenMoves(r) /\ Loses(r)
<1>1. SourceMoves(r)
  BY DEF TypeOK, PreConsumeSubscription, ReqInv, NotServing, SourceMoves, Moves,
     SourceOutcome, SourceAmount, SourceBill, Outcome
<1>2. TokenMoves(r)
  BY DEF TypeOK, PreConsumeSubscription, TokenMoves, Moves, TokenOutcome, TokenAmount,
     TokenBill, Outcome
<1> QED
  BY <1>1, <1>2 DEF PreConsumeSubscription, Loses

\* RollbackToken gives the token's reservation back and may deny.
LEMMA RollbackTokenMoves ==
  ASSUME NEW r \in Requests,
         TypeOK, ReqInv(r), RollbackToken(r)
  PROVE  SourceMoves(r) /\ TokenMoves(r) /\ Loses(r)
<1>1. SourceMoves(r)
  BY DEF TypeOK, RollbackToken, TryOther, Entry, SourceMoves, Moves, SourceOutcome,
     SourceAmount, SourceBill, Outcome
<1>2. TokenMoves(r)
  BY DEF TypeOK, RollbackToken, TryOther, Entry, ReqInv, NotServing, TokenMoves, Moves,
     TokenOutcome, TokenAmount, TokenBill, Outcome
<1> QED
  BY <1>1, <1>2 DEF RollbackToken, Loses

\* ReconcileToken adjusts the token's reservation.
LEMMA ReconcileTokenMoves ==
  ASSUME NEW r \in Requests,
         TypeOK, ReqInv(r), ReconcileToken(r)
  PROVE  SourceMoves(r) /\ TokenMoves(r) /\ Loses(r)
<1>1. SourceMoves(r)
  BY DEF TypeOK, ReconcileToken, SourceMoves, Moves, SourceOutcome, SourceAmount, SourceBill,
     Outcome
<1>2. TokenMoves(r)
  BY DEF TypeOK, ReconcileToken, ReqInv, NotServing, TokenMoves, Moves, TokenOutcome,
     TokenAmount, TokenBill, Outcome
<1> QED
  BY <1>1, <1>2 DEF ReconcileToken, Loses

\* AbortSubscription gives the source's reservation back.
LEMMA AbortSubscriptionMoves ==
  ASSUME NEW r \in Requests,
         TypeOK, ReqInv(r), AbortSubscription(r)
  PROVE  SourceMoves(r) /\ TokenMoves(r) /\ Loses(r)
<1>1. SourceMoves(r)
  BY DEF AbortSubscription, RefundRecord, ReqInv, NotServing, SourceMoves, Moves,
     SourceOutcome, SourceAmount, SourceBill, Outcome
<1>2. TokenMoves(r)
  BY DEF AbortSubscription, RefundRecord, TokenMoves, Moves, TokenOutcome, TokenAmount,
     TokenBill, Outcome
<1> QED
  BY <1>1, <1>2 DEF AbortSubscription, Loses

\* Reserve raises the source's reservation of a request that is not decided.
LEMMA ReserveMoves ==
  ASSUME NEW r \in Requests, NEW t \in Quotas,
         TypeOK, ReqInv(r), Reserve(r, t)
  PROVE  SourceMoves(r) /\ TokenMoves(r) /\ Loses(r)
<1>1. SourceMoves(r)
  BY DEF TypeOK, Reserve, MayReserve, ReserveNoop, ReserveFails, ReqInv, Control, SourceMoves,
     Moves, SourceOutcome, SourceAmount, SourceBill, Outcome
<1>2. TokenMoves(r)
  BY DEF TypeOK, Reserve, MayReserve, ReserveNoop, ReserveFails, TokenMoves, Moves,
     TokenOutcome, TokenAmount, TokenBill, Outcome
<1> QED
  BY <1>1, <1>2 DEF Reserve, Loses

\* ReserveToken raises the token's reservation.
LEMMA ReserveTokenMoves ==
  ASSUME NEW r \in Requests,
         TypeOK, ReqInv(r), ReserveToken(r)
  PROVE  SourceMoves(r) /\ TokenMoves(r) /\ Loses(r)
<1>1. SourceMoves(r)
  BY DEF ReserveToken, SourceMoves, Moves, SourceOutcome, SourceAmount, SourceBill, Outcome
<1>2. TokenMoves(r)
  BY DEF ReserveToken, ReqInv, NotServing, Control, TokenMoves, Moves, TokenOutcome,
     TokenAmount, TokenBill, Outcome
<1> QED
  BY <1>1, <1>2 DEF ReserveToken, Loses

\* RollbackReserve gives back what Reserve took from the source.
LEMMA RollbackReserveMoves ==
  ASSUME NEW r \in Requests,
         TypeOK, ReqInv(r), RollbackReserve(r)
  PROVE  SourceMoves(r) /\ TokenMoves(r) /\ Loses(r)
<1>1. SourceMoves(r)
  BY DEF RollbackReserve, ReserveFails, ReqInv, NotServing, Control, SourceMoves, Moves,
     SourceOutcome, SourceAmount, SourceBill, Outcome
<1>2. TokenMoves(r)
  BY DEF RollbackReserve, ReserveFails, ReqInv, Control, TokenMoves, Moves, TokenOutcome,
     TokenAmount, TokenBill, Outcome
<1> QED
  BY <1>1, <1>2 DEF RollbackReserve, Loses

\* Settle decides the source's charge, and the token's when nothing is left to move.
LEMMA SettleMoves ==
  ASSUME NEW r \in Requests, NEW t \in Quotas,
         TypeOK, ReqInv(r), Settle(r, t)
  PROVE  SourceMoves(r) /\ TokenMoves(r) /\ Loses(r)
<1>1. SourceMoves(r)
  BY DEF TypeOK, Settle, ReqInv, Control, SourceMoves, Moves, SourceOutcome, SourceAmount,
     SourceBill, Outcome
<1>2. TokenMoves(r)
  BY DEF TypeOK, Settle, ReqInv, Control, TokenMoves, Moves, TokenOutcome, TokenAmount,
     TokenBill, Outcome
<1> QED
  BY <1>1, <1>2 DEF Settle, Loses

\* SettleToken decides the token's charge.
LEMMA SettleTokenMoves ==
  ASSUME NEW r \in Requests,
         TypeOK, ReqInv(r), SettleToken(r)
  PROVE  SourceMoves(r) /\ TokenMoves(r) /\ Loses(r)
<1>1. SourceMoves(r)
  BY DEF SettleToken, SourceMoves, Moves, SourceOutcome, SourceAmount, SourceBill, Outcome
<1>2. TokenMoves(r)
  BY DEF SettleToken, ReqInv, Control, TokenMoves, Moves, TokenOutcome, TokenAmount,
     TokenBill, Outcome
<1> QED
  BY <1>1, <1>2 DEF SettleToken, Loses

\* Refund begins the refund of a request that is not decided.
LEMMA RefundMoves ==
  ASSUME NEW r \in Requests,
         TypeOK, ReqInv(r), Refund(r)
  PROVE  SourceMoves(r) /\ TokenMoves(r) /\ Loses(r)
<1>1. SourceMoves(r)
  BY DEF TypeOK, Refund, RefundCalled, NeedsRefund, ReqInv, Control, SourceMoves, Moves,
     SourceOutcome, SourceAmount, SourceBill, Outcome
<1>2. TokenMoves(r)
  BY DEF TypeOK, Refund, RefundCalled, NeedsRefund, ReqInv, Control, TokenMoves, Moves,
     TokenOutcome, TokenAmount, TokenBill, Outcome
<1> QED
  BY <1>1, <1>2 DEF Refund, Loses

\* RefundFunding gives back what preConsume reserved on the source.
LEMMA RefundFundingMoves ==
  ASSUME NEW r \in Requests,
         TypeOK, ReqInv(r), RefundFunding(r)
  PROVE  SourceMoves(r) /\ TokenMoves(r) /\ Loses(r)
<1>1. SourceMoves(r)
  BY DEF TypeOK, RefundFunding, RefundRecord, ReqInv, Control, SourceMoves, Moves,
     SourceOutcome, SourceAmount, SourceBill, Outcome
<1>2. TokenMoves(r)
  BY DEF RefundFunding, RefundRecord, TokenMoves, Moves, TokenOutcome, TokenAmount, TokenBill,
     Outcome
<1> QED
  BY <1>1, <1>2 DEF RefundFunding, Loses

\* RefundExtra gives back what Reserve added and ends the source's refund.
LEMMA RefundExtraMoves ==
  ASSUME NEW r \in Requests,
         TypeOK, ReqInv(r), RefundExtra(r)
  PROVE  SourceMoves(r) /\ TokenMoves(r) /\ Loses(r)
<1>1. SourceMoves(r)
  BY DEF TypeOK, RefundExtra, ReqInv, Control, SourceMoves, Moves, SourceOutcome,
     SourceAmount, SourceBill, Outcome
<1>2. TokenMoves(r)
  BY DEF RefundExtra, TokenMoves, Moves, TokenOutcome, TokenAmount, TokenBill, Outcome
<1> QED
  BY <1>1, <1>2 DEF RefundExtra, Loses

\* RefundToken ends the token's refund.
LEMMA RefundTokenMoves ==
  ASSUME NEW r \in Requests,
         TypeOK, ReqInv(r), RefundToken(r)
  PROVE  SourceMoves(r) /\ TokenMoves(r) /\ Loses(r)
<1>1. SourceMoves(r)
  BY DEF RefundToken, SourceMoves, Moves, SourceOutcome, SourceAmount, SourceBill, Outcome
<1>2. TokenMoves(r)
  BY DEF TypeOK, RefundToken, ReqInv, Control, TokenMoves, Moves, TokenOutcome, TokenAmount,
     TokenBill, Outcome
<1> QED
  BY <1>1, <1>2 DEF RefundToken, Loses

\* ChargeFee charges the source its fee.
LEMMA ChargeFeeMoves ==
  ASSUME NEW r \in Requests,
         TypeOK, ReqInv(r), ChargeFee(r)
  PROVE  SourceMoves(r) /\ TokenMoves(r) /\ Loses(r)
<1>1. SourceMoves(r)
  BY ConstantsAssumption DEF ConstantsAssumption, TypeOK, ChargeFee, ReqInv, Control,
     SourceMoves, Moves, SourceOutcome, SourceAmount, SourceBill, Outcome
<1>2. TokenMoves(r)
  BY DEF TypeOK, ChargeFee, TokenMoves, Moves, TokenOutcome, TokenAmount, TokenBill, Outcome
<1> QED
  BY <1>1, <1>2 DEF ChargeFee, Loses

\* ChargeFeeToken charges the token its fee.
LEMMA ChargeFeeTokenMoves ==
  ASSUME NEW r \in Requests,
         TypeOK, ReqInv(r), ChargeFeeToken(r)
  PROVE  SourceMoves(r) /\ TokenMoves(r) /\ Loses(r)
<1>1. SourceMoves(r)
  BY DEF ChargeFeeToken, SourceMoves, Moves, SourceOutcome, SourceAmount, SourceBill, Outcome
<1>2. TokenMoves(r)
  BY ConstantsAssumption DEF ConstantsAssumption, TypeOK, ChargeFeeToken, ReqInv, Control,
     TokenMoves, Moves, TokenOutcome, TokenAmount, TokenBill, Outcome
<1> QED
  BY <1>1, <1>2 DEF ChargeFeeToken, Loses

\* Finish leaves both charges alone.
LEMMA FinishMoves ==
  ASSUME NEW r \in Requests,
         TypeOK, ReqInv(r), Finish(r)
  PROVE  SourceMoves(r) /\ TokenMoves(r) /\ Loses(r)
<1>1. SourceMoves(r)
  BY DEF Finish, SourceMoves, Moves, SourceOutcome, SourceAmount, SourceBill, Outcome
<1>2. TokenMoves(r)
  BY DEF Finish, TokenMoves, Moves, TokenOutcome, TokenAmount, TokenBill, Outcome
<1> QED
  BY <1>1, <1>2 DEF Finish, Loses

\* Every step of a session moves each charge of its request by one move or none, and
\* touches no other request.
LEMMA StepMoves ==
  ASSUME IInv, Next
  PROVE  \E r \in Requests : /\ SourceMoves(r) /\ TokenMoves(r) /\ Loses(r)
                             /\ \A o \in Requests \ {r} : Same(o)
<1>1. PICK r \in Requests :
        \/ \E q \in Quotas, k \in Kinds, p \in Playgrounds, b \in Preferences : Start(r, q, k, p, b)
        \/ \E q \in Quotas : Reserve(r, q)
        \/ Progress(r)
        \/ Handler(r)
        \/ RefundGoroutine(r)
  BY DEF Next
<1>2. TypeOK /\ ReqInv(r)
  BY DEF IInv
<1>3. SourceMoves(r) /\ TokenMoves(r) /\ Loses(r)
  <2>1. CASE \E q \in Quotas, k \in Kinds, p \in Playgrounds, b \in Preferences :
               Start(r, q, k, p, b)
    BY <1>2, <2>1, StartMoves
  <2>2. CASE \E q \in Quotas : Reserve(r, q)
    BY <1>2, <2>2, ReserveMoves
  <2>3. CASE Progress(r)
    BY <1>2, <2>3, QuoteWalletMoves, PreConsumeTokenMoves, PreConsumeWalletMoves,
       PreConsumeSubscriptionMoves, RollbackTokenMoves, ReconcileTokenMoves,
       AbortSubscriptionMoves, ReserveTokenMoves, RollbackReserveMoves, SettleTokenMoves,
       ChargeFeeMoves, ChargeFeeTokenMoves DEF Progress
  <2>4. CASE Handler(r)
    BY <1>2, <2>4, RefundMoves, SettleMoves, FinishMoves DEF Handler
  <2>5. CASE RefundGoroutine(r)
    BY <1>2, <2>5, RefundFundingMoves, RefundExtraMoves, RefundTokenMoves DEF RefundGoroutine
  <2> QED
    BY <1>1, <2>1, <2>2, <2>3, <2>4, <2>5
<1>4. \A o \in Requests \ {r} : Same(o)
  <2>1. CASE \E q \in Quotas, k \in Kinds, p \in Playgrounds, b \in Preferences :
               Start(r, q, k, p, b)
    BY <1>2, <2>1, StartPreserves, ConstantsAssumption
  <2>2. CASE \E q \in Quotas : Reserve(r, q)
    BY <1>2, <2>2, ReservePreserves, ConstantsAssumption
  <2>3. CASE Progress(r)
    BY <1>2, <2>3, QuoteWalletPreserves, PreConsumeTokenPreserves, PreConsumeWalletPreserves,
       PreConsumeSubscriptionPreserves, RollbackTokenPreserves, ReconcileTokenPreserves,
       AbortSubscriptionPreserves, ReserveTokenPreserves, RollbackReservePreserves,
       SettleTokenPreserves, ChargeFeePreserves, ChargeFeeTokenPreserves, ConstantsAssumption
       DEF Progress
  <2>4. CASE Handler(r)
    BY <1>2, <2>4, RefundPreserves, SettlePreserves, FinishPreserves, ConstantsAssumption
       DEF Handler
  <2>5. CASE RefundGoroutine(r)
    BY <1>2, <2>5, RefundFundingPreserves, RefundExtraPreserves, RefundTokenPreserves,
       ConstantsAssumption DEF RefundGoroutine
  <2> QED
    BY <1>1, <2>1, <2>2, <2>3, <2>4, <2>5
<1> QED
  BY <1>3, <1>4

-----------------------------------------------------------------------------
(* The refinements.                                                        *)

\* Every decided charge of every request is what its decision says.
AllCharges == \A r \in Requests : Charges(r)

\* The books give it in every reachable state.
LEMMA AllChargesFollow == ASSUME IInv PROVE AllCharges
BY ChargesFollow DEF IInv, AllCharges

\* Every step of every session is, on the funding sources, a step of RequestCharges or
\* none: one of denial, settlement and refund decides what the request costs, and no late
\* Reserve, second Settle or deferred Refund moves it afterwards, whatever is lost.
THEOREM SourceChargesKept == Spec => ChargesSource
<1>1. Init => SourceLedger!Init
  BY DEF Init, Zero, SourceLedger!Init, Outcome
<1>2. IInv /\ IInv' /\ AllCharges' /\ [Next]_vars
        => [SourceLedger!Next]_<<[r \in Requests |-> SourceOutcome(r)],
                                 [r \in Requests |-> SourceAmount(r)],
                                 [r \in Requests |-> SourceBill(r)], fundFee, lost>>
  <2>1. ASSUME IInv, IInv', AllCharges', Next PROVE SourceLedger!Next
    <3>1. PICK r \in Requests : /\ SourceMoves(r) /\ TokenMoves(r) /\ Loses(r)
                                /\ \A o \in Requests \ {r} : Same(o)
      BY <2>1, StepMoves
    <3>2. TypeOK' /\ \A q \in Requests : Charges(q)'
      BY <2>1 DEF IInv, AllCharges
    <3> QED
      BY <3>1, <3>2, SourceNext
  <2>2. ASSUME UNCHANGED vars
        PROVE  UNCHANGED <<[r \in Requests |-> SourceOutcome(r)],
                           [r \in Requests |-> SourceAmount(r)],
                           [r \in Requests |-> SourceBill(r)], fundFee, lost>>
    BY <2>2 DEF vars, SourceOutcome, SourceAmount, SourceBill, Outcome
  <2> QED
    BY <2>1, <2>2
<1>3. IInv => AllCharges
  BY AllChargesFollow
<1> QED
  BY <1>1, <1>2, <1>3, Invariant, PTL
     DEF Spec, ChargesSource, SourceLedger!Spec, SourceOutcome, SourceAmount, SourceBill

\* ... and so it is on the token, which is moved before the source when a request starts
\* and after it when it is raised, settled or refunded.
THEOREM TokenChargesKept == Spec => ChargesToken
<1>1. Init => TokenLedger!Init
  BY DEF Init, Zero, TokenLedger!Init, Outcome
<1>2. IInv /\ IInv' /\ AllCharges' /\ [Next]_vars
        => [TokenLedger!Next]_<<[r \in Requests |-> TokenOutcome(r)],
                                [r \in Requests |-> TokenAmount(r)],
                                [r \in Requests |-> TokenBill(r)], tokenFee, lost>>
  <2>1. ASSUME IInv, IInv', AllCharges', Next PROVE TokenLedger!Next
    <3>1. PICK r \in Requests : /\ SourceMoves(r) /\ TokenMoves(r) /\ Loses(r)
                                /\ \A o \in Requests \ {r} : Same(o)
      BY <2>1, StepMoves
    <3>2. TypeOK' /\ \A q \in Requests : Charges(q)'
      BY <2>1 DEF IInv, AllCharges
    <3> QED
      BY <3>1, <3>2, TokenNext
  <2>2. ASSUME UNCHANGED vars
        PROVE  UNCHANGED <<[r \in Requests |-> TokenOutcome(r)],
                           [r \in Requests |-> TokenAmount(r)],
                           [r \in Requests |-> TokenBill(r)], tokenFee, lost>>
    BY <2>2 DEF vars, TokenOutcome, TokenAmount, TokenBill, Outcome
  <2> QED
    BY <2>1, <2>2
<1>3. IInv => AllCharges
  BY AllChargesFollow
<1> QED
  BY <1>1, <1>2, <1>3, Invariant, PTL
     DEF Spec, ChargesToken, TokenLedger!Spec, TokenOutcome, TokenAmount, TokenBill
=============================================================================
