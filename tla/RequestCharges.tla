--------------------------- MODULE RequestCharges ---------------------------
(***************************************************************************)
(* What a relayed request promises a ledger that pays for it: the charge   *)
(* moves while the request is open; then it is denied, settled or refunded *)
(* once, and stays as it is.  A fee is charged once, beside the rest.      *)
(* Nothing is promised of the final amount once an operation was lost.     *)
(***************************************************************************)
EXTENDS Integers

CONSTANTS Requests, Fee

VARIABLES
  outcome,  \* "open", "denied", "settled", "refunding" or "refunded"
  amount,   \* what the ledger has paid for the request, fee apart
  bill,     \* what the request was settled for
  fee,      \* the fee it has paid
  lost      \* requests for which an operation on some ledger was lost

Outcomes == {"open", "denied", "settled", "refunding", "refunded"}

Init ==
  /\ outcome = [r \in Requests |-> "open"]
  /\ amount = [r \in Requests |-> 0] /\ bill = [r \in Requests |-> 0]
  /\ fee = [r \in Requests |-> 0]
  /\ lost = {}

\* A step is one of request r, during which an operation may be lost.
Alone(r) ==
  /\ outcome' \in [Requests -> Outcomes] /\ amount' \in [Requests -> Nat]
  /\ bill' \in [Requests -> Nat] /\ fee' \in [Requests -> Nat]
  /\ \A q \in Requests \ {r} :
       /\ outcome'[q] = outcome[q] /\ amount'[q] = amount[q]
       /\ bill'[q] = bill[q] /\ fee'[q] = fee[q]
  /\ lost' = lost \/ lost' = lost \cup {r}

Becomes(r, from, to) == outcome[r] = from /\ outcome'[r] = to /\ fee'[r] = fee[r]

\* Reserving more, or giving a reservation back.
Hold(r) == Becomes(r, "open", "open") /\ bill'[r] = bill[r]

Settle(r) == Becomes(r, "open", "settled") /\ (r \notin lost' => amount'[r] = bill'[r])

Deny(r) ==
  /\ Becomes(r, "open", "denied")
  /\ bill'[r] = bill[r] /\ amount'[r] <= amount[r]
  /\ r \notin lost' => amount'[r] = 0

BeginRefund(r) ==
  Becomes(r, "open", "refunding") /\ bill'[r] = bill[r] /\ amount'[r] = amount[r]

GiveBack(r) ==
  Becomes(r, "refunding", "refunding") /\ bill'[r] = bill[r] /\ amount'[r] <= amount[r]

EndRefund(r) ==
  /\ Becomes(r, "refunding", "refunded")
  /\ bill'[r] = bill[r] /\ amount'[r] <= amount[r]
  /\ r \notin lost' => amount'[r] = 0

ChargeFee(r) ==
  /\ outcome[r] # "denied" /\ fee[r] = 0 /\ fee'[r] = Fee
  /\ outcome'[r] = outcome[r] /\ amount'[r] = amount[r] /\ bill'[r] = bill[r]

\* An operation on another ledger is lost.
Lose(r) ==
  /\ outcome'[r] = outcome[r] /\ amount'[r] = amount[r]
  /\ bill'[r] = bill[r] /\ fee'[r] = fee[r]

Next ==
  \E r \in Requests :
    /\ Alone(r)
    /\ \/ Hold(r) \/ Settle(r) \/ Deny(r)
       \/ BeginRefund(r) \/ GiveBack(r) \/ EndRefund(r)
       \/ ChargeFee(r) \/ Lose(r)

Spec == Init /\ [][Next]_<<outcome, amount, bill, fee, lost>>
=============================================================================
