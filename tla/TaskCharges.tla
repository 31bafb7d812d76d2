---------------------------- MODULE TaskCharges ----------------------------
(***************************************************************************)
(* What an asynchronous task promises the ledger that pays for it, however *)
(* many workers poll, sweep and fetch it: it is charged when it is         *)
(* submitted, it ends once, and after that its charge moves once at most,  *)
(* to nothing when it failed and to what it used when it succeeded.        *)
(***************************************************************************)
EXTENDS Naturals

CONSTANTS
  Tasks,
  Amounts  \* what a task may come to cost

VARIABLES
  status,  \* "none", "running", "SUCCESS" or "FAILURE"
  held,    \* what the ledger has paid for the task
  due      \* ended tasks whose charge has yet to be moved

Init ==
  /\ status = [t \in Tasks |-> "none"]
  /\ held = [t \in Tasks |-> 0]
  /\ due = {}

Submit(t, n) ==
  /\ status[t] = "none"
  /\ status' = [status EXCEPT ![t] = "running"]
  /\ held' = [held EXCEPT ![t] = n]
  /\ UNCHANGED due

\* Whoever ends the task says whether its charge is to be moved.
End(t, s) ==
  /\ status[t] = "running"
  /\ status' = [status EXCEPT ![t] = s]
  /\ due' = due \/ due' = due \cup {t}
  /\ UNCHANGED held

Refund(t) ==
  /\ t \in due /\ status[t] = "FAILURE"
  /\ held' = [held EXCEPT ![t] = 0]
  /\ due' = due \ {t}
  /\ UNCHANGED status

Settle(t, n) ==
  /\ t \in due /\ status[t] = "SUCCESS"
  /\ held' = [held EXCEPT ![t] = n]
  /\ due' = due \ {t}
  /\ UNCHANGED status

\* The charge stays, because it is right or because moving it failed.
Leave(t) ==
  /\ t \in due
  /\ due' = due \ {t}
  /\ UNCHANGED <<status, held>>

Next ==
  \E t \in Tasks :
    \/ \E n \in Amounts : Submit(t, n) \/ Settle(t, n)
    \/ \E s \in {"SUCCESS", "FAILURE"} : End(t, s)
    \/ Refund(t)
    \/ Leave(t)

Spec == Init /\ [][Next]_<<status, held, due>>
=============================================================================
