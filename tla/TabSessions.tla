---------------------------- MODULE TabSessions ----------------------------
(***************************************************************************)
(* What the login sessions of a browser promise, whatever travels between  *)
(* its tabs and the server: a session is issued once and revoked for good, *)
(* and a tab that dropped a revoked session does not hold it again.        *)
(***************************************************************************)
CONSTANTS Tabs, Sids, None

VARIABLES
  status,  \* "unused", "active" or "revoked"
  held,    \* the session a tab shows, or None
  gone     \* sessions that were revoked when the tab dropped them

Init ==
  /\ status = [s \in Sids |-> "unused"]
  /\ held = [t \in Tabs |-> None]
  /\ gone = [t \in Tabs |-> {}]

Issue(s) == status[s] = "unused" /\ status' = [status EXCEPT ![s] = "active"]
Revoke(s) == status[s] = "active" /\ status' = [status EXCEPT ![s] = "revoked"]

\* What tab t has dropped once it holds s.
Dropped(t, s) ==
  IF held[t] \notin {None, s} /\ status[held[t]] = "revoked"
  THEN gone[t] \cup {held[t]} ELSE gone[t]

\* A tab takes a session that was issued, but none it has dropped; it may drop any.
Hold(t, s) ==
  /\ s = None \/ (status'[s] # "unused" /\ s \notin gone[t])
  /\ held' = [held EXCEPT ![t] = s]
  /\ gone' = [gone EXCEPT ![t] = Dropped(t, s)]

\* The server and a tab may move in one step.
Next ==
  /\ UNCHANGED status \/ \E s \in Sids : Issue(s) \/ Revoke(s)
  /\ UNCHANGED <<held, gone>> \/ \E t \in Tabs, s \in Sids \cup {None} : Hold(t, s)

Spec == Init /\ [][Next]_<<status, held, gone>>
=============================================================================
