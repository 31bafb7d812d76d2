---------------------------- MODULE AuthSession ----------------------------
(***************************************************************************)
(* The dashboard's login session: tabs of one browser that share a refresh *)
(* cookie, a Web Lock and a broadcast channel, and the server that rotates *)
(* the secret in the cookie (web/src/lib/auth-session.ts, its callers, and *)
(* service/auth_session.go).                                               *)
(*                                                                         *)
(* A tab's JavaScript runs between two awaits without interruption, so a   *)
(* step of a tab goes from one await to the next; awaiters of a promise go *)
(* on in the step that settles it.  authEpoch is compared with the value a *)
(* refresh began with and nothing else, so a refresh carries the result of *)
(* that comparison (stale) in its place.  A request reaches the server     *)
(* when it is sent; all the delay is on the way of the answer, and it is   *)
(* there that steps of the other tabs come in between.                     *)
(***************************************************************************)
EXTENDS Naturals, Sequences, FiniteSets

CONSTANTS
  Tabs,        \* tabs of the browser
  Sids,        \* session IDs the server may issue
  None,        \* no session
  Locks,       \* the browser has navigator.locks
  RaceReplies, \* the server may answer a previous secret with AUTH_REFRESH_RACE
  MaxRaces,    \* retries after a race, the length of refreshRaceDelays
  Budget,      \* bound: logins, security changes and faults in all
  MaxEvents,   \* bound: events on their way to a tab
  MaxPending   \* bound: API requests, logouts and security changes under way

ASSUME AuthConstants ==
  /\ None \notin Sids
  /\ {Locks, RaceReplies} \subseteq BOOLEAN
  /\ {MaxRaces, Budget, MaxEvents, MaxPending} \subseteq Nat

VARIABLES
  \* the server: model.UserSession
  status,    \* "unused" before the login, "active", "revoked"
  version,   \* UserSession.Version, part of every access token
  \* the browser
  cookie,    \* the refresh cookie: a session and the age of its secret
  inbox,     \* events of the broadcast channel on their way to each tab
  \* the tabs: useAuthStore
  held,      \* accessToken, accessExpiresAt and session
  boot,      \* bootstrapState: "idle" (or "checking") or "complete"; it is read
             \* only of a store without a session and "complete" of others
  \* ... and what they wait for
  run,       \* the refresh behind refreshPromise
  call,      \* an API request of http-client.ts
  logout,    \* executeLogout
  rot,       \* bundle of a response with acceptAuthRotation
  \* history
  gone,      \* sessions that were revoked when the tab dropped them
  reused,    \* sessions the server revoked for a replayed secret
  lossy,     \* an answered refresh did not reach its page
  spent      \* logins, security changes and faults so far

server == <<status, version>>
browser == <<cookie, inbox>>
store == <<held, gone, boot>>
requests == <<run, call, logout, rot>>
history == <<reused, lossy, spent>>
vars == <<server, browser, store, requests, history>>

NoBundle == [sid |-> None, ver |-> 0, fresh |-> FALSE]
NoCookie == [sid |-> None, age |-> 0]
NoReply == [kind |-> "none", bundle |-> NoBundle, age |-> 0]
NoRun == [at |-> "off", stale |-> FALSE, race |-> 0, retry |-> TRUE, sends |-> 0,
          reply |-> NoReply]
NoCall == [at |-> "none", token |-> NoBundle]

Init ==
  /\ status = [s \in Sids |-> "unused"] /\ version = [s \in Sids |-> 0]
  /\ cookie = NoCookie /\ inbox = [t \in Tabs |-> <<>>]
  /\ held = [t \in Tabs |-> NoBundle] /\ boot = [t \in Tabs |-> "idle"]
  /\ run = [t \in Tabs |-> NoRun] /\ call = [t \in Tabs |-> NoCall]
  /\ logout = [t \in Tabs |-> "none"] /\ rot = [t \in Tabs |-> NoBundle]
  /\ gone = [t \in Tabs |-> {}] /\ reused = {} /\ lossy = FALSE /\ spent = 0

-----------------------------------------------------------------------------
(* The server.                                                             *)

Spend == spent < Budget /\ spent' = spent + 1

\* issueAuthBundle: an access token of the session's present version.
Bundle(s) == [sid |-> s, ver |-> version[s], fresh |-> TRUE]

\* ValidateLoginSession, in the middleware of the API.
Accepted(b) ==
  b.sid # None /\ b.fresh /\ status[b.sid] = "active" /\ b.ver = version[b.sid]

\* What RefreshAuth may make of a cookie and the X-Auth-Session header. The next
\* secret is derived from the presented one, so the previous secret gets the
\* present one again inside RefreshReplayWindow and counts as replayed after it;
\* the time since the rotation is not modelled.
Verdicts(c, header) ==
  IF c.sid = None THEN {"missing"}
  ELSE IF header \notin {None, c.sid} THEN {"mismatch"}
  ELSE IF status[c.sid] # "active" THEN {"revoked"}
  ELSE CASE c.age = 0 -> {"rotate"}
         [] c.age = 1 -> {"again", "reuse"}
         [] OTHER -> {"invalid"}

\* authSessionErrorCode, as the client tells the answers apart.
Kinds(verdict) ==
  CASE verdict = "rotate" -> {"bundle"}
    [] verdict = "again" -> IF RaceReplies THEN {"bundle", "race"} ELSE {"bundle"}
    [] verdict = "mismatch" -> {"mismatch"}
    [] OTHER -> {"anonymous"}

\* A cookie once the secret of session s is rotated.
Older(c, s) == IF s # None /\ c.sid = s /\ c.age < 2 THEN [c EXCEPT !.age = @ + 1] ELSE c
OlderReply(r, s) ==
  IF s # None /\ r.bundle.sid = s /\ r.age < 2 THEN [r EXCEPT !.age = @ + 1] ELSE r

\* RefreshAuth for tab t, whose refresh is x: RotateUserSessionRefresh on the
\* session of the cookie. Secrets of that session that are under way age.
Refresh(t, x, header) ==
  \E v \in Verdicts(cookie, header), kind \in {"bundle", "race", "mismatch", "anonymous"} :
    LET s == IF v = "rotate" THEN cookie.sid ELSE None
        b == IF kind = "bundle" THEN Bundle(cookie.sid) ELSE NoBundle
        r == [kind |-> kind, bundle |-> b, age |-> 0]
    IN /\ kind \in Kinds(v)
       /\ status' = IF v = "reuse" THEN [status EXCEPT ![cookie.sid] = "revoked"] ELSE status
       /\ reused' = IF v = "reuse" THEN reused \cup {cookie.sid} ELSE reused
       /\ cookie' = Older(cookie, s)
       /\ run' = [u \in Tabs |->
            IF u = t THEN [x EXCEPT !.at = "replied", !.reply = r]
            ELSE [run[u] EXCEPT !.reply = OlderReply(@, s)]]
       /\ UNCHANGED <<version, lossy, spent>>

\* The request fails on its way, or the server or a proxy answers something else.
RequestFails(t, x) ==
  /\ Spend
  /\ \E kind \in {"error", "other"} :
       run' = [run EXCEPT ![t] = [x EXCEPT !.at = "replied", !.reply = [NoReply EXCEPT !.kind = kind]]]
  /\ UNCHANGED <<server, cookie, reused, lossy>>

\* The session is revoked from another device, by an administrator or by a
\* security change of its user (RevokeUserSession).
Revoke(s) ==
  /\ status[s] = "active"
  /\ status' = [status EXCEPT ![s] = "revoked"]
  /\ UNCHANGED <<version, browser, store, requests, history>>

-----------------------------------------------------------------------------
(* The store of a tab, and the channel between tabs.                       *)

\* publishAuthSessionEvent.
Publish(t, kind, s) ==
  /\ s # None => \A u \in Tabs \ {t} : Len(inbox[u]) < MaxEvents
  /\ inbox' = [u \in Tabs |->
    IF u = t \/ s = None THEN inbox[u]
    ELSE Append(inbox[u], [kind |-> kind, sid |-> s, from |-> t])]

\* Mutant: a newer operation does not supersede a refresh under way.
OutdatedNever(t) == run[t]

\* authEpoch += 1: a refresh under way is no longer current.
Outdated(t) == IF run[t].at = "off" THEN run[t] ELSE [run[t] EXCEPT !.stale = TRUE]

\* The store of tab t gets bundle b (setBundle, reset). History: a session that is
\* dropped after the server has revoked it.
Hold(t, b) ==
  LET s == held[t].sid
  IN /\ held' = [held EXCEPT ![t] = b]
     /\ gone' = IF s \notin {None, b.sid} /\ status[s] = "revoked"
                THEN [gone EXCEPT ![t] = @ \cup {s}] ELSE gone

\* applyAuthBundle, but for the event.
Apply(t, b) ==
  /\ Hold(t, b)
  /\ boot' = [boot EXCEPT ![t] = "complete"]
  /\ run' = [run EXCEPT ![t] = Outdated(t)]

\* clearAuthentication(synchronizeTabs).
Clear(t, synchronize) ==
  /\ Apply(t, NoBundle)
  /\ Publish(t, "signed_out", IF synchronize THEN held[t].sid ELSE None)

-----------------------------------------------------------------------------
(* refreshAuthentication.                                                  *)

\* The single flight: start a refresh, or join the one under way.
Start(t) ==
  run' = IF run[t].at = "off" THEN [run EXCEPT ![t] = [NoRun EXCEPT !.at = "queued"]] ELSE run

\* Mutant: tabs refresh side by side.
MayRequestAlways(t) == t \in Tabs

\* navigator.locks grants the exclusive lock "new-api:auth-refresh" to a refresh when
\* no other tab's is past the request for it; in which order is of no consequence.
MayRequest(t) == Locks => \A u \in Tabs \ {t} : run[u].at \in {"off", "queued"}

\* Mutant: the epoch is not looked at.
IsCurrentAlways(t) == t \in Tabs

IsCurrent(t) == ~run[t].stale

\* requestRefresh with the store's session; the browser adds the cookie.
Send(t, x, sid) ==
  LET y == [x EXCEPT !.sends = @ + 1] IN Refresh(t, y, sid) \/ RequestFails(t, y)

\* The refresh settles: whoever awaits it goes on. b is what the store holds now.
\* http-client.ts repeats its request or leaves for the sign-in page (Reload),
\* executeLogout repeats the logout.
End(t, outcome, b) ==
  /\ run' = [run EXCEPT ![t] = NoRun]
  /\ call' = [call EXCEPT ![t] =
       IF @.at # "joined" THEN @
       ELSE IF outcome = "authenticated" THEN [at |-> "resent", token |-> b]
       ELSE NoCall]
  /\ logout' = [logout EXCEPT ![t] =
       IF @ # "joined" THEN @
       ELSE IF outcome = "authenticated" THEN "again" ELSE "none"]
  /\ UNCHANGED <<server, rot, history>>

\* The store as the refresh leaves it, and the end.
EndWith(t, outcome, b, state) ==
  /\ Hold(t, b)
  /\ boot' = [boot EXCEPT ![t] = state]
  /\ End(t, outcome, b)

\* The lock is granted, or the delay after a race is over.
Request(t) ==
  /\ run[t].at = "wait" \/ (run[t].at = "queued" /\ MayRequest(t))
  /\ \/ /\ IsCurrent(t)
        /\ Send(t, run[t], held[t].sid)
        /\ UNCHANGED <<inbox, store, call, logout, rot>>
     \/ /\ ~IsCurrent(t)
        /\ UNCHANGED <<cookie, inbox>>
        /\ EndWith(t, "superseded", held[t], boot[t])

\* The response arrives: the browser takes its cookie and the await returns.
Arrives(t, current) ==
  LET r == run[t].reply
  IN /\ run[t].at = "replied" /\ IsCurrent(t) = current
     /\ cookie' = CASE r.kind = "bundle" -> [sid |-> r.bundle.sid, age |-> r.age]
                    [] r.kind = "anonymous" -> NoCookie
                    [] OTHER -> cookie

Superseded(t) ==
  /\ Arrives(t, FALSE)
  /\ EndWith(t, "superseded", held[t], boot[t])
  /\ UNCHANGED inbox

Accept(t) ==
  /\ Arrives(t, TRUE) /\ run[t].reply.kind = "bundle"
  /\ EndWith(t, "authenticated", run[t].reply.bundle, "complete")
  /\ UNCHANGED inbox

\* Mutant: the attempts are not counted.
NextRaceUncounted(x) == [x EXCEPT !.at = "wait", !.reply = NoReply]

\* A race: wait, then try again.
NextRace(x) == [x EXCEPT !.at = "wait", !.race = @ + 1, !.reply = NoReply]

\* Mutant: one more attempt than there are delays.
RetryRaceOnceMore(t) ==
  /\ Arrives(t, TRUE) /\ run[t].reply.kind = "race" /\ run[t].race <= MaxRaces
  /\ run' = [run EXCEPT ![t] = NextRace(@)]
  /\ UNCHANGED <<server, inbox, store, call, logout, rot, history>>

RetryRace(t) ==
  /\ Arrives(t, TRUE) /\ run[t].reply.kind = "race" /\ run[t].race < MaxRaces
  /\ run' = [run EXCEPT ![t] = NextRace(@)]
  /\ UNCHANGED <<server, inbox, store, call, logout, rot, history>>

\* The store is reset, without a new epoch, and the cookie's session is asked for.
RetryMismatch(t) ==
  /\ run[t].at = "replied" /\ IsCurrent(t)
  /\ run[t].reply.kind = "mismatch" /\ run[t].retry
  /\ Hold(t, NoBundle)
  /\ boot' = [boot EXCEPT ![t] = "idle"]
  /\ Send(t, [run[t] EXCEPT !.race = 0, !.retry = FALSE], None)
  /\ UNCHANGED <<inbox, call, logout, rot>>

\* Retries used up, or an answer nobody expects: clear(false), out_of_sync.
GiveUp(t) ==
  /\ Arrives(t, TRUE)
  /\ \/ run[t].reply.kind = "race" /\ run[t].race = MaxRaces
     \/ run[t].reply.kind = "mismatch" /\ ~run[t].retry
     \/ run[t].reply.kind = "other"
  /\ EndWith(t, "out_of_sync", NoBundle, "complete")
  /\ UNCHANGED inbox

Unauthorized(t) ==
  /\ Arrives(t, TRUE) /\ run[t].reply.kind = "anonymous"
  /\ Publish(t, "signed_out", held[t].sid)
  /\ EndWith(t, "anonymous", NoBundle, "complete")

Transient(t) ==
  /\ Arrives(t, TRUE) /\ run[t].reply.kind = "error"
  /\ EndWith(t, "transient_error", held[t], IF held[t].sid = None THEN "idle" ELSE "complete")
  /\ UNCHANGED inbox

\* The response to a request the server has dealt with is lost.
LoseReply(t) ==
  /\ Spend
  /\ run[t].at = "replied" /\ run[t].reply.kind \in {"bundle", "anonymous"}
  /\ run' = [run EXCEPT ![t].reply = [NoReply EXCEPT !.kind = "error"]]
  /\ lossy' = TRUE
  /\ UNCHANGED <<server, browser, store, call, logout, rot, reused>>

-----------------------------------------------------------------------------
(* What the user and the pages of a tab do.                                *)

\* Requests under way besides the refreshes.
Pending ==
  Cardinality({t \in Tabs : call[t].at # "none"})
    + Cardinality({t \in Tabs : logout[t] # "none"})
    + Cardinality({t \in Tabs : rot[t].sid # None})

\* bootstrapAuthentication, at every navigation.
Bootstrap(t) ==
  /\ ~held[t].fresh /\ ~(boot[t] = "complete" /\ held[t].sid = None)
  /\ Start(t)
  /\ UNCHANGED <<server, cookie, inbox, store, call, logout, rot, history>>

\* getFreshAuthHeaders, when the token has less than a minute left or is missing.
FreshHeaders(t) ==
  /\ run[t].at = "off"
  /\ Start(t)
  /\ UNCHANGED <<server, cookie, inbox, store, call, logout, rot, history>>

\* accessExpiresAt passes.
Expire(t) ==
  /\ held[t].fresh
  /\ held' = [held EXCEPT ![t].fresh = FALSE]
  /\ UNCHANGED <<server, browser, gone, boot, requests, history>>

\* The response of a login: a new session, its cookie, and handleLoginSuccess. The
\* tab may have got a session since the form was sent.
Login(t, s) ==
  /\ status[s] = "unused" /\ Spend
  /\ status' = [status EXCEPT ![s] = "active"]
  /\ cookie' = [sid |-> s, age |-> 0]
  /\ Apply(t, Bundle(s))
  /\ Publish(t, "authenticated", s)
  /\ UNCHANGED <<version, call, logout, rot, reused, lossy>>

\* A security change of the user (password, passkey): AdvanceCurrentSession...
\* gives the session a new version; other sessions are revoked (Revoke).
Rotate(t) ==
  LET s == held[t].sid
  IN /\ Accepted(held[t]) /\ rot[t].sid = None /\ Pending < MaxPending /\ Spend
     /\ version' = [version EXCEPT ![s] = @ + 1]
     /\ rot' = [rot EXCEPT ![t] = [sid |-> s, ver |-> version[s] + 1, fresh |-> TRUE]]
     /\ UNCHANGED <<status, browser, store, run, call, logout, reused, lossy>>

\* applyAuthRotation; without the same session it throws and changes nothing.
ApplyRotation(t) ==
  /\ rot[t].sid # None
  /\ \/ held[t].sid = rot[t].sid /\ Apply(t, rot[t])
     \/ held[t].sid # rot[t].sid /\ UNCHANGED <<held, gone, boot, run>>
  /\ rot' = [rot EXCEPT ![t] = NoBundle]
  /\ UNCHANGED <<server, browser, call, logout, history>>

-----------------------------------------------------------------------------
(* http-client.ts.                                                         *)

\* An API request that needs a session; equal requests share it (inFlightGet).
Call(t) ==
  /\ held[t].sid # None /\ call[t].at = "none" /\ Pending < MaxPending
  /\ call' = [call EXCEPT ![t] = [at |-> "sent", token |-> held[t]]]
  /\ UNCHANGED <<server, browser, store, run, logout, rot, history>>

\* The server answers: the request is done, or a first 401 starts a refresh.
CallReply(t) ==
  /\ call[t].at = "sent"
  /\ \/ /\ Accepted(call[t].token)
        /\ call' = [call EXCEPT ![t] = NoCall]
        /\ UNCHANGED run
     \/ /\ ~Accepted(call[t].token)
        /\ call' = [call EXCEPT ![t] = [NoCall EXCEPT !.at = "joined"]]
        /\ Start(t)
  /\ UNCHANGED <<server, cookie, inbox, store, logout, rot, history>>

\* ... and a second one ends the session: clearAuthentication(false).
CallReplyAgain(t) ==
  /\ call[t].at = "resent"
  /\ call' = [call EXCEPT ![t] = NoCall]
  /\ \/ Accepted(call[t].token) /\ UNCHANGED <<store, run, inbox>>
     \/ ~Accepted(call[t].token) /\ Clear(t, FALSE)
  /\ UNCHANGED <<server, cookie, logout, rot, history>>

-----------------------------------------------------------------------------
(* Signing out: executeLogout and AuthLogout.                              *)

\* The session AuthLogout revokes: that of a valid access token, or else that of
\* the cookie if its secret is known (RevokeUserSessionByRefreshHash).
LogoutRevokes(b) ==
  CASE b.fresh -> {b.sid}
    [] ~b.fresh /\ cookie.age = 0 -> {cookie.sid}
    [] ~b.fresh /\ cookie.age = 1 -> {cookie.sid, None}
    [] OTHER -> {None}

\* AuthLogout with the store's session and the cookie. The answer clears the
\* cookie unless a valid token came without one.
AuthLogout(t, otherwise) ==
  LET b == held[t]
      mismatch == b.sid # None /\ cookie.sid \notin {None, b.sid}
  IN /\ \/ /\ mismatch
           /\ logout' = [logout EXCEPT ![t] = otherwise]
           /\ UNCHANGED status
        \/ /\ ~mismatch
           /\ logout' = [logout EXCEPT ![t] =
                IF b.fresh /\ cookie.sid = None THEN "done" ELSE "done_clear"]
           /\ \E s \in LogoutRevokes(b) :
                status' = IF s # None /\ status[s] = "active"
                          THEN [status EXCEPT ![s] = "revoked"] ELSE status
     /\ UNCHANGED <<version, browser, store, run, call, rot, history>>

SignOut(t) ==
  /\ held[t].sid # None /\ logout[t] = "none" /\ Pending < MaxPending
  /\ AuthLogout(t, "mismatch")

\* The tab holds another session than the browser: refresh ...
LogoutMismatch(t) ==
  /\ logout[t] = "mismatch"
  /\ logout' = [logout EXCEPT ![t] = "joined"]
  /\ Start(t)
  /\ UNCHANGED <<server, cookie, inbox, store, call, rot, history>>

\* ... and sign out of the one it has got, without a second recovery.
LogoutAgain(t) ==
  /\ logout[t] = "again"
  /\ AuthLogout(t, "none")

\* Success: the dialog clears the store (clearAuthenticatedClientState).
LogoutDone(t) ==
  /\ logout[t] \in {"done", "done_clear"}
  /\ cookie' = IF logout[t] = "done" THEN cookie ELSE NoCookie
  /\ Clear(t, TRUE)
  /\ logout' = [logout EXCEPT ![t] = "none"]
  /\ UNCHANGED <<server, call, rot, history>>

-----------------------------------------------------------------------------
(* The listener of __root.tsx, and page loads.                             *)

\* The page is loaded again and starts from nothing. A request the server has not
\* seen is cancelled, the answer to one it has dealt with is lost.
NewPage(t) ==
  /\ Hold(t, NoBundle) /\ boot' = [boot EXCEPT ![t] = "idle"]
  /\ run' = [run EXCEPT ![t] = NoRun] /\ call' = [call EXCEPT ![t] = NoCall]
  /\ logout' = [logout EXCEPT ![t] = "none"] /\ rot' = [rot EXCEPT ![t] = NoBundle]
  /\ inbox' = [inbox EXCEPT ![t] = <<>>]
  /\ lossy' = (lossy \/ run[t].at = "replied")
  /\ UNCHANGED <<server, cookie, reused>>

\* The next event of another tab; events of different tabs may overtake.
Deliver(t) == \E i \in DOMAIN inbox[t] :
  LET e == inbox[t][i]
      mine == e.sid = held[t].sid
  IN /\ \A j \in 1..(i - 1) : inbox[t][j].from # e.from
     /\ \/ /\ e.kind = "authenticated" /\ ~mine
           /\ NewPage(t)
           /\ UNCHANGED spent
        \/ /\ \/ e.kind = "signed_out" /\ mine /\ Apply(t, NoBundle)
              \/ (e.kind = "authenticated") = mine /\ UNCHANGED <<store, run>>
           /\ inbox' = [inbox EXCEPT ![t] = SubSeq(@, 1, i - 1) \o SubSeq(@, i + 1, Len(@))]
           /\ UNCHANGED <<server, cookie, call, logout, rot, history>>

\* redirectToSignIn of a tab that has lost its session, or the user's reload.
Reload(t) ==
  /\ \/ held[t].sid = None /\ run[t].at = "off" /\ UNCHANGED spent
     \/ Spend
  /\ NewPage(t)

-----------------------------------------------------------------------------
\* A refresh goes on.
RefreshStep(t) ==
  \/ Request(t) \/ Superseded(t) \/ Accept(t) \/ RetryRace(t)
  \/ RetryMismatch(t) \/ GiveUp(t) \/ Unauthorized(t) \/ Transient(t)

CallStep(t) == CallReply(t) \/ CallReplyAgain(t)

UserStep(t) ==
  \/ Bootstrap(t) \/ FreshHeaders(t) \/ Call(t) \/ SignOut(t) \/ Rotate(t)
  \/ \E s \in Sids : Login(t, s)

Next ==
  \/ \E s \in Sids : Revoke(s)
  \/ \E t \in Tabs :
       \/ RefreshStep(t) \/ CallStep(t) \/ UserStep(t)
       \/ LoseReply(t) \/ Expire(t) \/ ApplyRotation(t)
       \/ LogoutMismatch(t) \/ LogoutAgain(t) \/ LogoutDone(t)
       \/ Deliver(t) \/ Reload(t)

Spec == Init /\ [][Next]_vars

-----------------------------------------------------------------------------
(* Properties.                                                             *)

Bundles == [sid : Sids \cup {None}, ver : 0..Budget, fresh : BOOLEAN]
Cookies == [sid : Sids \cup {None}, age : 0..2]
Replies == [kind : {"none", "bundle", "race", "mismatch", "anonymous", "error", "other"},
            bundle : Bundles, age : 0..2]
Refreshes == [at : {"off", "queued", "replied", "wait"}, stale : BOOLEAN, race : 0..MaxRaces,
              retry : BOOLEAN, sends : Nat, reply : Replies]
Calls == [at : {"none", "sent", "joined", "resent"}, token : Bundles]
Events == [kind : {"authenticated", "signed_out"}, sid : Sids, from : Tabs]

\* Every variable has its type: a race is answered as often as there are delays.
TypeOK ==
  /\ status \in [Sids -> {"unused", "active", "revoked"}]
  /\ version \in [Sids -> 0..Budget] /\ spent \in 0..Budget
  /\ cookie \in Cookies /\ inbox \in [Tabs -> Seq(Events)]
  /\ held \in [Tabs -> Bundles] /\ rot \in [Tabs -> Bundles]
  /\ boot \in [Tabs -> {"idle", "complete"}]
  /\ run \in [Tabs -> Refreshes] /\ call \in [Tabs -> Calls]
  /\ logout \in [Tabs -> {"none", "mismatch", "joined", "again", "done", "done_clear"}]
  /\ gone \in [Tabs -> SUBSET Sids] /\ reused \subseteq Sids /\ lossy \in BOOLEAN

\* "A refresh response cannot restore credentials after a newer auth operation":
\* a session that was revoked when a tab dropped it, by signing out, by an event
\* or by an answer of the server, is never held by that tab again, whatever
\* answers were still under way (isCurrent in createRefreshRunner).
GoneStaysGone == \A t \in Tabs : held[t].sid \notin gone[t]

\* Tabs that refresh with one cookie do not spend its secret twice: as long as no
\* answer is lost, the server never takes a refresh for a replay and never
\* revokes a session for it (performRefreshWithBrowserLock).
NoFalseReplay == reused # {} => lossy

\* A refresh gives up: it sends no more than the first request and its retries, once
\* with the tab's session and once without, so whoever awaits refreshPromise or
\* waits for the lock does not do so for ever (createRefreshRunner).
RequestsBounded == \A t \in Tabs : run[t].sends <= 2 * (MaxRaces + 1)

\* What the tabs promise, without the cookie, the lock and the messages.
Promise == INSTANCE TabSessions WITH held <- [t \in Tabs |-> held[t].sid]

\* Every step of tabs and server is a step of that promise: sessions are issued and
\* revoked for good, and a tab takes a session only if it has not dropped it revoked.
KeepsPromise == Promise!Spec
=============================================================================
