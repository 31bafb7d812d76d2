------------------------- MODULE AuthSessionProofs -------------------------
(***************************************************************************)
(* Proofs about AuthSession: types, the bound on a refresh, the promise of *)
(* TabSessions, and that only a lost answer makes the server see a replay, *)
(* for any number of tabs, sessions, faults and events.                    *)
(***************************************************************************)
EXTENDS AuthSession, SequenceTheorems, TLAPS

(* Types of the values the operators build.                                *)

LEMMA Bounds == MaxRaces \in Nat /\ Budget \in Nat
BY AuthConstants

LEMMA EmptyType ==
  /\ NoBundle \in Bundles /\ NoCookie \in Cookies /\ NoReply \in Replies
  /\ NoRun \in Refreshes /\ NoCall \in Calls
<1>1. NoBundle \in Bundles  BY AuthConstants DEF NoBundle, Bundles
<1>2. NoReply \in Replies  BY <1>1 DEF NoReply, Replies
<1>3. NoRun \in Refreshes  BY <1>2, AuthConstants DEF NoRun, Refreshes
<1>4. QED  BY <1>1, <1>2, <1>3 DEF NoCookie, Cookies, NoCall, Calls

\* A tab and the values it has.
LEMMA TabType ==
  ASSUME TypeOK, NEW t \in Tabs
  PROVE  /\ held[t] \in Bundles /\ held[t].sid \in Sids \cup {None}
         /\ run[t] \in Refreshes /\ run[t].reply \in Replies
         /\ run[t].reply.bundle \in Bundles /\ run[t].reply.bundle.sid \in Sids \cup {None}
         /\ rot[t] \in Bundles /\ call[t] \in Calls
BY DEF TypeOK, Bundles, Refreshes, Replies

LEMMA BundleType ==
  ASSUME TypeOK, NEW s \in Sids
  PROVE  Bundle(s) \in Bundles /\ Bundle(s).sid = s
BY DEF Bundle, Bundles, TypeOK

\* A new epoch marks a refresh and changes nothing else of it.
LEMMA OutdatedType ==
  ASSUME TypeOK, NEW t \in Tabs
  PROVE  /\ Outdated(t) \in Refreshes /\ Outdated(t).at = run[t].at
         /\ Outdated(t).reply = run[t].reply /\ Outdated(t).race = run[t].race
         /\ Outdated(t).retry = run[t].retry /\ Outdated(t).sends = run[t].sends
         /\ Outdated(t).at # "off" => Outdated(t).stale = TRUE
BY TabType DEF Outdated, Refreshes

LEMMA HoldType ==
  ASSUME TypeOK, NEW t \in Tabs, NEW b \in Bundles, Hold(t, b)
  PROVE  held' \in [Tabs -> Bundles] /\ gone' \in [Tabs -> SUBSET Sids]
BY TabType DEF Hold, TypeOK

LEMMA ApplyType ==
  ASSUME TypeOK, NEW t \in Tabs, NEW b \in Bundles, Apply(t, b)
  PROVE  /\ held' \in [Tabs -> Bundles] /\ gone' \in [Tabs -> SUBSET Sids]
         /\ boot' \in [Tabs -> {"idle", "complete"}] /\ run' \in [Tabs -> Refreshes]
BY HoldType, OutdatedType DEF Apply, TypeOK

LEMMA PublishType ==
  ASSUME TypeOK, NEW t \in Tabs, NEW kind \in {"authenticated", "signed_out"},
         NEW s \in Sids \cup {None}, Publish(t, kind, s)
  PROVE  inbox' \in [Tabs -> Seq(Events)]
<1>1. SUFFICES ASSUME NEW u \in Tabs, s # None
               PROVE  Append(inbox[u], [kind |-> kind, sid |-> s, from |-> t]) \in Seq(Events)
  BY DEF Publish, TypeOK
<1>2. [kind |-> kind, sid |-> s, from |-> t] \in Events  BY <1>1 DEF Events
<1>3. inbox[u] \in Seq(Events)  BY DEF TypeOK
<1>4. QED  BY <1>2, <1>3

LEMMA StartType ==
  ASSUME TypeOK, NEW t \in Tabs, Start(t)
  PROVE  run' \in [Tabs -> Refreshes]
<1>1. [NoRun EXCEPT !.at = "queued"] \in Refreshes  BY EmptyType DEF Refreshes
<1>2. QED  BY <1>1 DEF Start, TypeOK

LEMMA OlderType ==
  ASSUME NEW s, NEW c \in Cookies, NEW r \in Replies
  PROVE  /\ Older(c, s) \in Cookies
         /\ OlderReply(r, s) \in Replies /\ OlderReply(r, s).bundle = r.bundle
         /\ OlderReply(r, s).kind = r.kind
<1>1. Older(c, s) \in Cookies  BY DEF Older, Cookies
<1>2. OlderReply(r, s) \in Replies /\ OlderReply(r, s).bundle = r.bundle
        /\ OlderReply(r, s).kind = r.kind
  BY DEF OlderReply, Replies
<1>3. QED  BY <1>1, <1>2

LEMMA SpendType ==
  ASSUME TypeOK, Spend
  PROVE  spent' \in 0..Budget /\ spent' = spent + 1
BY AuthConstants DEF Spend, TypeOK

LEMMA EndType ==
  ASSUME TypeOK, NEW t \in Tabs, NEW outcome, NEW b \in Bundles, End(t, outcome, b)
  PROVE  /\ run' \in [Tabs -> Refreshes] /\ call' \in [Tabs -> Calls]
         /\ logout' \in [Tabs -> {"none", "mismatch", "joined", "again", "done", "done_clear"}]
<1>1. [at |-> "resent", token |-> b] \in Calls  BY DEF Calls
<1>2. run' \in [Tabs -> Refreshes]  BY EmptyType DEF End, TypeOK
<1>3. call' \in [Tabs -> Calls]  BY <1>1, EmptyType DEF End, TypeOK
<1>4. QED  BY <1>2, <1>3 DEF End, TypeOK

\* What the server answers, and which bundles it gives: those of active sessions.
LEMMA RefreshType ==
  ASSUME TypeOK, NEW t \in Tabs, NEW x \in Refreshes, NEW header, Refresh(t, x, header)
  PROVE  /\ status' \in [Sids -> {"unused", "active", "revoked"}] /\ reused' \subseteq Sids
         /\ cookie' \in Cookies /\ run' \in [Tabs -> Refreshes]
         /\ UNCHANGED <<version, lossy, spent>>
         /\ \/ status' = status
            \/ \E s \in Sids : status[s] = "active" /\ status' = [status EXCEPT ![s] = "revoked"]
         /\ run'[t].at = "replied" /\ run'[t].stale = x.stale /\ run'[t].race = x.race
         /\ run'[t].retry = x.retry /\ run'[t].sends = x.sends
         /\ LET s == run'[t].reply.bundle.sid IN s = None \/ (s \in Sids /\ status[s] = "active")
         /\ \A u \in Tabs \ {t} :
              /\ run'[u].at = run[u].at /\ run'[u].stale = run[u].stale /\ run'[u].race = run[u].race
              /\ run'[u].retry = run[u].retry /\ run'[u].sends = run[u].sends
              /\ run'[u].reply.bundle = run[u].reply.bundle /\ run'[u].reply.kind = run[u].reply.kind
<1>1. PICK v \in Verdicts(cookie, header), kind \in {"bundle", "race", "mismatch", "anonymous"} :
        LET s == IF v = "rotate" THEN cookie.sid ELSE None
            b == IF kind = "bundle" THEN Bundle(cookie.sid) ELSE NoBundle
            r == [kind |-> kind, bundle |-> b, age |-> 0]
        IN /\ kind \in Kinds(v)
           /\ status' = IF v = "reuse" THEN [status EXCEPT ![cookie.sid] = "revoked"] ELSE status
           /\ reused' = IF v = "reuse" THEN reused \cup {cookie.sid} ELSE reused
           /\ cookie' = Older(cookie, s)
           /\ run' = [u \in Tabs |->
                IF u = t THEN [x EXCEPT !.at = "replied", !.reply = r]
                ELSE [run[u] EXCEPT !.reply = OlderReply(@, s)]]
           /\ UNCHANGED <<version, lossy, spent>>
  BY DEF Refresh
<1> DEFINE s == IF v = "rotate" THEN cookie.sid ELSE None
           b == IF kind = "bundle" THEN Bundle(cookie.sid) ELSE NoBundle
           r == [kind |-> kind, bundle |-> b, age |-> 0]
<1>2. cookie \in Cookies /\ cookie.sid \in Sids \cup {None}  BY DEF TypeOK, Cookies
<1>3. v \in {"rotate", "again", "reuse"} => cookie.sid \in Sids /\ status[cookie.sid] = "active"
  BY <1>1, <1>2 DEF Verdicts
<1>4. kind = "bundle" => cookie.sid \in Sids /\ status[cookie.sid] = "active"
  BY <1>1, <1>3 DEF Kinds
<1>5. b \in Bundles /\ (b.sid = None \/ (b.sid \in Sids /\ status[b.sid] = "active"))
  BY <1>4, BundleType, EmptyType DEF NoBundle
<1>6. r \in Replies  BY <1>5 DEF Replies
<1>0. run' = [u \in Tabs |-> IF u = t THEN [x EXCEPT !.at = "replied", !.reply = r]
                              ELSE [run[u] EXCEPT !.reply = OlderReply(run[u].reply, s)]]
  BY <1>1
<1> HIDE DEF s, b, r
<1>7. /\ run'[t] = [x EXCEPT !.at = "replied", !.reply = r]
      /\ \A u \in Tabs \ {t} : run'[u] = [run[u] EXCEPT !.reply = OlderReply(run[u].reply, s)]
  BY <1>0
<1>8. /\ run'[t] \in Refreshes /\ run'[t].at = "replied" /\ run'[t].stale = x.stale
      /\ run'[t].race = x.race /\ run'[t].retry = x.retry /\ run'[t].sends = x.sends
      /\ run'[t].reply.bundle = b
  <2>1. r.bundle = b  BY DEF r
  <2>2. QED  BY <1>6, <1>7, <2>1 DEF Refreshes
<1>9. ASSUME NEW u \in Tabs \ {t}
      PROVE  /\ run'[u] \in Refreshes
             /\ run'[u].at = run[u].at /\ run'[u].stale = run[u].stale /\ run'[u].race = run[u].race
             /\ run'[u].retry = run[u].retry /\ run'[u].sends = run[u].sends
             /\ run'[u].reply.bundle = run[u].reply.bundle /\ run'[u].reply.kind = run[u].reply.kind
  <2>1. run[u] \in Refreshes /\ run[u].reply \in Replies  BY TabType
  <2>2. /\ OlderReply(run[u].reply, s) \in Replies
        /\ OlderReply(run[u].reply, s).bundle = run[u].reply.bundle
        /\ OlderReply(run[u].reply, s).kind = run[u].reply.kind
    BY <1>2, <2>1, OlderType
  <2>3. QED  BY <1>7, <2>1, <2>2 DEF Refreshes
<1>10. run' \in [Tabs -> Refreshes]
  <2>1. \A u \in Tabs : run'[u] \in Refreshes  BY <1>8, <1>9
  <2>2. run' = [u \in Tabs |-> run'[u]]  BY <1>1
  <2>3. QED  BY <2>1, <2>2
<1>11. cookie' \in Cookies  BY <1>1, <1>2, OlderType, EmptyType
<1>12. /\ status' \in [Sids -> {"unused", "active", "revoked"}] /\ reused' \subseteq Sids
       /\ \/ status' = status
          \/ \E c \in Sids : status[c] = "active" /\ status' = [status EXCEPT ![c] = "revoked"]
  BY <1>1, <1>3 DEF TypeOK
<1>13. QED  BY <1>1, <1>5, <1>8, <1>9, <1>10, <1>11, <1>12

\* A request of a refresh, answered or not: one more is counted.
LEMMA SendType ==
  ASSUME TypeOK, NEW t \in Tabs, NEW x \in Refreshes, NEW header, Send(t, x, header)
  PROVE  /\ status' \in [Sids -> {"unused", "active", "revoked"}] /\ reused' \subseteq Sids
         /\ cookie' \in Cookies /\ run' \in [Tabs -> Refreshes]
         /\ UNCHANGED <<version, lossy>> /\ spent' \in 0..Budget /\ spent' >= spent
         /\ \/ status' = status
            \/ \E s \in Sids : status[s] = "active" /\ status' = [status EXCEPT ![s] = "revoked"]
         /\ run'[t].at = "replied" /\ run'[t].stale = x.stale /\ run'[t].race = x.race
         /\ run'[t].retry = x.retry /\ run'[t].sends = x.sends + 1
         /\ LET s == run'[t].reply.bundle.sid IN s = None \/ (s \in Sids /\ status[s] = "active")
         /\ \A u \in Tabs \ {t} :
              /\ run'[u].at = run[u].at /\ run'[u].stale = run[u].stale /\ run'[u].race = run[u].race
              /\ run'[u].retry = run[u].retry /\ run'[u].sends = run[u].sends
              /\ run'[u].reply.bundle = run[u].reply.bundle /\ run'[u].reply.kind = run[u].reply.kind
<1> DEFINE y == [x EXCEPT !.sends = @ + 1]
<1>1. /\ y \in Refreshes /\ y.stale = x.stale /\ y.race = x.race /\ y.retry = x.retry
      /\ y.sends = x.sends + 1
  BY DEF Refreshes
<1>2. Refresh(t, y, header) \/ RequestFails(t, y)  BY DEF Send
<1> HIDE DEF y
<1>3. spent \in Nat  BY DEF TypeOK
<1>4. CASE Refresh(t, y, header)
  BY <1>1, <1>3, <1>4, RefreshType DEF TypeOK
<1>5. CASE RequestFails(t, y)
  <2>1. PICK kind \in {"error", "other"} :
          run' = [run EXCEPT ![t] = [y EXCEPT !.at = "replied", !.reply = [NoReply EXCEPT !.kind = kind]]]
    BY <1>5 DEF RequestFails
  <2> DEFINE r == [NoReply EXCEPT !.kind = kind]
  <2>2. r \in Replies /\ r.bundle.sid = None  BY EmptyType DEF Replies, NoReply, NoBundle
  <2> HIDE DEF r
  <2>3. run'[t] = [y EXCEPT !.at = "replied", !.reply = r] /\ \A u \in Tabs \ {t} : run'[u] = run[u]
    BY <2>1 DEF r, TypeOK
  <2>4. run'[t] \in Refreshes /\ run'[t].reply = r  BY <1>1, <2>2, <2>3 DEF Refreshes
  <2>5. run' \in [Tabs -> Refreshes]  BY <2>1, <2>3, <2>4 DEF TypeOK
  <2>6. /\ run'[t].at = "replied" /\ run'[t].stale = x.stale /\ run'[t].race = x.race
        /\ run'[t].retry = x.retry /\ run'[t].sends = x.sends + 1
    BY <1>1, <2>2, <2>3 DEF Refreshes
  <2>7. UNCHANGED <<status, version, cookie, reused, lossy>>  BY <1>5 DEF RequestFails, server
  <2>8. spent' \in 0..Budget /\ spent' >= spent  BY <1>3, <1>5, SpendType DEF RequestFails
  <2>9. QED  BY <2>2, <2>3, <2>4, <2>5, <2>6, <2>7, <2>8 DEF TypeOK
<1>6. QED  BY <1>2, <1>4, <1>5

-----------------------------------------------------------------------------
(* Types.  A version is raised only by what is counted in spent.           *)

VersionInv == \A s \in Sids : version[s] <= spent

Typed == TypeOK /\ VersionInv

LEMMA InitTyped == Init => Typed
<1> SUFFICES ASSUME Init PROVE Typed
  OBVIOUS
<1>1. Budget \in Nat  BY AuthConstants
<1>2. /\ status \in [Sids -> {"unused", "active", "revoked"}]
      /\ version \in [Sids -> 0..Budget] /\ spent \in 0..Budget
  BY <1>1 DEF Init
<1>3. cookie \in Cookies /\ inbox \in [Tabs -> Seq(Events)]
  <2>1. <<>> \in Seq(Events)  OBVIOUS
  <2>2. QED  BY <2>1, EmptyType DEF Init
<1>4. /\ held \in [Tabs -> Bundles] /\ rot \in [Tabs -> Bundles]
      /\ boot \in [Tabs -> {"idle", "complete"}]
      /\ run \in [Tabs -> Refreshes] /\ call \in [Tabs -> Calls]
  BY EmptyType DEF Init
<1>5. /\ logout \in [Tabs -> {"none", "mismatch", "joined", "again", "done", "done_clear"}]
      /\ gone \in [Tabs -> SUBSET Sids] /\ reused \subseteq Sids /\ lossy \in BOOLEAN
  BY DEF Init
<1>6. TypeOK  BY <1>2, <1>3, <1>4, <1>5 DEF TypeOK
<1>7. VersionInv  BY DEF Init, VersionInv
<1>8. QED  BY <1>6, <1>7 DEF Typed

LEMMA LaterVersion ==
  ASSUME TypeOK, VersionInv, version' = version, spent' \in 0..Budget, spent' >= spent
  PROVE  VersionInv'
<1>1. \A s \in Sids : version[s] \in Nat  BY DEF TypeOK
<1>2. spent \in Nat /\ spent' \in Nat  BY DEF TypeOK
<1>3. QED  BY <1>1, <1>2 DEF VersionInv

\* A refresh that ends.
LEMMA EndWithTyped ==
  ASSUME Typed, NEW t \in Tabs, NEW outcome, NEW b \in Bundles, NEW state \in {"idle", "complete"},
         EndWith(t, outcome, b, state), cookie' \in Cookies, inbox' \in [Tabs -> Seq(Events)]
  PROVE  Typed'
<1>1. held' \in [Tabs -> Bundles] /\ gone' \in [Tabs -> SUBSET Sids]
  BY HoldType DEF EndWith, Typed
<1>2. boot' \in [Tabs -> {"idle", "complete"}]  BY DEF EndWith, Typed, TypeOK
<1>3. /\ run' \in [Tabs -> Refreshes] /\ call' \in [Tabs -> Calls]
      /\ logout' \in [Tabs -> {"none", "mismatch", "joined", "again", "done", "done_clear"}]
  BY EndType DEF EndWith, Typed
<1>4. UNCHANGED <<status, version, rot, reused, lossy, spent>>
  BY DEF EndWith, End, server, history
<1>5. QED  BY <1>1, <1>2, <1>3, <1>4 DEF Typed, TypeOK, VersionInv

LEMMA RefreshStepTyped ==
  ASSUME Typed, NEW t \in Tabs, RefreshStep(t)
  PROVE  Typed'
<1>0. /\ TypeOK /\ VersionInv /\ held[t] \in Bundles /\ boot[t] \in {"idle", "complete"}
      /\ run[t] \in Refreshes /\ run[t].reply.bundle \in Bundles
      /\ held[t].sid \in Sids \cup {None}
  BY TabType DEF Typed, TypeOK
<1> DEFINE Arrived == cookie' \in Cookies
<1>1. ASSUME NEW current, Arrives(t, current) PROVE Arrived
  <2>1. run[t].reply \in Replies  BY <1>0, TabType
  <2>2. QED  BY <1>0, <1>1, <2>1, EmptyType DEF Arrives, Replies, Bundles, Cookies, TypeOK
<1>2. UNCHANGED inbox => inbox' \in [Tabs -> Seq(Events)]  BY <1>0 DEF TypeOK
<1>3. CASE Request(t)
  <2>1. CASE IsCurrent(t) /\ Send(t, run[t], held[t].sid)
              /\ UNCHANGED <<inbox, store, call, logout, rot>>
    <3>1. /\ status' \in [Sids -> {"unused", "active", "revoked"}] /\ reused' \subseteq Sids
          /\ cookie' \in Cookies /\ run' \in [Tabs -> Refreshes]
          /\ UNCHANGED <<version, lossy>> /\ spent' \in 0..Budget /\ spent' >= spent
      BY <1>0, <2>1, SendType
    <3>2. TypeOK'  BY <1>0, <2>1, <3>1 DEF TypeOK, store
    <3>3. VersionInv'  BY <1>0, <3>1, LaterVersion
    <3>4. QED  BY <3>2, <3>3 DEF Typed
  <2>2. CASE UNCHANGED <<cookie, inbox>> /\ EndWith(t, "superseded", held[t], boot[t])
    BY <1>0, <1>2, <2>2, EndWithTyped DEF TypeOK
  <2>3. QED  BY <1>3, <2>1, <2>2 DEF Request
<1>4. CASE Superseded(t)
  BY <1>0, <1>1, <1>2, <1>4, EndWithTyped DEF Superseded
<1>5. CASE Accept(t)
  BY <1>0, <1>1, <1>2, <1>5, EndWithTyped DEF Accept
<1>6. CASE RetryRace(t)
  <2>1. NextRace(run[t]) \in Refreshes
    <3>1. run[t].race \in 0..MaxRaces /\ run[t].race < MaxRaces
      BY <1>0, <1>6 DEF RetryRace, Refreshes
    <3>2. run[t].race + 1 \in 0..MaxRaces  BY <3>1, Bounds
    <3>3. QED  BY <1>0, <3>2, EmptyType DEF NextRace, Refreshes
  <2>2. run' \in [Tabs -> Refreshes]  BY <1>0, <1>6, <2>1 DEF RetryRace, TypeOK
  <2>3. cookie' \in Cookies  BY <1>1, <1>6 DEF RetryRace
  <2>4. QED  BY <1>0, <1>6, <2>2, <2>3 DEF RetryRace, Typed, TypeOK, VersionInv, server, store, history
<1>7. CASE RetryMismatch(t)
  <2> DEFINE x == [run[t] EXCEPT !.race = 0, !.retry = FALSE]
  <2>1. x \in Refreshes
    <3>1. 0 \in 0..MaxRaces  BY Bounds
    <3>2. QED  BY <1>0, <3>1 DEF Refreshes
  <2> HIDE DEF x
  <2>2. Send(t, x, None)  BY <1>7 DEF RetryMismatch, x
  <2>3. held' \in [Tabs -> Bundles] /\ gone' \in [Tabs -> SUBSET Sids]
    BY <1>0, <1>7, HoldType, EmptyType DEF RetryMismatch
  <2>4. boot' \in [Tabs -> {"idle", "complete"}]  BY <1>0, <1>7 DEF RetryMismatch, TypeOK
  <2>5. UNCHANGED <<inbox, call, logout, rot>>  BY <1>7 DEF RetryMismatch
  <2>6. /\ status' \in [Sids -> {"unused", "active", "revoked"}] /\ reused' \subseteq Sids
        /\ cookie' \in Cookies /\ run' \in [Tabs -> Refreshes]
        /\ UNCHANGED <<version, lossy>> /\ spent' \in 0..Budget /\ spent' >= spent
    BY <1>0, <2>1, <2>2, SendType
  <2>7. TypeOK'  BY <1>0, <2>3, <2>4, <2>5, <2>6 DEF TypeOK
  <2>8. QED  BY <1>0, <2>6, <2>7, LaterVersion DEF Typed
<1>8. CASE GiveUp(t)
  BY <1>0, <1>1, <1>2, <1>8, EndWithTyped, EmptyType DEF GiveUp
<1>9. CASE Unauthorized(t)
  <2>1. inbox' \in [Tabs -> Seq(Events)]  BY <1>0, <1>9, PublishType DEF Unauthorized
  <2>2. QED  BY <1>0, <1>1, <1>9, <2>1, EndWithTyped, EmptyType DEF Unauthorized
<1>10. CASE Transient(t)
  BY <1>0, <1>1, <1>2, <1>10, EndWithTyped DEF Transient
<1>11. QED
  BY <1>3, <1>4, <1>5, <1>6, <1>7, <1>8, <1>9, <1>10, RefreshStep(t) DEF RefreshStep

\* A page that is loaded again.
LEMMA NewPageTyped ==
  ASSUME Typed, NEW t \in Tabs, NewPage(t), spent' \in 0..Budget, spent' >= spent
  PROVE  Typed'
<1>0. TypeOK /\ VersionInv  BY DEF Typed
<1>1. held' \in [Tabs -> Bundles] /\ gone' \in [Tabs -> SUBSET Sids]
  BY <1>0, HoldType, EmptyType DEF NewPage
<1>2. /\ boot' \in [Tabs -> {"idle", "complete"}] /\ run' \in [Tabs -> Refreshes]
      /\ call' \in [Tabs -> Calls] /\ rot' \in [Tabs -> Bundles]
      /\ logout' \in [Tabs -> {"none", "mismatch", "joined", "again", "done", "done_clear"}]
  BY <1>0, EmptyType DEF NewPage, TypeOK
<1>3. inbox' \in [Tabs -> Seq(Events)]
  <2>1. <<>> \in Seq(Events)  OBVIOUS
  <2>2. QED  BY <1>0, <2>1 DEF NewPage, TypeOK
<1>4. lossy' \in BOOLEAN  BY DEF NewPage
<1>5. UNCHANGED <<status, version, cookie, reused>>  BY DEF NewPage, server
<1>6. VersionInv'  BY <1>0, <1>5, LaterVersion
<1>7. TypeOK'  BY <1>0, <1>1, <1>2, <1>3, <1>4, <1>5 DEF TypeOK
<1>8. QED  BY <1>6, <1>7 DEF Typed

LEMMA UserStepTyped ==
  ASSUME Typed, NEW t \in Tabs, UserStep(t) \/ CallStep(t)
  PROVE  Typed'
<1>0. /\ TypeOK /\ VersionInv /\ held[t] \in Bundles /\ held[t].sid \in Sids \cup {None}
      /\ call[t] \in Calls
  BY TabType DEF Typed
<1>1. CASE Bootstrap(t) \/ FreshHeaders(t)
  <2>1. run' \in [Tabs -> Refreshes]  BY <1>0, <1>1, StartType DEF Bootstrap, FreshHeaders
  <2>2. QED
    BY <1>0, <1>1, <2>1
    DEF Bootstrap, FreshHeaders, Typed, TypeOK, VersionInv, server, store, history
<1>2. CASE Call(t)
  <2>1. call' \in [Tabs -> Calls]
    <3>1. [at |-> "sent", token |-> held[t]] \in Calls  BY <1>0 DEF Calls
    <3>2. QED  BY <1>0, <1>2, <3>1 DEF Call, TypeOK
  <2>2. QED
    BY <1>0, <1>2, <2>1 DEF Call, Typed, TypeOK, VersionInv, server, browser, store, history
<1>3. ASSUME NEW otherwise \in {"mismatch", "none"}, AuthLogout(t, otherwise) PROVE Typed'
  <2>1. logout' \in [Tabs -> {"none", "mismatch", "joined", "again", "done", "done_clear"}]
    BY <1>0, <1>3 DEF AuthLogout, TypeOK
  <2>2. status' \in [Sids -> {"unused", "active", "revoked"}]
    BY <1>0, <1>3 DEF AuthLogout, TypeOK
  <2>3. UNCHANGED <<version, browser, store, run, call, rot, history>>  BY <1>3 DEF AuthLogout
  <2>4. QED
    BY <1>0, <2>1, <2>2, <2>3 DEF Typed, TypeOK, VersionInv, browser, store, history
<1>4. CASE SignOut(t)
  BY <1>3, <1>4 DEF SignOut
<1>5. CASE Rotate(t)
  <2> DEFINE s == held[t].sid
  <2>1. s \in Sids  BY <1>0, <1>5 DEF Rotate, Accepted
  <2>2. spent' = spent + 1 /\ spent' \in 0..Budget  BY <1>0, <1>5, SpendType DEF Rotate
  <2>3. version[s] \in Nat /\ version[s] <= spent /\ spent \in Nat /\ Budget \in Nat
    BY <1>0, <2>1, Bounds DEF TypeOK, VersionInv
  <2>4. version[s] + 1 \in 0..Budget /\ version[s] + 1 <= spent'  BY <2>2, <2>3
  <2>5. version' = [version EXCEPT ![s] = version[s] + 1]  BY <1>5 DEF Rotate
  <2>6. version' \in [Sids -> 0..Budget]  BY <1>0, <2>4, <2>5 DEF TypeOK
  <2>7. VersionInv'
    <3>1. ASSUME NEW u \in Sids PROVE version'[u] <= spent'
      <4>1. version[u] \in Nat /\ version[u] <= spent  BY <1>0 DEF TypeOK, VersionInv
      <4>2. version'[u] = version[u] \/ version'[u] = version[s] + 1
        BY <1>0, <2>5 DEF TypeOK
      <4>3. CASE version'[u] = version[u]  BY <2>2, <2>3, <4>1, <4>3
      <4>4. CASE version'[u] = version[s] + 1  BY <2>4, <4>4
      <4>5. QED  BY <4>2, <4>3, <4>4
    <3>2. QED  BY <3>1 DEF VersionInv
  <2>8. rot' \in [Tabs -> Bundles]
    <3>1. [sid |-> s, ver |-> version[s] + 1, fresh |-> TRUE] \in Bundles
      BY <2>1, <2>4 DEF Bundles
    <3>2. QED  BY <1>0, <1>5, <3>1 DEF Rotate, TypeOK
  <2>9. TypeOK'
    BY <1>0, <1>5, <2>2, <2>6, <2>8 DEF Rotate, TypeOK, browser, store
  <2>10. QED  BY <2>7, <2>9 DEF Typed
<1>6. ASSUME NEW s \in Sids, Login(t, s) PROVE Typed'
  <2>1. Bundle(s) \in Bundles  BY <1>0, BundleType
  <2>2. /\ held' \in [Tabs -> Bundles] /\ gone' \in [Tabs -> SUBSET Sids]
        /\ boot' \in [Tabs -> {"idle", "complete"}] /\ run' \in [Tabs -> Refreshes]
    BY <1>0, <1>6, <2>1, ApplyType DEF Login
  <2>3. inbox' \in [Tabs -> Seq(Events)]  BY <1>0, <1>6, PublishType DEF Login
  <2>4. status' \in [Sids -> {"unused", "active", "revoked"}] /\ cookie' \in Cookies
    BY <1>0, <1>6 DEF Login, TypeOK, Cookies
  <2>5. spent' \in 0..Budget /\ spent' = spent + 1  BY <1>0, <1>6, SpendType DEF Login
  <2>6. TypeOK'  BY <1>0, <1>6, <2>2, <2>3, <2>4, <2>5 DEF Login, TypeOK
  <2>7. spent' >= spent  BY <1>0, <2>5 DEF TypeOK
  <2>8. VersionInv'  BY <1>0, <1>6, <2>5, <2>7, LaterVersion DEF Login
  <2>9. QED  BY <2>6, <2>8 DEF Typed
<1>7. CASE CallReply(t)
  <2>1. [NoCall EXCEPT !.at = "joined"] \in Calls  BY EmptyType DEF Calls
  <2>2. call' \in [Tabs -> Calls]  BY <1>0, <1>7, <2>1, EmptyType DEF CallReply, TypeOK
  <2>3. run' \in [Tabs -> Refreshes]
    <3>1. CASE UNCHANGED run  BY <1>0, <3>1 DEF TypeOK
    <3>2. CASE Start(t)  BY <1>0, <3>2, StartType
    <3>3. QED  BY <1>7, <3>1, <3>2 DEF CallReply
  <2>4. QED
    BY <1>0, <1>7, <2>2, <2>3 DEF CallReply, Typed, TypeOK, VersionInv, server, store, history
<1>8. CASE CallReplyAgain(t)
  <2>1. call' \in [Tabs -> Calls]  BY <1>0, <1>8, EmptyType DEF CallReplyAgain, TypeOK
  <2>2. UNCHANGED <<status, version, cookie, logout, rot, reused, lossy, spent>>
    BY <1>8 DEF CallReplyAgain, server, history
  <2>3. CASE UNCHANGED <<store, run, inbox>>
    BY <1>0, <2>1, <2>2, <2>3 DEF Typed, TypeOK, VersionInv, store
  <2>4. CASE Clear(t, FALSE)
    <3>1. /\ held' \in [Tabs -> Bundles] /\ gone' \in [Tabs -> SUBSET Sids]
          /\ boot' \in [Tabs -> {"idle", "complete"}] /\ run' \in [Tabs -> Refreshes]
      BY <1>0, <2>4, ApplyType, EmptyType DEF Clear
    <3>2. inbox' \in [Tabs -> Seq(Events)]  BY <1>0, <2>4, PublishType DEF Clear
    <3>3. QED  BY <1>0, <2>1, <2>2, <3>1, <3>2 DEF Typed, TypeOK, VersionInv
  <2>5. QED  BY <1>8, <2>3, <2>4 DEF CallReplyAgain
<1>9. QED
  BY <1>1, <1>2, <1>4, <1>5, <1>6, <1>7, <1>8 DEF UserStep, CallStep

\* An event that is taken out of the inbox leaves a sequence of events.
LEMMA TakenType ==
  ASSUME NEW q \in Seq(Events), NEW i \in DOMAIN q
  PROVE  SubSeq(q, 1, i - 1) \o SubSeq(q, i + 1, Len(q)) \in Seq(Events)
<1>1. i \in Nat /\ i >= 1 /\ i <= Len(q) /\ Len(q) \in Nat  BY LenProperties
<1>2. SubSeq(q, 1, i - 1) \in Seq(Events)  BY <1>1, SubSeqProperties
<1>3. SubSeq(q, i + 1, Len(q)) \in Seq(Events)  BY <1>1, SubSeqProperties
<1>4. QED  BY <1>2, <1>3, ConcatProperties

LEMMA OtherTyped ==
  ASSUME Typed, NEW t \in Tabs,
         \/ LoseReply(t) \/ Expire(t) \/ ApplyRotation(t) \/ LogoutMismatch(t)
         \/ LogoutAgain(t) \/ LogoutDone(t) \/ Deliver(t) \/ Reload(t)
  PROVE  Typed'
<1>0. /\ TypeOK /\ VersionInv /\ held[t] \in Bundles /\ held[t].sid \in Sids \cup {None}
      /\ run[t] \in Refreshes /\ rot[t] \in Bundles /\ spent \in 0..Budget /\ spent \in Nat
  BY TabType DEF Typed, TypeOK
<1>1. CASE LoseReply(t)
  <2>1. [NoReply EXCEPT !.kind = "error"] \in Replies  BY EmptyType DEF Replies
  <2>2. run' \in [Tabs -> Refreshes]  BY <1>0, <1>1, <2>1 DEF LoseReply, TypeOK, Refreshes
  <2>3. spent' \in 0..Budget /\ spent' = spent + 1  BY <1>0, <1>1, SpendType DEF LoseReply
  <2>4. TypeOK'  BY <1>0, <1>1, <2>2, <2>3 DEF LoseReply, TypeOK, server, browser, store
  <2>5. spent' >= spent  BY <1>0, <2>3
  <2>6. VersionInv'  BY <1>0, <1>1, <2>3, <2>5, LaterVersion DEF LoseReply, server
  <2>7. QED  BY <2>4, <2>6 DEF Typed
<1>2. CASE Expire(t)
  <2>1. held' \in [Tabs -> Bundles]  BY <1>0, <1>2 DEF Expire, TypeOK, Bundles
  <2>2. QED
    BY <1>0, <1>2, <2>1 DEF Expire, Typed, TypeOK, VersionInv, server, browser, requests, history
<1>3. CASE ApplyRotation(t)
  <2>1. rot' \in [Tabs -> Bundles]  BY <1>0, <1>3, EmptyType DEF ApplyRotation, TypeOK
  <2>2. /\ held' \in [Tabs -> Bundles] /\ gone' \in [Tabs -> SUBSET Sids]
        /\ boot' \in [Tabs -> {"idle", "complete"}] /\ run' \in [Tabs -> Refreshes]
    <3>1. CASE Apply(t, rot[t])  BY <1>0, <3>1, ApplyType
    <3>2. CASE UNCHANGED <<held, gone, boot, run>>  BY <1>0, <3>2 DEF TypeOK
    <3>3. QED  BY <1>3, <3>1, <3>2 DEF ApplyRotation
  <2>3. QED
    BY <1>0, <1>3, <2>1, <2>2 DEF ApplyRotation, Typed, TypeOK, VersionInv, server, browser, history
<1>4. CASE LogoutMismatch(t)
  <2>1. run' \in [Tabs -> Refreshes]  BY <1>0, <1>4, StartType DEF LogoutMismatch
  <2>2. logout' \in [Tabs -> {"none", "mismatch", "joined", "again", "done", "done_clear"}]
    BY <1>0, <1>4 DEF LogoutMismatch, TypeOK
  <2>3. QED
    BY <1>0, <1>4, <2>1, <2>2
    DEF LogoutMismatch, Typed, TypeOK, VersionInv, server, store, history
<1>5. CASE LogoutAgain(t)
  <2>1. AuthLogout(t, "none")  BY <1>5 DEF LogoutAgain
  <2>2. logout' \in [Tabs -> {"none", "mismatch", "joined", "again", "done", "done_clear"}]
    BY <1>0, <2>1 DEF AuthLogout, TypeOK
  <2>3. status' \in [Sids -> {"unused", "active", "revoked"}]
    BY <1>0, <2>1 DEF AuthLogout, TypeOK
  <2>4. UNCHANGED <<version, browser, store, run, call, rot, history>>  BY <2>1 DEF AuthLogout
  <2>5. QED
    BY <1>0, <2>2, <2>3, <2>4 DEF Typed, TypeOK, VersionInv, browser, store, history
<1>6. CASE LogoutDone(t)
  <2>1. cookie' \in Cookies  BY <1>0, <1>6, EmptyType DEF LogoutDone, TypeOK
  <2>2. /\ held' \in [Tabs -> Bundles] /\ gone' \in [Tabs -> SUBSET Sids]
        /\ boot' \in [Tabs -> {"idle", "complete"}] /\ run' \in [Tabs -> Refreshes]
    BY <1>0, <1>6, ApplyType, EmptyType DEF LogoutDone, Clear
  <2>3. inbox' \in [Tabs -> Seq(Events)]  BY <1>0, <1>6, PublishType DEF LogoutDone, Clear
  <2>4. logout' \in [Tabs -> {"none", "mismatch", "joined", "again", "done", "done_clear"}]
    BY <1>0, <1>6 DEF LogoutDone, TypeOK
  <2>5. QED
    BY <1>0, <1>6, <2>1, <2>2, <2>3, <2>4
    DEF LogoutDone, Typed, TypeOK, VersionInv, server, history
<1>7. CASE Deliver(t)
  <2>1. PICK i \in DOMAIN inbox[t] :
          \/ NewPage(t) /\ UNCHANGED spent
          \/ /\ Apply(t, NoBundle) \/ UNCHANGED <<store, run>>
             /\ inbox' = [inbox EXCEPT ![t] =
                  SubSeq(inbox[t], 1, i - 1) \o SubSeq(inbox[t], i + 1, Len(inbox[t]))]
             /\ UNCHANGED <<server, cookie, call, logout, rot, history>>
    BY <1>7 DEF Deliver
  <2>2. CASE NewPage(t) /\ UNCHANGED spent
    BY <1>0, <2>2, NewPageTyped
  <2>3. CASE /\ Apply(t, NoBundle) \/ UNCHANGED <<store, run>>
             /\ inbox' = [inbox EXCEPT ![t] =
                  SubSeq(inbox[t], 1, i - 1) \o SubSeq(inbox[t], i + 1, Len(inbox[t]))]
             /\ UNCHANGED <<server, cookie, call, logout, rot, history>>
    <3>1. inbox' \in [Tabs -> Seq(Events)]
      <4>1. inbox[t] \in Seq(Events)  BY <1>0 DEF TypeOK
      <4>2. SubSeq(inbox[t], 1, i - 1) \o SubSeq(inbox[t], i + 1, Len(inbox[t])) \in Seq(Events)
        BY <2>1, <4>1, TakenType
      <4>3. QED  BY <1>0, <2>3, <4>2 DEF TypeOK
    <3>2. /\ held' \in [Tabs -> Bundles] /\ gone' \in [Tabs -> SUBSET Sids]
          /\ boot' \in [Tabs -> {"idle", "complete"}] /\ run' \in [Tabs -> Refreshes]
      <4>1. CASE Apply(t, NoBundle)  BY <1>0, <4>1, ApplyType, EmptyType
      <4>2. CASE UNCHANGED <<store, run>>  BY <1>0, <4>2 DEF TypeOK, store
      <4>3. QED  BY <2>3, <4>1, <4>2
    <3>3. QED
      BY <1>0, <2>3, <3>1, <3>2 DEF Typed, TypeOK, VersionInv, server, history
  <2>4. QED  BY <2>1, <2>2, <2>3
<1>8. CASE Reload(t)
  <2>1. spent' \in 0..Budget /\ spent' >= spent
    <3>1. CASE UNCHANGED spent  BY <1>0, <3>1
    <3>2. CASE Spend  BY <1>0, <3>2, SpendType
    <3>3. QED  BY <1>8, <3>1, <3>2 DEF Reload
  <2>2. QED  BY <1>8, <2>1, NewPageTyped DEF Reload
<1>9. QED  BY <1>1, <1>2, <1>3, <1>4, <1>5, <1>6, <1>7, <1>8

LEMMA NextTyped == Typed /\ [Next]_vars => Typed'
<1> SUFFICES ASSUME Typed, [Next]_vars PROVE Typed'
  OBVIOUS
<1>1. CASE UNCHANGED vars
  BY <1>1 DEF vars, server, browser, store, requests, history, Typed, TypeOK, VersionInv
<1>2. ASSUME NEW s \in Sids, Revoke(s) PROVE Typed'
  BY <1>2 DEF Revoke, browser, store, requests, history, Typed, TypeOK, VersionInv
<1>3. CASE Next
  BY <1>2, <1>3, RefreshStepTyped, UserStepTyped, OtherTyped DEF Next
<1>4. QED  BY <1>1, <1>3

\* Every variable keeps its type; a refresh answers a race as often as there are
\* delays (refreshRaceDelays).
THEOREM TypeCorrect == Spec => []TypeOK
<1>1. Typed => TypeOK  BY DEF Typed
<1>2. QED  BY <1>1, InitTyped, NextTyped, PTL DEF Spec

-----------------------------------------------------------------------------
(* What a step does to the sessions, the stores and the refreshes.         *)

Current(t) == run[t].at = "replied" /\ ~run[t].stale

\* At most one session changes, and only forwards.
StatusEffect ==
  \/ status' = status
  \/ \E s \in Sids : status[s] = "unused" /\ status' = [status EXCEPT ![s] = "active"]
  \/ \E s \in Sids : status[s] = "active" /\ status' = [status EXCEPT ![s] = "revoked"]

\* Where tab t may take a session from.
Source(t, s) ==
  \/ s = None \/ s = held[t].sid
  \/ Current(t) /\ s = run[t].reply.bundle.sid
  \/ s \in Sids /\ status[s] = "unused" /\ status'[s] = "active"

StoreEffect ==
  \/ gone' = gone /\ \A t \in Tabs : held'[t].sid = held[t].sid
  \/ \E t \in Tabs, b \in Bundles : Hold(t, b) /\ Source(t, b.sid)

Ended(y) == y = NoRun \/ y = [NoRun EXCEPT !.at = "queued"]

Kept(u, x, y) ==
  /\ y.at = x.at /\ y.race = x.race /\ y.retry = x.retry /\ y.sends = x.sends
  /\ y.reply.bundle.sid \in {None, x.reply.bundle.sid}
  /\ y.at = "replied" /\ ~y.stale => ~x.stale /\ gone'[u] = gone[u]

Waits(x, y) ==
  /\ x.at = "replied" /\ y.at = "wait"
  /\ y.race = x.race + 1 /\ y.retry = x.retry /\ y.sends = x.sends

Sent(x, y) ==
  /\ y.at = "replied" /\ y.sends = x.sends + 1
  /\ LET s == y.reply.bundle.sid IN s = None \/ (s \in Sids /\ status[s] = "active")
  /\ \/ x.at # "replied" /\ y.race = x.race /\ y.retry = x.retry
     \/ x.retry /\ ~y.retry /\ y.race = 0

RunEffect(u) ==
  \/ Ended(run'[u]) \/ Kept(u, run[u], run'[u])
  \/ Waits(run[u], run'[u]) \/ Sent(run[u], run'[u])

Effects == StatusEffect /\ StoreEffect /\ \A u \in Tabs : RunEffect(u)

LEMMA SameRun ==
  ASSUME NEW u \in Tabs, run'[u] = run[u], gone'[u] = gone[u]
  PROVE  RunEffect(u)
BY DEF RunEffect, Kept

\* Hold changes what its own tab has dropped.
LEMMA HoldEffect ==
  ASSUME TypeOK, NEW t \in Tabs, NEW b, Hold(t, b)
  PROVE  \A u \in Tabs \ {t} : gone'[u] = gone[u] /\ held'[u] = held[u]
BY DEF Hold, TypeOK

LEMMA ApplyEffect ==
  ASSUME TypeOK, NEW t \in Tabs, NEW b, Apply(t, b), NEW u \in Tabs
  PROVE  RunEffect(u)
<1>1. CASE u = t
  <2>1. run'[u] = Outdated(t)  BY <1>1 DEF Apply, TypeOK
  <2>2. Kept(u, run[u], run'[u])  BY <1>1, <2>1, OutdatedType DEF Kept
  <2>3. QED  BY <2>2 DEF RunEffect
<1>2. CASE u # t
  <2>1. run'[u] = run[u]  BY <1>2 DEF Apply, TypeOK
  <2>2. gone'[u] = gone[u]  BY <1>2, HoldEffect DEF Apply
  <2>3. QED  BY <2>1, <2>2, SameRun
<1>3. QED  BY <1>1, <1>2

LEMMA EndEffect ==
  ASSUME TypeOK, NEW t \in Tabs, NEW b, Hold(t, b), run' = [run EXCEPT ![t] = NoRun],
         NEW u \in Tabs
  PROVE  RunEffect(u)
<1>1. CASE u = t  BY <1>1 DEF RunEffect, Ended, TypeOK
<1>2. CASE u # t
  <2>1. run'[u] = run[u]  BY <1>2 DEF TypeOK
  <2>2. QED  BY <1>2, <2>1, HoldEffect, SameRun
<1>3. QED  BY <1>1, <1>2

LEMMA StartEffect ==
  ASSUME TypeOK, NEW t \in Tabs, Start(t), gone' = gone, NEW u \in Tabs
  PROVE  RunEffect(u)
<1>1. run'[u] = run[u] \/ run'[u] = [NoRun EXCEPT !.at = "queued"]  BY DEF Start, TypeOK
<1>2. QED  BY <1>1, SameRun DEF RunEffect, Ended

LEMMA SendEffect ==
  ASSUME TypeOK, NEW t \in Tabs, NEW x \in Refreshes, NEW header, Send(t, x, header),
         \/ x = run[t] /\ run[t].at # "replied"
         \/ /\ run[t].retry /\ ~x.retry /\ x.race = 0 /\ x.sends = run[t].sends,
         \A u \in Tabs \ {t} : gone'[u] = gone[u]
  PROVE  StatusEffect /\ \A u \in Tabs : RunEffect(u)
<1>1. StatusEffect  BY SendType DEF StatusEffect
<1>2. Sent(run[t], run'[t])  BY SendType DEF Sent
<1>3. ASSUME NEW u \in Tabs \ {t} PROVE RunEffect(u)
  <2>1. /\ run'[u].at = run[u].at /\ run'[u].stale = run[u].stale /\ run'[u].race = run[u].race
        /\ run'[u].retry = run[u].retry /\ run'[u].sends = run[u].sends
        /\ run'[u].reply.bundle = run[u].reply.bundle
    BY SendType
  <2>2. QED  BY <2>1 DEF RunEffect, Kept
<1>4. QED  BY <1>1, <1>2, <1>3 DEF RunEffect

LEMMA EndWithEffects ==
  ASSUME TypeOK, NEW t \in Tabs, NEW outcome, NEW b \in Bundles, NEW state,
         EndWith(t, outcome, b, state), Source(t, b.sid)
  PROVE  Effects
<1>1. status' = status /\ Hold(t, b) /\ run' = [run EXCEPT ![t] = NoRun]
  BY DEF EndWith, End, server
<1>2. \A u \in Tabs : RunEffect(u)  BY <1>1, EndEffect
<1>3. QED  BY <1>1, <1>2 DEF Effects, StatusEffect, StoreEffect

LEMMA RefreshStepEffects ==
  ASSUME TypeOK, NEW t \in Tabs, RefreshStep(t)
  PROVE  Effects
<1>0. /\ held[t] \in Bundles /\ run[t] \in Refreshes /\ run[t].reply.bundle \in Bundles
      /\ NoBundle \in Bundles /\ NoBundle.sid = None
  BY TabType, EmptyType DEF NoBundle
<1>1. Source(t, None) /\ Source(t, held[t].sid)  BY DEF Source
<1>2. CASE Request(t)
  <2>1. CASE IsCurrent(t) /\ Send(t, run[t], held[t].sid) /\ UNCHANGED store
    <3>1. run[t].at # "replied"  BY <1>2 DEF Request
    <3>2. gone' = gone /\ held' = held  BY <2>1 DEF store
    <3>3. StatusEffect /\ \A u \in Tabs : RunEffect(u)
      BY <1>0, <2>1, <3>1, <3>2, SendEffect
    <3>4. QED  BY <3>2, <3>3 DEF Effects, StoreEffect
  <2>2. CASE EndWith(t, "superseded", held[t], boot[t])
    BY <1>0, <1>1, <2>2, EndWithEffects
  <2>3. QED  BY <1>2, <2>1, <2>2 DEF Request
<1>3. CASE Superseded(t)  BY <1>0, <1>1, <1>3, EndWithEffects DEF Superseded
<1>4. CASE Accept(t)
  <2>1. Source(t, run[t].reply.bundle.sid)
    BY <1>4 DEF Accept, Arrives, IsCurrent, Source, Current
  <2>2. QED  BY <1>0, <1>4, <2>1, EndWithEffects DEF Accept
<1>5. CASE RetryRace(t)
  <2>1. status' = status /\ gone' = gone /\ held' = held
    BY <1>5 DEF RetryRace, server, store
  <2>2. run' = [run EXCEPT ![t] = NextRace(run[t])] /\ run[t].at = "replied"
    BY <1>5 DEF RetryRace, Arrives
  <2>3. run'[t] = NextRace(run[t]) /\ \A u \in Tabs \ {t} : run'[u] = run[u]
    BY <2>2 DEF TypeOK
  <2>4. Waits(run[t], run'[t])
    <3>1. /\ NextRace(run[t]).at = "wait" /\ NextRace(run[t]).race = run[t].race + 1
          /\ NextRace(run[t]).retry = run[t].retry /\ NextRace(run[t]).sends = run[t].sends
      BY <1>0 DEF NextRace, Refreshes
    <3>2. QED  BY <2>2, <2>3, <3>1 DEF Waits
  <2>5. \A u \in Tabs : RunEffect(u)  BY <2>1, <2>3, <2>4, SameRun DEF RunEffect
  <2>6. QED  BY <2>1, <2>5 DEF Effects, StatusEffect, StoreEffect
<1>6. CASE RetryMismatch(t)
  <2> DEFINE x == [run[t] EXCEPT !.race = 0, !.retry = FALSE]
  <2>1. x \in Refreshes /\ x.retry = FALSE /\ x.race = 0 /\ x.sends = run[t].sends
    <3>1. 0 \in 0..MaxRaces  BY Bounds
    <3>2. QED  BY <1>0, <3>1 DEF Refreshes
  <2> HIDE DEF x
  <2>2. Send(t, x, None) /\ run[t].retry /\ Hold(t, NoBundle)
    BY <1>6 DEF RetryMismatch, x
  <2>3. StatusEffect /\ \A u \in Tabs : RunEffect(u)
    BY <2>1, <2>2, HoldEffect, SendEffect
  <2>4. QED  BY <1>0, <1>1, <2>2, <2>3 DEF Effects, StoreEffect
<1>7. CASE GiveUp(t)  BY <1>0, <1>1, <1>7, EndWithEffects DEF GiveUp
<1>8. CASE Unauthorized(t)  BY <1>0, <1>1, <1>8, EndWithEffects DEF Unauthorized
<1>9. CASE Transient(t)  BY <1>0, <1>1, <1>9, EndWithEffects DEF Transient
<1>10. QED
  BY <1>2, <1>3, <1>4, <1>5, <1>6, <1>7, <1>8, <1>9, RefreshStep(t) DEF RefreshStep

\* A step that leaves the refreshes, or starts one, and the stores alone.
LEMMA StoreKept ==
  ASSUME TypeOK, NEW t \in Tabs, UNCHANGED run \/ Start(t), gone' = gone,
         \A u \in Tabs : held'[u].sid = held[u].sid, StatusEffect
  PROVE  Effects
<1>1. \A u \in Tabs : RunEffect(u)
  <2>1. CASE UNCHANGED run  BY <2>1, SameRun
  <2>2. CASE Start(t)  BY <2>2, StartEffect
  <2>3. QED  BY <2>1, <2>2
<1>2. QED  BY <1>1 DEF Effects, StoreEffect

LEMMA ApplyEffects ==
  ASSUME TypeOK, NEW t \in Tabs, NEW b \in Bundles, Apply(t, b), Source(t, b.sid), StatusEffect
  PROVE  Effects
<1>1. \A u \in Tabs : RunEffect(u)  BY ApplyEffect
<1>2. QED  BY <1>1 DEF Effects, StoreEffect, Apply

LEMMA NewPageEffects ==
  ASSUME TypeOK, NEW t \in Tabs, NewPage(t)
  PROVE  Effects
<1>1. Hold(t, NoBundle) /\ run' = [run EXCEPT ![t] = NoRun] /\ status' = status
  BY DEF NewPage, server
<1>2. \A u \in Tabs : RunEffect(u)  BY <1>1, EndEffect
<1>3. Source(t, NoBundle.sid) /\ NoBundle \in Bundles  BY EmptyType DEF Source, NoBundle
<1>4. QED  BY <1>1, <1>2, <1>3 DEF Effects, StatusEffect, StoreEffect

LEMMA AuthLogoutEffects ==
  ASSUME TypeOK, NEW t \in Tabs, NEW otherwise, AuthLogout(t, otherwise)
  PROVE  Effects
<1>1. UNCHANGED <<store, run>>  BY DEF AuthLogout
<1>2. \/ status' = status
      \/ \E s \in LogoutRevokes(held[t]) :
           s # None /\ status[s] = "active" /\ status' = [status EXCEPT ![s] = "revoked"]
  BY DEF AuthLogout
<1>3. LogoutRevokes(held[t]) \subseteq Sids \cup {None}
  <2>1. held[t].sid \in Sids \cup {None} /\ cookie.sid \in Sids \cup {None}
    BY TabType DEF TypeOK, Cookies
  <2>2. QED  BY <2>1 DEF LogoutRevokes
<1>4. StatusEffect  BY <1>2, <1>3 DEF StatusEffect
<1>5. QED  BY <1>1, <1>4, StoreKept DEF store

LEMMA UserStepEffects ==
  ASSUME TypeOK, NEW t \in Tabs, UserStep(t) \/ CallStep(t)
  PROVE  Effects
<1>0. status' = status => StatusEffect  BY DEF StatusEffect
<1>1. CASE Bootstrap(t) \/ FreshHeaders(t)
  BY <1>0, <1>1, StoreKept DEF Bootstrap, FreshHeaders, server, store
<1>2. CASE Call(t)  BY <1>0, <1>2, StoreKept DEF Call, server, store
<1>3. CASE SignOut(t)  BY <1>3, AuthLogoutEffects DEF SignOut
<1>4. CASE Rotate(t)  BY <1>0, <1>4, StoreKept DEF Rotate, store
<1>5. ASSUME NEW s \in Sids, Login(t, s) PROVE Effects
  <2>1. Bundle(s) \in Bundles /\ Bundle(s).sid = s  BY BundleType
  <2>2. status[s] = "unused" /\ status' = [status EXCEPT ![s] = "active"] /\ Apply(t, Bundle(s))
    BY <1>5 DEF Login
  <2>3. Source(t, s)  BY <2>2 DEF Source, TypeOK
  <2>4. StatusEffect  BY <2>2 DEF StatusEffect
  <2>5. QED  BY <2>1, <2>2, <2>3, <2>4, ApplyEffects
<1>6. CASE CallReply(t)
  <2>1. status' = status /\ gone' = gone /\ held' = held  BY <1>6 DEF CallReply, server, store
  <2>2. UNCHANGED run \/ Start(t)  BY <1>6 DEF CallReply
  <2>3. QED  BY <1>0, <2>1, <2>2, StoreKept
<1>7. CASE CallReplyAgain(t)
  <2>1. status' = status  BY <1>7 DEF CallReplyAgain, server
  <2>2. CASE UNCHANGED <<store, run, inbox>>  BY <1>0, <2>1, <2>2, StoreKept DEF store
  <2>3. CASE Clear(t, FALSE)
    BY <1>0, <2>1, <2>3, ApplyEffects, EmptyType DEF Clear, Source, NoBundle
  <2>4. QED  BY <1>7, <2>2, <2>3 DEF CallReplyAgain
<1>8. QED
  BY <1>1, <1>2, <1>3, <1>4, <1>5, <1>6, <1>7 DEF UserStep, CallStep

LEMMA OtherEffects ==
  ASSUME TypeOK, NEW t \in Tabs,
         \/ LoseReply(t) \/ Expire(t) \/ ApplyRotation(t) \/ LogoutMismatch(t)
         \/ LogoutAgain(t) \/ LogoutDone(t) \/ Deliver(t) \/ Reload(t)
  PROVE  Effects
<1>0. (status' = status => StatusEffect) /\ Source(t, NoBundle.sid) /\ NoBundle \in Bundles
  BY EmptyType DEF StatusEffect, Source, NoBundle
<1>1. CASE LoseReply(t)
  <2> DEFINE r == [NoReply EXCEPT !.kind = "error"]
  <2>1. status' = status /\ gone' = gone /\ held' = held  BY <1>1 DEF LoseReply, server, store
  <2>2. r.bundle.sid = None  BY DEF NoReply, NoBundle
  <2>3. run' = [run EXCEPT ![t].reply = r]  BY <1>1 DEF LoseReply
  <2> HIDE DEF r
  <2>4. run'[t] = [run[t] EXCEPT !.reply = r] /\ \A u \in Tabs \ {t} : run'[u] = run[u]
    BY <2>3 DEF TypeOK
  <2>5. Kept(t, run[t], run'[t])
    <3>1. run[t] \in Refreshes  BY TabType
    <3>2. /\ run'[t].at = run[t].at /\ run'[t].race = run[t].race /\ run'[t].retry = run[t].retry
          /\ run'[t].sends = run[t].sends /\ run'[t].stale = run[t].stale /\ run'[t].reply = r
      BY <2>4, <3>1 DEF Refreshes
    <3>3. QED  BY <2>1, <2>2, <3>2 DEF Kept
  <2>6. \A u \in Tabs : RunEffect(u)  BY <2>1, <2>4, <2>5, SameRun DEF RunEffect
  <2>7. QED  BY <1>0, <2>1, <2>6 DEF Effects, StoreEffect
<1>2. CASE Expire(t)
  <2>1. UNCHANGED <<status, gone, run>>  BY <1>2 DEF Expire, server, requests
  <2>2. \A u \in Tabs : held'[u].sid = held[u].sid
    <3>1. held' = [held EXCEPT ![t] = [held[t] EXCEPT !.fresh = FALSE]]  BY <1>2 DEF Expire
    <3>2. [held[t] EXCEPT !.fresh = FALSE].sid = held[t].sid  BY TabType DEF Bundles
    <3>3. QED  BY <3>1, <3>2 DEF TypeOK
  <2>3. QED  BY <1>0, <2>1, <2>2, StoreKept
<1>3. CASE ApplyRotation(t)
  <2>1. status' = status  BY <1>3 DEF ApplyRotation, server
  <2>2. CASE held[t].sid = rot[t].sid /\ Apply(t, rot[t])
    <3>1. Source(t, rot[t].sid)  BY <2>2 DEF Source
    <3>2. QED  BY <1>0, <2>1, <2>2, <3>1, TabType, ApplyEffects
  <2>3. CASE UNCHANGED <<held, gone, boot, run>>  BY <1>0, <2>1, <2>3, StoreKept
  <2>4. QED  BY <1>3, <2>2, <2>3 DEF ApplyRotation
<1>4. CASE LogoutMismatch(t)
  BY <1>0, <1>4, StoreKept DEF LogoutMismatch, server, store
<1>5. CASE LogoutAgain(t)  BY <1>5, AuthLogoutEffects DEF LogoutAgain
<1>6. CASE LogoutDone(t)
  BY <1>0, <1>6, ApplyEffects DEF LogoutDone, Clear, server
<1>7. CASE Deliver(t)
  <2>1. \/ NewPage(t)
        \/ (Apply(t, NoBundle) \/ UNCHANGED <<store, run>>) /\ status' = status
    BY <1>7 DEF Deliver, server
  <2>2. CASE NewPage(t)  BY <2>2, NewPageEffects
  <2>3. CASE Apply(t, NoBundle) /\ status' = status  BY <1>0, <2>3, ApplyEffects
  <2>4. CASE UNCHANGED <<store, run>> /\ status' = status  BY <1>0, <2>4, StoreKept DEF store
  <2>5. QED  BY <2>1, <2>2, <2>3, <2>4
<1>8. CASE Reload(t)  BY <1>8, NewPageEffects DEF Reload
<1>9. QED  BY <1>1, <1>2, <1>3, <1>4, <1>5, <1>6, <1>7, <1>8

LEMMA NextEffects ==
  ASSUME TypeOK, [Next]_vars
  PROVE  Effects
<1>1. CASE UNCHANGED vars
  BY <1>1, SameRun
  DEF vars, server, store, requests, Effects, StatusEffect, StoreEffect
<1>2. ASSUME NEW s \in Sids, Revoke(s) PROVE Effects
  BY <1>2, SameRun DEF Revoke, store, requests, Effects, StatusEffect, StoreEffect
<1>3. CASE Next
  BY <1>2, <1>3, RefreshStepEffects, UserStepEffects, OtherEffects DEF Next
<1>4. QED  BY <1>1, <1>3

-----------------------------------------------------------------------------
(* A refresh gives up.  The requests a refresh may still have sent grow    *)
(* with the races it has answered and with the one recovery it may make.   *)

RequestInv == \A t \in Tabs :
  run[t].sends <= (IF run[t].retry THEN 0 ELSE MaxRaces + 1) + run[t].race
                    + (IF run[t].at = "replied" THEN 1 ELSE 0)

LEMMA NextRequests ==
  ASSUME TypeOK, TypeOK', RequestInv, [Next]_vars
  PROVE  RequestInv'
<1>1. SUFFICES ASSUME NEW t \in Tabs
               PROVE  run'[t].sends <= (IF run'[t].retry THEN 0 ELSE MaxRaces + 1) + run'[t].race
                                         + (IF run'[t].at = "replied" THEN 1 ELSE 0)
  BY DEF RequestInv
<1> DEFINE x == run[t]
           y == run'[t]
<1>2. /\ x.race \in Nat /\ x.race <= MaxRaces /\ x.sends \in Nat /\ x.retry \in BOOLEAN
      /\ MaxRaces \in Nat
  BY TabType, Bounds DEF Refreshes
<1>3. /\ y.race \in Nat /\ y.sends \in Nat /\ y.retry \in BOOLEAN
  BY Bounds DEF Refreshes, TypeOK
<1>4. x.sends <= (IF x.retry THEN 0 ELSE MaxRaces + 1) + x.race + (IF x.at = "replied" THEN 1 ELSE 0)
  BY DEF RequestInv
<1>5. Ended(y) \/ Kept(t, x, y) \/ Waits(x, y) \/ Sent(x, y)
  BY NextEffects DEF Effects, RunEffect
<1> HIDE DEF x, y
<1>6. CASE Ended(y)  BY <1>3, <1>6 DEF Ended, NoRun, y
<1>7. CASE Kept(t, x, y)  BY <1>4, <1>7 DEF Kept, y
<1>8. CASE Waits(x, y)
  <2>1. y.sends <= (IF y.retry THEN 0 ELSE MaxRaces + 1) + y.race
    BY <1>2, <1>3, <1>4, <1>8 DEF Waits
  <2>2. QED  BY <1>2, <1>3, <1>8, <2>1 DEF Waits, y
<1>9. CASE Sent(x, y)
  <2>1. CASE x.at # "replied" /\ y.race = x.race /\ y.retry = x.retry
    BY <1>2, <1>3, <1>4, <1>9, <2>1 DEF Sent, y
  <2>2. CASE x.retry /\ ~y.retry /\ y.race = 0
    <3>1. x.sends <= MaxRaces + 1  BY <1>2, <1>4, <2>2
    <3>2. QED  BY <1>2, <1>3, <1>9, <2>2, <3>1 DEF Sent, y
  <2>3. QED  BY <1>9, <2>1, <2>2 DEF Sent
<1>10. QED  BY <1>5, <1>6, <1>7, <1>8, <1>9

\* However many races the server reports, a refresh sends at most the requests of two
\* rounds before it settles (createRefreshRunner), for any number of delays.
THEOREM RefreshGivesUp == Spec => []RequestsBounded
<1>1. Init => RequestInv
  <2>1. SUFFICES ASSUME Init, NEW t \in Tabs
                 PROVE  run[t].sends <= (IF run[t].retry THEN 0 ELSE MaxRaces + 1) + run[t].race
                                          + (IF run[t].at = "replied" THEN 1 ELSE 0)
    BY DEF RequestInv
  <2>2. run[t] = NoRun  BY <2>1 DEF Init
  <2>3. QED  BY <2>2 DEF NoRun
<1>2. TypeOK /\ TypeOK' /\ RequestInv /\ [Next]_vars => RequestInv'  BY NextRequests
<1>3. TypeOK /\ RequestInv => RequestsBounded
  <2>1. SUFFICES ASSUME TypeOK, RequestInv, NEW t \in Tabs
                 PROVE  run[t].sends <= 2 * (MaxRaces + 1)
    BY DEF RequestsBounded
  <2>2. /\ run[t].race \in Nat /\ run[t].race <= MaxRaces /\ run[t].sends \in Nat
        /\ MaxRaces \in Nat
    BY <2>1, TabType, Bounds DEF Refreshes
  <2>3. run[t].sends <= (IF run[t].retry THEN 0 ELSE MaxRaces + 1) + run[t].race
                          + (IF run[t].at = "replied" THEN 1 ELSE 0)
    BY <2>1 DEF RequestInv
  <2>4. QED  BY <2>2, <2>3
<1>4. QED  BY <1>1, <1>2, <1>3, TypeCorrect, PTL DEF Spec

-----------------------------------------------------------------------------
(* The promise of TabSessions.  What a tab has dropped stays revoked, and  *)
(* neither its store nor an answer it would still take names it.           *)

\* A session tab t may show.
Showable(st, g, s) == s = None \/ (s \in Sids /\ st[s] # "unused" /\ s \notin g)
MayShow(t, s) == Showable(status, gone[t], s)

SessionInv == \A t \in Tabs :
  /\ \A s \in gone[t] : status[s] = "revoked"
  /\ MayShow(t, held[t].sid)
  /\ Current(t) => MayShow(t, run[t].reply.bundle.sid)

LEMMA InitSessions == Init => SessionInv
BY DEF Init, SessionInv, MayShow, Showable, Current, NoBundle, NoRun

\* Sessions only move forwards.
LEMMA StatusForward ==
  ASSUME TypeOK, StatusEffect, NEW s \in Sids
  PROVE  /\ status[s] = "revoked" => status'[s] = "revoked"
         /\ status[s] # "unused" => status'[s] # "unused"
BY DEF StatusEffect, TypeOK

\* What a tab drops is the session it held, once it is revoked.
LEMMA DropEffect ==
  ASSUME TypeOK, StoreEffect, NEW t \in Tabs
  PROVE  \/ gone'[t] = gone[t] /\ held'[t].sid = held[t].sid
         \/ /\ Source(t, held'[t].sid)
            /\ gone'[t] = IF held[t].sid \notin {None, held'[t].sid} /\ status[held[t].sid] = "revoked"
                          THEN gone[t] \cup {held[t].sid} ELSE gone[t]
<1>1. CASE gone' = gone /\ \A u \in Tabs : held'[u].sid = held[u].sid  BY <1>1
<1>2. ASSUME NEW u \in Tabs, NEW b \in Bundles, Hold(u, b), Source(u, b.sid)
      PROVE  \/ gone'[t] = gone[t] /\ held'[t].sid = held[t].sid
             \/ /\ Source(t, held'[t].sid)
                /\ gone'[t] = IF held[t].sid \notin {None, held'[t].sid}
                                 /\ status[held[t].sid] = "revoked"
                              THEN gone[t] \cup {held[t].sid} ELSE gone[t]
  <2>1. CASE u = t
    <3>1. held'[t] = b  BY <1>2, <2>1 DEF Hold, TypeOK
    <3>2. gone'[t] = IF held[t].sid \notin {None, b.sid} /\ status[held[t].sid] = "revoked"
                     THEN gone[t] \cup {held[t].sid} ELSE gone[t]
      BY <1>2, <2>1 DEF Hold, TypeOK
    <3>3. QED  BY <1>2, <2>1, <3>1, <3>2
  <2>2. CASE u # t  BY <1>2, <2>2, HoldEffect
  <2>3. QED  BY <2>1, <2>2
<1>3. QED  BY <1>1, <1>2 DEF StoreEffect

LEMMA NextSessions ==
  ASSUME TypeOK, TypeOK', SessionInv, [Next]_vars
  PROVE  SessionInv'
<1>0. Effects  BY NextEffects
<1> SUFFICES ASSUME NEW t \in Tabs
             PROVE  /\ \A s \in gone'[t] : status'[s] = "revoked"
                    /\ Showable(status', gone'[t], held'[t].sid)
                    /\ (run'[t].at = "replied" /\ ~run'[t].stale
                         => Showable(status', gone'[t], run'[t].reply.bundle.sid))
  BY DEF SessionInv, MayShow, Current
<1> DEFINE h == held[t].sid
           k == held'[t].sid
           x == run[t]
           y == run'[t]
<1>1. /\ \A s \in gone[t] : status[s] = "revoked"
      /\ Showable(status, gone[t], h) /\ (Current(t) => Showable(status, gone[t], x.reply.bundle.sid))
      /\ gone[t] \subseteq Sids /\ h \in Sids \cup {None}
  BY TabType DEF SessionInv, MayShow, TypeOK
<1>2. \/ gone'[t] = gone[t] /\ k = h
      \/ /\ Source(t, k)
         /\ gone'[t] = IF h \notin {None, k} /\ status[h] = "revoked"
                       THEN gone[t] \cup {h} ELSE gone[t]
  BY <1>0, DropEffect DEF Effects
<1>3. \A s \in Sids : /\ status[s] = "revoked" => status'[s] = "revoked"
                      /\ status[s] # "unused" => status'[s] # "unused"
  BY <1>0, StatusForward DEF Effects
<1>4. \A s \in gone'[t] : s \in Sids /\ status[s] = "revoked"
  BY <1>1, <1>2
<1>5. Showable(status', gone'[t], k)
  <2>1. CASE gone'[t] = gone[t] /\ k = h  BY <1>1, <1>3, <2>1 DEF Showable
  <2>2. CASE Source(t, k) /\ gone'[t] \subseteq gone[t] \cup {h} /\ (k = h => gone'[t] = gone[t])
    <3>1. CASE k = None  BY <3>1 DEF Showable
    <3>2. CASE k = h  BY <1>1, <1>3, <2>2, <3>2 DEF Showable
    <3>3. CASE k # h /\ Current(t) /\ k = x.reply.bundle.sid
      BY <1>1, <1>3, <2>2, <3>3 DEF Showable
    <3>4. CASE k \in Sids /\ status[k] = "unused" /\ status'[k] = "active"
      BY <1>4, <3>4 DEF Showable
    <3>5. QED  BY <2>2, <3>1, <3>2, <3>3, <3>4 DEF Source
  <2>3. QED  BY <1>2, <2>1, <2>2
<1>6. ASSUME y.at = "replied", ~y.stale PROVE Showable(status', gone'[t], y.reply.bundle.sid)
  <2>1. Ended(y) \/ Kept(t, x, y) \/ Waits(x, y) \/ Sent(x, y)  BY <1>0 DEF Effects, RunEffect
  <2> HIDE DEF x, y
  <2>2. CASE Ended(y)  BY <1>6, <2>2 DEF Ended, NoRun
  <2>3. CASE Waits(x, y)  BY <1>6, <2>3 DEF Waits
  <2>4. CASE Kept(t, x, y)
    <3>1. /\ y.reply.bundle.sid \in {None, x.reply.bundle.sid}
          /\ x.at = "replied" /\ ~x.stale /\ gone'[t] = gone[t]
      BY <1>6, <2>4 DEF Kept
    <3>2. Showable(status, gone[t], x.reply.bundle.sid)  BY <1>1, <3>1 DEF Current, x
    <3>3. QED  BY <1>3, <3>1, <3>2 DEF Showable
  <2>5. CASE Sent(x, y)
    <3>1. y.reply.bundle.sid = None
            \/ (y.reply.bundle.sid \in Sids /\ status[y.reply.bundle.sid] = "active")
      BY <2>5 DEF Sent
    <3>2. QED  BY <1>3, <1>4, <3>1 DEF Showable
  <2>6. QED  BY <2>1, <2>2, <2>3, <2>4, <2>5
<1>7. QED  BY <1>3, <1>4, <1>5, <1>6

\* The sessions of stores and answers stay showable.
LEMMA SessionInvariant == Spec => []SessionInv
<1>1. TypeOK /\ TypeOK' /\ SessionInv /\ [Next]_vars => SessionInv'  BY NextSessions
<1>2. QED  BY <1>1, InitSessions, TypeCorrect, PTL DEF Spec

\* A session that was revoked when a tab dropped it is never shown by that tab again,
\* whatever answers were under way (isCurrent in createRefreshRunner).
THEOREM RevokedIsGone == Spec => []GoneStaysGone
<1>1. TypeOK /\ SessionInv => GoneStaysGone
  <2>1. SUFFICES ASSUME TypeOK, SessionInv, NEW t \in Tabs PROVE held[t].sid \notin gone[t]
    BY DEF GoneStaysGone
  <2>2. QED  BY <2>1, AuthConstants DEF SessionInv, MayShow, Showable, TypeOK
<1>2. QED  BY <1>1, SessionInvariant, TypeCorrect, PTL

\* The tabs, the cookie, the lock and the messages implement TabSessions: every step of
\* a tab or of the server is a step of the promise or leaves it alone.
THEOREM PromiseIsKept == Spec => KeepsPromise
<1>1. Init => Promise!Init
  BY DEF Init, Promise!Init, NoBundle
<1>2. ASSUME TypeOK, TypeOK', SessionInv, SessionInv', [Next]_vars
      PROVE  [Promise!Next]_<<status, [t \in Tabs |-> held[t].sid], gone>>
  <2>0. Effects  BY <1>2, NextEffects
  <2> DEFINE H == [t \in Tabs |-> held[t].sid]
             K == [t \in Tabs |-> held'[t].sid]
  <2>1. UNCHANGED status \/ \E s \in Sids : Promise!Issue(s) \/ Promise!Revoke(s)
    BY <2>0 DEF Effects, StatusEffect, Promise!Issue, Promise!Revoke
  <2>2. (K = H /\ gone' = gone) \/ \E t \in Tabs, s \in Sids \cup {None} : Promise!Hold(t, s)
    <3>1. CASE gone' = gone /\ \A t \in Tabs : held'[t].sid = held[t].sid  BY <3>1
    <3>2. ASSUME NEW t \in Tabs, NEW b \in Bundles, Hold(t, b)
          PROVE  Promise!Hold(t, b.sid) /\ b.sid \in Sids \cup {None}
      <4>1. b.sid \in Sids \cup {None}  BY DEF Bundles
      <4>2. held' = [held EXCEPT ![t] = b]  BY <3>2 DEF Hold
      <4>3. K = [H EXCEPT ![t] = b.sid]  BY <1>2, <4>2 DEF TypeOK
      <4>4. gone' = [gone EXCEPT ![t] =
              IF held[t].sid \notin {None, b.sid} /\ status[held[t].sid] = "revoked"
              THEN gone[t] \cup {held[t].sid} ELSE gone[t]]
        BY <1>2, <3>2 DEF Hold, TypeOK
      <4>5. b.sid = None \/ (status'[b.sid] # "unused" /\ b.sid \notin gone[t])
        <5>1. MayShow(t, held[t].sid)'  BY <1>2 DEF SessionInv
        <5>2. held'[t] = b  BY <1>2, <4>2 DEF TypeOK
        <5>3. gone[t] \subseteq gone'[t]  BY <1>2, <4>4 DEF TypeOK
        <5>4. QED  BY <5>1, <5>2, <5>3 DEF MayShow, Showable
      <4>6. QED  BY <4>1, <4>3, <4>4, <4>5 DEF Promise!Hold, Promise!Dropped
    <3>3. QED  BY <2>0, <3>1, <3>2 DEF Effects, StoreEffect
  <2>3. QED  BY <2>1, <2>2 DEF Promise!Next
<1>3. QED
  BY <1>1, <1>2, SessionInvariant, TypeCorrect, PTL DEF Spec, KeepsPromise, Promise!Spec

-----------------------------------------------------------------------------
(* With the lock, one refresh at a time is past its request for it.  As    *)
(* long as no answer is lost, the cookie or the answer of that refresh has *)
(* the present secret, so no request presents an older one.                *)

Past(t) == run[t].at \in {"replied", "wait"}

Alone == \A t, u \in Tabs : Past(t) /\ Past(u) => t = u

SecretInv == ~lossy =>
  /\ reused = {}
  /\ \/ cookie.age = 0
     \/ \E t \in Tabs : run[t].at = "replied" /\ run[t].reply.kind = "bundle"
  /\ \A t \in Tabs : run[t].at = "replied" => run[t].reply.age = 0

LockInv == Alone /\ SecretInv

LEMMA InitLock == Init => LockInv
BY DEF Init, LockInv, Alone, Past, SecretInv, NoRun, NoCookie

\* The answers under way and the secrets stay as they are, or the cookie goes.
Quiet ==
  /\ reused' = reused /\ (cookie' = cookie \/ cookie'.age = 0) /\ (lossy => lossy')
  /\ \A u \in Tabs : /\ run'[u].at = run[u].at \/ run'[u].at \in {"off", "queued"}
                     /\ (run'[u].at = "replied") = (run[u].at = "replied")
                     /\ run[u].at = "replied" => run'[u].reply = run[u].reply

LEMMA QuietKeeps ==
  ASSUME LockInv, Quiet
  PROVE  LockInv'
<1>1. Alone'  BY DEF LockInv, Alone, Past, Quiet
<1>2. SecretInv'
  <2>1. SUFFICES ASSUME ~lossy' PROVE
          /\ reused' = {}
          /\ cookie'.age = 0 \/ \E t \in Tabs : run'[t].at = "replied" /\ run'[t].reply.kind = "bundle"
          /\ \A t \in Tabs : run'[t].at = "replied" => run'[t].reply.age = 0
    BY DEF SecretInv
  <2>2. ~lossy  BY <2>1 DEF Quiet
  <2>3. QED  BY <2>2 DEF LockInv, SecretInv, Quiet
<1>3. QED  BY <1>1, <1>2 DEF LockInv

\* A step after which an answer has been lost.
LEMMA LossKeeps ==
  ASSUME LockInv, lossy' = TRUE,
         \A u \in Tabs : run'[u].at = run[u].at \/ run'[u].at \in {"off", "queued"}
  PROVE  LockInv'
BY DEF LockInv, Alone, Past, SecretInv

\* The answer of the one refresh past the lock arrives: the cookie is up to date.
LEMMA ArrivalKeeps ==
  ASSUME TypeOK, LockInv, NEW t \in Tabs, NEW current, Arrives(t, current),
         reused' = reused, lossy' = lossy, run'[t].at # "replied",
         \A u \in Tabs \ {t} : run'[u] = run[u]
  PROVE  LockInv'
<1>1. \A u \in Tabs \ {t} : ~Past(u)
  BY DEF LockInv, Alone, Past, Arrives
<1>2. Alone'  BY <1>1 DEF Alone, Past
<1>3. ASSUME ~lossy PROVE cookie'.age = 0
  <2>1. run[t].at = "replied" /\ run[t].reply.age = 0
    BY <1>3 DEF LockInv, SecretInv, Arrives
  <2>2. CASE run[t].reply.kind = "bundle"  BY <2>1, <2>2 DEF Arrives
  <2>3. CASE run[t].reply.kind = "anonymous"  BY <2>3 DEF Arrives, NoCookie
  <2>4. CASE run[t].reply.kind \notin {"bundle", "anonymous"}
    <3>1. cookie' = cookie  BY <2>4 DEF Arrives
    <3>2. cookie.age = 0  BY <1>1, <1>3, <2>4 DEF LockInv, SecretInv, Past
    <3>3. QED  BY <3>1, <3>2
  <2>5. QED  BY <2>2, <2>3, <2>4
<1>4. SecretInv'  BY <1>1, <1>3 DEF LockInv, SecretInv, Past
<1>5. QED  BY <1>2, <1>4 DEF LockInv

\* A request with the present secret, of the one refresh past the lock.
LEMMA RequestKeeps ==
  ASSUME TypeOK, LockInv, NEW t \in Tabs, NEW x \in Refreshes, NEW header, Send(t, x, header),
         \A u \in Tabs \ {t} : ~Past(u),
         run[t].at # "replied" \/ run[t].reply.kind # "bundle"
  PROVE  LockInv'
<1>1. /\ lossy' = lossy
      /\ \A u \in Tabs \ {t} : run'[u].at = run[u].at
  BY SendType
<1>2. Alone'  BY <1>1 DEF Alone, Past
<1>3. ASSUME ~lossy
      PROVE  /\ reused' = {} /\ run'[t].at = "replied" /\ run'[t].reply.age = 0
             /\ cookie'.age = 0 \/ run'[t].reply.kind = "bundle"
  <2>1. cookie.age = 0 /\ reused = {}  BY <1>3 DEF LockInv, SecretInv, Past
  <2> DEFINE y == [x EXCEPT !.sends = @ + 1]
  <2>2. y \in Refreshes  BY DEF Refreshes
  <2>3. Refresh(t, y, header) \/ RequestFails(t, y)  BY DEF Send
  <2> HIDE DEF y
  <2>4. CASE Refresh(t, y, header)
    <3>1. PICK v \in Verdicts(cookie, header), kind \in {"bundle", "race", "mismatch", "anonymous"} :
            LET s == IF v = "rotate" THEN cookie.sid ELSE None
                b == IF kind = "bundle" THEN Bundle(cookie.sid) ELSE NoBundle
                r == [kind |-> kind, bundle |-> b, age |-> 0]
            IN /\ kind \in Kinds(v)
               /\ reused' = IF v = "reuse" THEN reused \cup {cookie.sid} ELSE reused
               /\ cookie' = Older(cookie, s)
               /\ run' = [u \in Tabs |->
                    IF u = t THEN [y EXCEPT !.at = "replied", !.reply = r]
                    ELSE [run[u] EXCEPT !.reply = OlderReply(@, s)]]
      BY <2>4 DEF Refresh
    <3> DEFINE b == IF kind = "bundle" THEN Bundle(cookie.sid) ELSE NoBundle
               r == [kind |-> kind, bundle |-> b, age |-> 0]
    <3>2. v \notin {"again", "reuse"}  BY <2>1, <3>1 DEF Verdicts
    <3>3. reused' = {}  BY <2>1, <3>1, <3>2
    <3>4. run'[t] = [y EXCEPT !.at = "replied", !.reply = r]  BY <3>1
    <3>5. r.age = 0 /\ r.kind = kind  OBVIOUS
    <3> HIDE DEF b, r
    <3>6. run'[t].at = "replied" /\ run'[t].reply = r  BY <2>2, <3>4 DEF Refreshes
    <3>7. CASE v = "rotate"
      <4>1. kind = "bundle"  BY <3>1, <3>7 DEF Kinds
      <4>2. QED  BY <3>3, <3>5, <3>6, <4>1
    <3>8. CASE v # "rotate"
      <4>1. cookie' = cookie  BY <3>1, <3>8 DEF Older
      <4>2. QED  BY <2>1, <3>3, <3>5, <3>6, <4>1
    <3>9. QED  BY <3>7, <3>8
  <2>5. CASE RequestFails(t, y)
    <3>1. PICK kind \in {"error", "other"} :
            run' = [run EXCEPT ![t] = [y EXCEPT !.at = "replied", !.reply = [NoReply EXCEPT !.kind = kind]]]
      BY <2>5 DEF RequestFails
    <3> DEFINE r == [NoReply EXCEPT !.kind = kind]
    <3>2. r.age = 0  BY DEF NoReply
    <3>3. run'[t] = [y EXCEPT !.at = "replied", !.reply = r]  BY <3>1 DEF TypeOK
    <3> HIDE DEF r
    <3>4. run'[t].at = "replied" /\ run'[t].reply = r  BY <2>2, <3>3 DEF Refreshes
    <3>5. reused' = reused /\ cookie' = cookie  BY <2>5 DEF RequestFails
    <3>6. QED  BY <2>1, <3>2, <3>4, <3>5
  <2>6. QED  BY <2>3, <2>4, <2>5
<1>4. SecretInv'  BY <1>1, <1>3 DEF SecretInv, Past
<1>5. QED  BY <1>2, <1>4 DEF LockInv

LEMMA RefreshStepLock ==
  ASSUME Locks, TypeOK, LockInv, NEW t \in Tabs, RefreshStep(t)
  PROVE  LockInv'
<1>0. run[t] \in Refreshes  BY TabType
<1>1. ASSUME NEW current, Arrives(t, current), NEW outcome, NEW b, NEW state,
             EndWith(t, outcome, b, state)
      PROVE  LockInv'
  <2>1. run' = [run EXCEPT ![t] = NoRun] /\ reused' = reused /\ lossy' = lossy
    BY <1>1 DEF EndWith, End, history
  <2>2. run'[t] = NoRun /\ \A u \in Tabs \ {t} : run'[u] = run[u]  BY <2>1 DEF TypeOK
  <2>3. run'[t].at # "replied"  BY <2>2 DEF NoRun
  <2>4. QED  BY <1>1, <2>1, <2>2, <2>3, ArrivalKeeps
<1>2. CASE Request(t)
  <2>1. CASE IsCurrent(t) /\ Send(t, run[t], held[t].sid)
    <3>1. \A u \in Tabs \ {t} : ~Past(u)
      <4>1. CASE run[t].at = "wait"  BY <4>1 DEF LockInv, Alone, Past
      <4>2. CASE MayRequest(t)  BY <4>2 DEF MayRequest, Past
      <4>3. QED  BY <1>2, <4>1, <4>2 DEF Request
    <3>2. run[t].at # "replied"  BY <1>2 DEF Request
    <3>3. QED  BY <1>0, <2>1, <3>1, <3>2, RequestKeeps
  <2>2. CASE UNCHANGED <<cookie, inbox>> /\ EndWith(t, "superseded", held[t], boot[t])
    <3>1. run' = [run EXCEPT ![t] = NoRun] /\ reused' = reused /\ lossy' = lossy /\ cookie' = cookie
      BY <2>2 DEF EndWith, End, history
    <3>2. run'[t].at = "off" /\ \A u \in Tabs \ {t} : run'[u] = run[u]
      BY <3>1 DEF TypeOK, NoRun
    <3>3. run[t].at # "replied"  BY <1>2 DEF Request
    <3>4. Quiet  BY <3>1, <3>2, <3>3 DEF Quiet
    <3>5. QED  BY <3>4, QuietKeeps
  <2>3. QED  BY <1>2, <2>1, <2>2 DEF Request
<1>3. CASE Superseded(t)  BY <1>1, <1>3 DEF Superseded
<1>4. CASE Accept(t)  BY <1>1, <1>4 DEF Accept
<1>5. CASE RetryRace(t)
  <2>1. Arrives(t, TRUE) /\ run' = [run EXCEPT ![t] = NextRace(run[t])]
          /\ reused' = reused /\ lossy' = lossy
    BY <1>5 DEF RetryRace, history
  <2>2. run'[t] = NextRace(run[t]) /\ \A u \in Tabs \ {t} : run'[u] = run[u]
    BY <2>1 DEF TypeOK
  <2>3. run'[t].at # "replied"  BY <1>0, <2>2 DEF NextRace, Refreshes
  <2>4. QED  BY <2>1, <2>2, <2>3, ArrivalKeeps
<1>6. CASE RetryMismatch(t)
  <2> DEFINE x == [run[t] EXCEPT !.race = 0, !.retry = FALSE]
  <2>1. x \in Refreshes
    <3>1. 0 \in 0..MaxRaces  BY Bounds
    <3>2. QED  BY <1>0, <3>1 DEF Refreshes
  <2> HIDE DEF x
  <2>2. Send(t, x, None) /\ run[t].at = "replied" /\ run[t].reply.kind = "mismatch"
    BY <1>6 DEF RetryMismatch, x
  <2>3. \A u \in Tabs \ {t} : ~Past(u)  BY <2>2 DEF LockInv, Alone, Past
  <2>4. QED  BY <2>1, <2>2, <2>3, RequestKeeps
<1>7. CASE GiveUp(t)  BY <1>1, <1>7 DEF GiveUp
<1>8. CASE Unauthorized(t)  BY <1>1, <1>8 DEF Unauthorized
<1>9. CASE Transient(t)  BY <1>1, <1>9 DEF Transient
<1>10. QED
  BY <1>2, <1>3, <1>4, <1>5, <1>6, <1>7, <1>8, <1>9, RefreshStep(t) DEF RefreshStep

\* Starting a refresh or superseding one touches no answer.
LEMMA QuietRun ==
  ASSUME TypeOK, NEW t \in Tabs,
         UNCHANGED run \/ Start(t) \/ run' = [run EXCEPT ![t] = Outdated(t)],
         reused' = reused, lossy' = lossy, cookie' = cookie \/ cookie'.age = 0
  PROVE  Quiet
<1>1. CASE UNCHANGED run  BY <1>1 DEF Quiet
<1>2. CASE Start(t)
  <2>1. [NoRun EXCEPT !.at = "queued"].at = "queued"  BY DEF NoRun
  <2>2. QED  BY <1>2, <2>1 DEF Quiet, Start, TypeOK
<1>3. CASE run' = [run EXCEPT ![t] = Outdated(t)]
  <2>1. Outdated(t).at = run[t].at /\ Outdated(t).reply = run[t].reply  BY OutdatedType
  <2>2. QED  BY <1>3, <2>1 DEF Quiet, TypeOK
<1>4. QED  BY <1>1, <1>2, <1>3

LEMMA NewPageLock ==
  ASSUME TypeOK, LockInv, NEW t \in Tabs, NewPage(t)
  PROVE  LockInv'
<1>1. /\ run' = [run EXCEPT ![t] = NoRun] /\ reused' = reused /\ cookie' = cookie
      /\ lossy' = (lossy \/ run[t].at = "replied")
  BY DEF NewPage
<1>2. run'[t].at = "off" /\ \A u \in Tabs \ {t} : run'[u] = run[u]  BY <1>1 DEF TypeOK, NoRun
<1>3. CASE run[t].at = "replied"  BY <1>1, <1>2, <1>3, LossKeeps
<1>4. CASE run[t].at # "replied"
  <2>1. lossy => lossy'  BY <1>1
  <2>2. Quiet  BY <1>1, <1>2, <1>4, <2>1 DEF Quiet
  <2>3. QED  BY <2>2, QuietKeeps
<1>5. QED  BY <1>3, <1>4

LEMMA NextLock ==
  ASSUME Locks, TypeOK, LockInv, [Next]_vars
  PROVE  LockInv'
<1>1. CASE UNCHANGED vars
  <2>1. Quiet  BY <1>1 DEF Quiet, vars, browser, requests, history
  <2>2. QED  BY <2>1, QuietKeeps
<1>2. ASSUME NEW s \in Sids, Revoke(s) PROVE LockInv'
  <2>1. Quiet  BY <1>2 DEF Revoke, Quiet, browser, requests, history
  <2>2. QED  BY <2>1, QuietKeeps
<1>3. ASSUME NEW t \in Tabs, UserStep(t) \/ CallStep(t) PROVE LockInv'
  <2>0. reused' = reused /\ lossy' = lossy
    BY <1>3 DEF UserStep, CallStep, Bootstrap, FreshHeaders, Call, SignOut, AuthLogout, Rotate,
                Login, CallReply, CallReplyAgain, history
  <2>1. UNCHANGED run \/ Start(t) \/ run' = [run EXCEPT ![t] = Outdated(t)]
    BY <1>3 DEF UserStep, CallStep, Bootstrap, FreshHeaders, Call, SignOut, AuthLogout, Rotate,
                Login, CallReply, CallReplyAgain, Clear, Apply
  <2>2. cookie' = cookie \/ cookie'.age = 0
    <3>1. ASSUME NEW s \in Sids, Login(t, s) PROVE cookie'.age = 0  BY <3>1 DEF Login
    <3>2. CASE ~\E s \in Sids : Login(t, s)
      BY <1>3, <3>2 DEF UserStep, CallStep, Bootstrap, FreshHeaders, Call, SignOut, AuthLogout,
                        Rotate, CallReply, CallReplyAgain, browser
    <3>3. QED  BY <3>1, <3>2
  <2>3. QED  BY <2>0, <2>1, <2>2, QuietRun, QuietKeeps
<1>4. ASSUME NEW t \in Tabs,
             \/ Expire(t) \/ ApplyRotation(t) \/ LogoutMismatch(t) \/ LogoutAgain(t) \/ LogoutDone(t)
      PROVE  LockInv'
  <2>0. reused' = reused /\ lossy' = lossy
    BY <1>4 DEF Expire, ApplyRotation, LogoutMismatch, LogoutAgain, LogoutDone, AuthLogout, history
  <2>1. UNCHANGED run \/ Start(t) \/ run' = [run EXCEPT ![t] = Outdated(t)]
    BY <1>4 DEF Expire, ApplyRotation, LogoutMismatch, LogoutAgain, LogoutDone, AuthLogout,
                Clear, Apply, requests
  <2>2. cookie' = cookie \/ cookie'.age = 0
    <3>1. CASE LogoutDone(t)  BY <3>1 DEF LogoutDone, NoCookie
    <3>2. CASE ~LogoutDone(t)
      BY <1>4, <3>2 DEF Expire, ApplyRotation, LogoutMismatch, LogoutAgain, AuthLogout, browser
    <3>3. QED  BY <3>1, <3>2
  <2>3. QED  BY <2>0, <2>1, <2>2, QuietRun, QuietKeeps
<1>5. ASSUME NEW t \in Tabs, LoseReply(t) PROVE LockInv'
  <2>1. run' = [run EXCEPT ![t] = [run[t] EXCEPT !.reply = [NoReply EXCEPT !.kind = "error"]]]
          /\ lossy' = TRUE
    BY <1>5 DEF LoseReply
  <2>2. \A u \in Tabs : run'[u].at = run[u].at  BY <2>1, TabType DEF TypeOK, Refreshes
  <2>3. QED  BY <2>1, <2>2, LossKeeps
<1>6. ASSUME NEW t \in Tabs, Deliver(t) PROVE LockInv'
  <2>1. \/ NewPage(t)
        \/ /\ run' = [run EXCEPT ![t] = Outdated(t)] \/ UNCHANGED run
           /\ reused' = reused /\ lossy' = lossy /\ cookie' = cookie
    BY <1>6 DEF Deliver, Apply, history
  <2>2. QED  BY <2>1, NewPageLock, QuietRun, QuietKeeps
<1>7. ASSUME NEW t \in Tabs, Reload(t) PROVE LockInv'  BY <1>7, NewPageLock DEF Reload
<1>8. CASE Next
  BY <1>2, <1>3, <1>4, <1>5, <1>6, <1>7, <1>8, RefreshStepLock DEF Next
<1>9. QED  BY <1>1, <1>8

\* In a browser with navigator.locks the server revokes no session for a replayed secret
\* unless an answer was lost, however many tabs refresh, sign in and sign out
\* (performRefreshWithBrowserLock).
THEOREM ReplayNeedsLoss ==
  ASSUME Locks
  PROVE  Spec => []NoFalseReplay
<1>1. TypeOK /\ LockInv /\ [Next]_vars => LockInv'  BY NextLock, Locks
<1>2. LockInv => NoFalseReplay  BY DEF LockInv, SecretInv, NoFalseReplay
<1>3. QED  BY <1>1, <1>2, InitLock, TypeCorrect, PTL DEF Spec
=============================================================================
