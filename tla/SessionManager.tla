--------------------------- MODULE SessionManager ---------------------------
(***************************************************************************)
(* Sessions, from internal/session: the manager and its in-memory store,   *)
(* the requests that load, create, authenticate and destroy a session (the *)
(* middleware, login, logout and the single sign-on of internal/server),   *)
(* the reaper and the shutdown of the server.                              *)
(*                                                                         *)
(* A session object is named by its id: ids are random, and an object has  *)
(* one id for its whole life.  A request keeps the object it was given by  *)
(* the middleware, whatever becomes of it in the store.                    *)
(***************************************************************************)
EXTENDS Naturals, Sequences, FiniteSets, SequencesExt, Lists

CONSTANTS
    Requests,       \* requests that may be under way at once
    MaxSessions,    \* maxSessions, the capacity of the store
    MaxStarts,      \* bound: sessions made by Start
    MaxLogins,      \* bound: connections opened by logins
    MaxHandshakes   \* bound: single sign-on handshakes begun

ASSUME ManagerAssumption ==
    /\ MaxSessions \in Nat \ {0}
    /\ MaxStarts \in Nat /\ MaxLogins \in Nat /\ MaxHandshakes \in Nat
    /\ {"reaper", "shutdown"} \cap Requests = {}

VARIABLES
    gated,      \* whether an identity provider is configured; never changes
    made,       \* sessions made by Start: 1 .. made
    preAuth,    \* memStore.preAuth, the ids of sessions without a payload, oldest first
    auth,       \* memStore.auth, those with a payload
    app,        \* Session.app: the payload (a login), 0 for nil
    sso,        \* Session.sso: the pending handshake and the verified identity
    stale,      \* sessions past a timeout
    opened,     \* payloads made by logins: 1 .. opened
    closes,     \* how often each payload was closed
    minted,     \* handshakes begun: 1 .. minted
    req,        \* where each request stands, and what it holds
    removed,    \* sessions out of the store that an actor has yet to close
    phase,      \* of the shutdown
    cut,        \* the drain timed out: the contexts of all requests are cancelled
    exchanged,  \* history: how often a handshake reached the provider
    denied      \* history: sessions whose last callback was turned away

sessionVars == <<made, preAuth, auth, app, stale>>
ssoVars     == <<sso, minted, exchanged, denied>>
poolVars    == <<opened, closes>>
downVars    == <<phase, cut>>
vars == <<gated, sessionVars, ssoVars, poolVars, req, removed, downVars>>

Starts     == 1 .. MaxStarts
Logins     == 1 .. MaxLogins
Ids        == 1 .. MaxStarts + MaxLogins
Minted(p)  == MaxStarts + p     \* the session Authenticate makes for login p
Handshakes == 1 .. MaxHandshakes
Actors     == Requests \cup {"reaper", "shutdown"}

NoSSO  == [pending |-> 0, subject |-> 0]
Idle   == [at |-> "idle", s |-> 0, p |-> 0, h |-> 0, sso |-> NoSSO]
Stored == ToSet(preAuth) \cup ToSet(auth)

Init ==
    /\ gated \in BOOLEAN
    /\ made = 0 /\ preAuth = <<>> /\ auth = <<>> /\ stale = {}
    /\ app = [s \in Ids |-> 0] /\ sso = [s \in Ids |-> NoSSO]
    /\ opened = 0 /\ closes = [p \in Logins |-> 0]
    /\ minted = 0 /\ exchanged = [h \in Handshakes |-> 0] /\ denied = {}
    /\ req = [r \in Requests |-> Idle]
    /\ removed = [a \in Actors |-> {}]
    /\ phase = "serving" /\ cut = FALSE

At(r, place) == req[r].at = place /\ removed[r] = {}
Goes(r, place) == req' = [req EXCEPT ![r].at = place]
Ends(r) == req' = [req EXCEPT ![r] = Idle]

-----------------------------------------------------------------------------
(* The store *)

\* A mutation of TakeOut: the entry of the list of authenticated sessions stays.
TakeOutPreAuth(gone) ==
    /\ preAuth' = Omit(preAuth, gone)
    /\ UNCHANGED auth

TakeOut(gone) ==
    /\ preAuth' = Omit(preAuth, gone)
    /\ auth' = Omit(auth, gone)

\* A mutation of Victims: the capacity is noticed one session late.
VictimsLate ==
    IF Len(preAuth) + Len(auth) <= MaxSessions THEN {}
    ELSE IF preAuth # <<>> THEN {Head(preAuth)}
    ELSE {Head(auth)}

\* The session a full store gives up for a new one: the oldest without a
\* payload, or when all have one, the oldest.
Victims ==
    IF Len(preAuth) + Len(auth) < MaxSessions THEN {}
    ELSE IF preAuth # <<>> THEN {Head(preAuth)}
    ELSE {Head(auth)}

Save(s) ==
    /\ preAuth' = Append(Omit(preAuth, Victims), s)
    /\ auth' = Omit(auth, Victims)

\* A mutation of Member: a login does not look for its session again.
MemberAlways(s) == TRUE

\* Whether Replace still finds the very object the login was given.
Member(s) == s \in Stored

Replace(old, new) ==
    /\ preAuth' = Omit(preAuth, {old})
    /\ auth' = Append(Omit(auth, {old}), new)

\* A mutation of CloseSession: the session does not forget what it has closed.
CloseSessionAgain(s) ==
    /\ UNCHANGED app
    /\ closes' = IF app[s] = 0 THEN closes ELSE [closes EXCEPT ![app[s]] = @ + 1]

\* Session.close, by whoever took the session out of the store: the payload is
\* closed unless it has been, and the session forgets it.
CloseSession(s) ==
    /\ app' = [app EXCEPT ![s] = 0]
    /\ closes' = IF app[s] = 0 THEN closes ELSE [closes EXCEPT ![app[s]] = @ + 1]

CloseRemoved(a) ==
    /\ \E s \in removed[a] :
           /\ CloseSession(s)
           /\ removed' = [removed EXCEPT ![a] = @ \ {s}]
    /\ UNCHANGED <<gated, made, preAuth, auth, stale, ssoVars, opened, req, downVars>>

-----------------------------------------------------------------------------
(* The middleware: a request presents a cookie *)

\* Time passes a session's idle or absolute timeout.
Age(s) ==
    /\ s \in Stored \ stale /\ phase \in {"serving", "draining"}
    /\ stale' = stale \cup {s}
    /\ UNCHANGED <<gated, made, preAuth, auth, app, ssoVars, poolVars, req, removed, downVars>>

\* Load finds a session that is not past its timeouts.
LoadHit(r, s) ==
    /\ phase = "serving" /\ At(r, "idle") /\ s \in Stored \ stale
    /\ req' = [req EXCEPT ![r] = [Idle EXCEPT !.at = "routed", !.s = s]]
    /\ UNCHANGED <<gated, sessionVars, ssoVars, poolVars, removed, downVars>>

\* Load finds nothing, for there is no cookie or the session has gone.
LoadMiss(r) ==
    /\ phase = "serving" /\ At(r, "idle")
    /\ Goes(r, "start")
    /\ UNCHANGED <<gated, sessionVars, ssoVars, poolVars, removed, downVars>>

\* Load finds a session past a timeout, deletes it, and closes it after that.
LoadExpired(r, s) ==
    /\ phase = "serving" /\ At(r, "idle") /\ s \in Stored \cap stale
    /\ TakeOut({s})
    /\ removed' = [removed EXCEPT ![r] = {s}]
    /\ Goes(r, "start")
    /\ UNCHANGED <<gated, made, app, stale, ssoVars, poolVars, downVars>>

\* Start creates a session, and the store evicts another for it if it is full.
Start(r) ==
    /\ At(r, "start") /\ made < MaxStarts
    /\ made' = made + 1
    /\ Save(made + 1)
    /\ removed' = [removed EXCEPT ![r] = Victims]
    /\ req' = [req EXCEPT ![r].at = "routed", ![r].s = made + 1]
    /\ UNCHANGED <<gated, app, stale, ssoVars, poolVars, downVars>>

\* Admit declines the creation; or the request asks for nothing modelled here.
Leave(r) ==
    /\ At(r, "start") \/ At(r, "routed")
    /\ Ends(r)
    /\ UNCHANGED <<gated, sessionVars, ssoVars, poolVars, removed, downVars>>

Verified(s) == sso[s].subject # 0

-----------------------------------------------------------------------------
(* Login and logout *)

\* The connection is dialled for a request without a payload that has passed
\* the gate; its context must not have been cancelled.
Dial(r) ==
    /\ At(r, "routed") /\ opened < MaxLogins /\ ~cut
    /\ gated => Verified(req[r].s)
    /\ app[req[r].s] = 0
    /\ opened' = opened + 1
    /\ req' = [req EXCEPT ![r].at = "connected", ![r].p = opened + 1]
    /\ UNCHANGED <<gated, sessionVars, ssoVars, closes, removed, downVars>>

\* Authenticate makes the new session and reads the identity it carries over.
AuthenticateRead(r) ==
    /\ At(r, "connected")
    /\ req' = [req EXCEPT ![r].at = "replace", ![r].sso = sso[req[r].s]]
    /\ UNCHANGED <<gated, sessionVars, ssoVars, poolVars, removed, downVars>>

\* ... which takes the place of the one the login came with.
AuthenticateReplace(r) ==
    LET old == req[r].s
        new == Minted(req[r].p) IN
    /\ At(r, "replace") /\ Member(old)
    /\ Replace(old, new)
    /\ app' = [app EXCEPT ![new] = req[r].p]
    /\ sso' = [sso EXCEPT ![new] = [NoSSO EXCEPT !.subject = req[r].sso.subject]]
    /\ removed' = [removed EXCEPT ![r] = {old}]
    /\ Ends(r)
    /\ UNCHANGED <<gated, made, stale, minted, exchanged, denied, poolVars, downVars>>

\* The session has gone in the meantime: the login closes what it opened.
AuthenticateFail(r) ==
    /\ At(r, "replace") /\ ~Member(req[r].s)
    /\ closes' = [closes EXCEPT ![req[r].p] = @ + 1]
    /\ Ends(r)
    /\ UNCHANGED <<gated, sessionVars, ssoVars, opened, removed, downVars>>

\* Destroy deletes the session the request was given, and closes it after that.
Logout(r) ==
    LET s == req[r].s IN
    /\ At(r, "routed")
    /\ TakeOut({s})
    /\ removed' = [removed EXCEPT ![r] = {s}]
    /\ Ends(r)
    /\ UNCHANGED <<gated, made, app, stale, ssoVars, poolVars, downVars>>

-----------------------------------------------------------------------------
(* Single sign-on *)

\* A handshake is minted and what the session holds is read ...
SSOStart(r) ==
    /\ gated /\ At(r, "routed") /\ minted < MaxHandshakes
    /\ minted' = minted + 1
    /\ req' = [req EXCEPT ![r].at = "begin", ![r].h = minted + 1, ![r].sso = sso[req[r].s]]
    /\ UNCHANGED <<gated, sessionVars, sso, exchanged, denied, poolVars, removed, downVars>>

\* ... and written back together with the handshake.
SSOBegin(r) ==
    /\ At(r, "begin")
    /\ sso' = [sso EXCEPT ![req[r].s] = [pending |-> req[r].h, subject |-> req[r].sso.subject]]
    /\ Ends(r)
    /\ UNCHANGED <<gated, sessionVars, minted, exchanged, denied, poolVars, removed, downVars>>

\* A mutation of SSOConsume: the handshake is left to be overwritten later.
SSOConsumeLater(r, h) ==
    LET s == req[r].s IN
    /\ gated /\ At(r, "routed") /\ h \in 1 .. minted /\ sso[s].pending = h
    /\ exchanged' = [exchanged EXCEPT ![h] = @ + 1]
    /\ req' = [req EXCEPT ![r].at = "exchange", ![r].h = h]
    /\ UNCHANGED <<gated, sessionVars, minted, sso, denied, poolVars, removed, downVars>>

\* A callback with the state of a handshake: ConsumeSSOHandshake compares and
\* clears in one section, and the exchange follows.  Any other callback leaves
\* the session as it is.
SSOConsume(r, h) ==
    LET s == req[r].s IN
    /\ gated /\ At(r, "routed") /\ h \in 1 .. minted /\ sso[s].pending = h
    /\ sso' = [sso EXCEPT ![s].pending = 0]
    /\ exchanged' = [exchanged EXCEPT ![h] = @ + 1]
    /\ req' = [req EXCEPT ![r].at = "exchange", ![r].h = h]
    /\ UNCHANGED <<gated, sessionVars, minted, denied, poolVars, removed, downVars>>

\* The provider refuses, or the identity is not one this deployment permits.
SSODeny(r) ==
    /\ At(r, "exchange")
    /\ sso' = [sso EXCEPT ![req[r].s] = NoSSO]
    /\ denied' = denied \cup {req[r].s}
    /\ Ends(r)
    /\ UNCHANGED <<gated, sessionVars, minted, exchanged, poolVars, removed, downVars>>

SSOVerify(r) ==
    /\ At(r, "exchange")
    /\ sso' = [sso EXCEPT ![req[r].s] = [NoSSO EXCEPT !.subject = req[r].h]]
    /\ denied' = denied \ {req[r].s}
    /\ Ends(r)
    /\ UNCHANGED <<gated, sessionVars, minted, exchanged, poolVars, removed, downVars>>

-----------------------------------------------------------------------------
(* The reaper and the shutdown *)

\* A mutation of Reap: the list of authenticated sessions is not looked at.
ReapPreAuth ==
    /\ phase \in {"serving", "draining"} /\ removed["reaper"] = {}
    /\ ToSet(preAuth) \cap stale # {}
    /\ TakeOut(stale \ ToSet(auth))
    /\ removed' = [removed EXCEPT !["reaper"] = ToSet(preAuth) \cap stale]
    /\ UNCHANGED <<gated, made, app, stale, ssoVars, poolVars, req, downVars>>

Reap ==
    /\ phase \in {"serving", "draining"} /\ removed["reaper"] = {}
    /\ Stored \cap stale # {}
    /\ TakeOut(stale)
    /\ removed' = [removed EXCEPT !["reaper"] = Stored \cap stale]
    /\ UNCHANGED <<gated, made, app, stale, ssoVars, poolVars, req, downVars>>

\* http.Server.Shutdown: no new requests; those under way are waited for.
Drain ==
    /\ phase = "serving"
    /\ phase' = "draining"
    /\ UNCHANGED <<gated, sessionVars, ssoVars, poolVars, req, removed, cut>>

Quiet == \A r \in Requests : At(r, "idle")

\* Manager.Shutdown, when all have ended or the wait has timed out: every
\* session is taken out of the store, to be closed one after the other.
Shutdown ==
    /\ phase = "draining"
    /\ phase' = "closing"
    /\ cut' = ~Quiet
    /\ TakeOut(Stored)
    /\ removed' = [removed EXCEPT !["shutdown"] = Stored]
    /\ UNCHANGED <<gated, made, app, stale, ssoVars, poolVars, req>>

\* The metadata database and the audit trail are closed after the sessions.
ShutdownDone ==
    /\ phase = "closing" /\ removed["shutdown"] = {}
    /\ phase' = "down"
    /\ UNCHANGED <<gated, sessionVars, ssoVars, poolVars, req, removed, cut>>

-----------------------------------------------------------------------------
(* The specification *)

Handles(r) ==
    \/ LoadMiss(r) \/ Start(r) \/ Leave(r)
    \/ \E s \in Ids : LoadHit(r, s) \/ LoadExpired(r, s)
    \/ Dial(r) \/ AuthenticateRead(r) \/ AuthenticateReplace(r) \/ AuthenticateFail(r)
    \/ Logout(r)
    \/ SSOStart(r) \/ SSOBegin(r)
    \/ (\E h \in Handshakes : SSOConsume(r, h)) \/ SSODeny(r) \/ SSOVerify(r)

ShutsDown == Drain \/ Shutdown \/ ShutdownDone

\* The process has exited, or its last request has.
Stopped == phase = "down" /\ Quiet /\ UNCHANGED vars

Next ==
    \/ \E s \in Ids : Age(s)
    \/ \E r \in Requests : Handles(r)
    \/ \E a \in Actors : CloseRemoved(a)
    \/ Reap \/ ShutsDown \/ Stopped

Spec == Init /\ [][Next]_vars

\* The reaper's ticker keeps firing until the shutdown stops it, and the reaper
\* closes what it has taken out.  Nobody has to log in or out, nor to present a
\* cookie that has expired.
Fairness == WF_vars(Reap \/ CloseRemoved("reaper"))

FairSpec == Spec /\ Fairness

-----------------------------------------------------------------------------
(* Properties *)

SSOStates == [pending : 0 .. MaxHandshakes, subject : 0 .. MaxHandshakes]
RequestStates ==
    [at : {"idle", "start", "routed", "connected", "replace", "begin", "exchange"},
     s : 0 .. MaxStarts + MaxLogins, p : 0 .. MaxLogins, h : 0 .. MaxHandshakes,
     sso : SSOStates]

\* The types, with the capacity of the store.
TypeOK ==
    /\ gated \in BOOLEAN
    /\ made \in 0 .. MaxStarts /\ opened \in 0 .. MaxLogins /\ minted \in 0 .. MaxHandshakes
    /\ preAuth \in Seq(Starts) /\ auth \in Seq(Ids) /\ Len(preAuth) + Len(auth) <= MaxSessions
    /\ app \in [Ids -> 0 .. MaxLogins] /\ sso \in [Ids -> SSOStates]
    /\ stale \subseteq Ids /\ denied \subseteq Ids
    /\ closes \in [Logins -> Nat] /\ exchanged \in [Handshakes -> Nat]
    /\ req \in [Requests -> RequestStates]
    /\ removed \in [Actors -> SUBSET Ids]
    /\ phase \in {"serving", "draining", "closing", "down"} /\ cut \in BOOLEAN

\* Who has to see to it that payload p is closed.
Custodian(p) ==
    IF closes[p] > 1 THEN "closed twice"
    ELSE IF closes[p] = 1 THEN "closed"
    ELSE IF \E s \in ToSet(auth) : app[s] = p THEN "session"
    ELSE IF \E a \in Actors : \E s \in removed[a] : app[s] = p THEN "closer"
    ELSE IF \E r \in Requests : req[r].p = p THEN "login"
    ELSE IF p > opened THEN "nobody"
    ELSE "lost"

\* Logouts, expiry, the reaper, evictions, logins that come late and the
\* shutdown together close every payload once and lose none (session.go:131:
\* "close runs the close function once").
CustodyOf == INSTANCE Custody WITH Payloads <- Logins, holder <- [p \in Logins |-> Custodian(p)]
ImplementsCustody == CustodyOf!Spec

\* What a request finds in the store can be used: a session of the list of
\* authenticated ones has its payload, which has not been closed, and one that
\* has none is in the list that evictions take from first.
StoredAreUsable ==
    /\ \A s \in ToSet(auth) : app[s] # 0 /\ closes[app[s]] = 0
    /\ \A s \in ToSet(preAuth) : app[s] = 0

\* No handshake reaches the provider twice, whatever callbacks present its
\* state, and whichever session a login has carried things over to
\* (ConsumeSSOHandshake: "exactly one caller can win").
HandshakeOnce == \A h \in Handshakes : exchanged[h] <= 1

\* Once the server is down no session holds a payload, nor can one get it: a
\* login past the drain deadline finds its session gone.  When the drain did
\* not time out, nothing is left open but what the reaper, which nobody waits
\* for, is about to close (server.go:376).
NothingOutlivesShutdown ==
    phase = "down" =>
        /\ Stored \cap {s \in Ids : app[s] # 0} = {}
        /\ ~cut => \A p \in 1 .. opened :
               closes[p] = 1 \/ \E s \in removed["reaper"] : app[s] = p

\* A session whose identity the provider or the allowlist has turned away is not
\* let through the gate before a callback that admits it (sso.go:87).
DenialStands == \A s \in denied : ~Verified(s)

\* A session past its timeout leaves the store though no request asks for it,
\* by the reaper or by the shutdown that stops the reaper.
ExpiredLeave ==
    \A s \in Ids :
        s \in Stored \cap stale /\ phase \in {"serving", "draining"} ~> s \notin Stored
=============================================================================
