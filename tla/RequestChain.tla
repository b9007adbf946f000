---------------------------- MODULE RequestChain ----------------------------
(***************************************************************************)
(* A request on its way through the middleware, and out again.             *)
(*                                                                         *)
(* chain nests recover, logging, gzip, the session, the import admission,  *)
(* csrf, ssoGate, authGate and restrict around the router. A layer passes  *)
(* the request on, answers it, or panics; what it deferred then runs from  *)
(* the inside out: slots are given back, the gzip stream is ended or left  *)
(* torn, the request is counted and recorded in the audit trail, and a     *)
(* panic is answered with 500 if nothing was. Requests run concurrently    *)
(* and share the two semaphores, the gauge and the payload of a session,   *)
(* which a logout takes away from the requests under way.                  *)
(***************************************************************************)
EXTENDS Naturals, Sequences, FiniteSets, Lists

CONSTANTS
    Requests,
    SlotCap       \* semaphore -> max_concurrent_imports, max_concurrent_db_ops; 0 is no limit

ASSUME ChainAssumption ==
    /\ IsFiniteSet(Requests)
    /\ SlotCap \in [{"import", "dbop"} -> Nat]

VARIABLES
    req,      \* request -> [route, htmx, token, cookie, db]
    site,     \* the configuration: [sso, refused]
    layer,       \* request -> the layer it is in
    obj,      \* request -> its session object, "none" when there is none
    live,     \* the logged-in session has its payload
    wire,   \* request -> the status written, 0 when none was
    verdict,  \* request -> the outcome a layer has set in audit.Pending
    who,      \* request -> the identity in audit.Pending
    owed,     \* request -> the slots its deferred calls will give back
    inUse,    \* semaphore -> slots taken
    gauge,    \* requests in flight
    counted,  \* request -> the status metrics.observe was told, 0 before
    stream,   \* request -> its gzip stream: "none", "open", "ended", "torn"
    crashed,  \* the requests a panic unwinds
    parsed,   \* the requests whose body has been read
    did,      \* the requests that did what they ask for
    answeredBy,  \* request -> the layer that answered it
    trail     \* request -> the events emitted for it

qvars == <<req, site, layer, obj, live, wire, verdict, who, owed, inUse, gauge,
           counted, stream, crashed, parsed, did, answeredBy, trail>>

\* What only the first layers and the way out change.
outer == <<req, site, obj, who, gauge, counted, crashed>>

Route(r) == req[r].route

\* The route table. What it does not list is the GET of a page.
Unsafe == {"login", "logout", "import", "sql", "export", "rows", "ddl", "program", "unknown"}
Public == {"login", "loginform", "logout", "sso", "metrics"}
Routes == Unsafe \cup Public \cup {"page"}

\* needFor: a route the table does not know needs what an unsafe one may need.
Need(route) == {n \in {"write", "console", "ddl"} :
    CASE n = "write"   -> route \in Unsafe \ {"login", "logout", "export"}
      [] n = "console" -> route \in {"import", "sql"}
      [] n = "ddl"     -> route \in {"ddl", "program", "unknown"}}

\* requestAuthed, currentUser: the payload of the session, read when asked.
Authed(r) == obj[r] = "live" /\ live

TokenMatches(r) == req[r].token /\ obj[r] \in {"pre", "live"}

OutcomeForStatus(code) ==
    IF code \in {401, 403} THEN "denied"
    ELSE IF code >= 500 THEN "error" ELSE IF code >= 400 THEN "invalid" ELSE "ok"

Record(r, kind, o, w) ==
    trail' = [trail EXCEPT ![r] = Append(@, [kind |-> kind, outcome |-> o, who |-> w])]

(***************************************************************************)
(* How a layer ends                                                        *)
(***************************************************************************)
Pass(r, to) == layer' = [layer EXCEPT ![r] = to]

Write_(r, code) == wire' = [wire EXCEPT ![r] = code] /\ answeredBy' = [answeredBy EXCEPT ![r] = layer[r]]
Reply(r, code) == Write_(r, code) /\ Pass(r, "out")

Set(r, o) == verdict' = [verdict EXCEPT ![r] = o]

\* renderError after SetOutcome(o), or with none of its own when o is "none": what a layer has
\* said of the outcome stays, and an htmx page is swapped at 200.
RenderError(r, code, o) ==
    /\ Set(r, IF o # "none" THEN o
              ELSE IF verdict[r] # "none" THEN verdict[r] ELSE OutcomeForStatus(code))
    /\ Reply(r, IF req[r].htmx THEN 200 ELSE code)

\* RenderCapacityRefusal, acquireDBOp: a refusal for capacity. Without a session
\* an htmx request gets the real status.
RefuseCapacity(r, code) ==
    IF req[r].htmx /\ ~Authed(r) THEN Set(r, "denied") /\ Reply(r, code)
    ELSE RenderError(r, code, "denied")

\* redirectToLogin, and ssoGate's way to the provider.
SendAway(r, code) == Reply(r, IF req[r].htmx THEN code ELSE 303) /\ UNCHANGED verdict

\* loginErrorStatus: the one place a rejected login is recorded, before the
\* page is rendered.
RejectLogin(r, code) ==
    /\ Record(r, "auth", "denied", "none")
    /\ Write_(r, IF req[r].htmx THEN 200 ELSE code)
    /\ Pass(r, "recorded")
    /\ UNCHANGED verdict

\* NewDBOpLimiter, DBOpLimiter.TryAcquire: a limit of 0 is none, and holds no slot;
\* the release it returns is deferred.
Unlimited(sem) == SlotCap[sem] = 0
Acquire(r, sem) ==
    \/ Unlimited(sem) /\ UNCHANGED <<inUse, owed>>
    \/ /\ inUse[sem] < SlotCap[sem]
       /\ inUse' = [inUse EXCEPT ![sem] = @ + 1]
       /\ owed' = [owed EXCEPT ![r] = @ \cup {sem}]
Exhausted(sem) == ~Unlimited(sem) /\ inUse[sem] = SlotCap[sem]

(***************************************************************************)
(* The layers on the way in                                                *)
(***************************************************************************)
QInit(configs, demands) ==
    /\ site \in configs /\ req \in demands
    /\ layer = [r \in Requests |-> IF req[r].route = "none" THEN "done" ELSE "new"]
    /\ obj = [r \in Requests |-> "none"] /\ live = TRUE
    /\ wire = [r \in Requests |-> 0] /\ counted = [r \in Requests |-> 0]
    /\ verdict = [r \in Requests |-> "none"] /\ who = [r \in Requests |-> "none"]
    /\ owed = [r \in Requests |-> {}] /\ inUse = [s \in DOMAIN SlotCap |-> 0]
    /\ gauge = 0 /\ stream = [r \in Requests |-> "none"]
    /\ crashed = {} /\ parsed = {} /\ did = {}
    /\ answeredBy = [r \in Requests |-> "none"]
    /\ trail = [r \in Requests |-> <<>>]

\* recover, logging, gzip: a scrape is not among the requests it measures.
Enter(r) ==
    /\ layer[r] = "new"
    /\ gauge' = gauge + (IF Route(r) = "metrics" THEN 0 ELSE 1)
    /\ Pass(r, "session")
    /\ UNCHANGED <<req, site, obj, live, wire, answeredBy, verdict, who, owed, inUse, counted,
                   stream, crashed, parsed, did, trail>>

\* skipSession, and the SSO routes of a site that has no provider.
Sessionless(r) == Route(r) = "metrics" \/ (Route(r) = "sso" /\ site.sso = "off")

\* sessionMW, refuseSessionCreate: a request without a session is given one
\* unless its address has had too many.
Session(r) ==
    /\ layer[r] = "session"
    /\ \/ /\ Sessionless(r)
          /\ Pass(r, "admission")
          /\ UNCHANGED <<obj, who, wire, answeredBy, verdict, trail>>
       \/ /\ ~Sessionless(r)
          /\ LET known == req[r].cookie = "pre" \/ (req[r].cookie = "live" /\ live) IN
             /\ obj' = [obj EXCEPT ![r] = IF known THEN req[r].cookie ELSE "fresh"]
             /\ who' = [who EXCEPT ![r] = IF known /\ req[r].cookie = "live" THEN "user" ELSE @]
             /\ \/ Pass(r, "admission") /\ UNCHANGED <<wire, answeredBy, verdict, trail>>
                \/ /\ ~known
                   /\ RefuseCapacity(r, 429)
                   /\ IF Route(r) \in {"login", "sso"} THEN Record(r, "auth", "denied", "none")
                      ELSE UNCHANGED trail
    /\ UNCHANGED <<req, site, live, owed, inUse, gauge, counted, stream, crashed, parsed, did>>

\* importAdmission, before csrf reads the upload.
Admission(r) ==
    /\ layer[r] = "admission"
    /\ \/ ~(Authed(r) /\ Route(r) = "import") /\ Pass(r, "csrf") /\ UNCHANGED <<wire, answeredBy, verdict, owed, inUse>>
       \/ /\ Authed(r) /\ Route(r) = "import"
          /\ \/ Acquire(r, "import") /\ Pass(r, "csrf") /\ UNCHANGED <<wire, answeredBy, verdict>>
             \/ Exhausted("import") /\ RefuseCapacity(r, 503) /\ UNCHANGED <<owed, inUse>>
    /\ UNCHANGED <<outer, live, stream, parsed, did, trail>>

\* csrf: the address is charged and the request sent to the login before its
\* body is read for a token.
CSRF(r) ==
    /\ layer[r] = "csrf"
    /\ \/ Route(r) \notin Unsafe /\ Pass(r, "sso") /\ UNCHANGED <<wire, answeredBy, verdict, parsed, trail>>
       \/ Route(r) = "login" /\ ~Authed(r) /\ RejectLogin(r, 429) /\ UNCHANGED parsed
       \/ /\ Route(r) \in Unsafe \ Public /\ ~Authed(r)
          /\ SendAway(r, 401) /\ UNCHANGED <<parsed, trail>>
       \/ /\ Route(r) \in Unsafe /\ (Authed(r) \/ Route(r) \in Public)
          /\ parsed' = parsed \cup {r}
          /\ UNCHANGED verdict
          /\ \/ TokenMatches(r) /\ Pass(r, "sso") /\ UNCHANGED <<wire, answeredBy, trail>>
             \/ /\ ~TokenMatches(r)
                /\ Reply(r, 403)
                /\ IF Route(r) = "login" THEN Record(r, "auth", "denied", "none") ELSE UNCHANGED trail
    /\ UNCHANGED <<outer, live, owed, inUse, stream, did>>

\* ssoGate stands in front of the login form too.
SSOGate(r) ==
    /\ layer[r] = "sso"
    /\ \/ /\ \/ site.sso = "off" \/ Route(r) \in {"sso", "metrics", "logout"}
             \/ site.sso = "verified" /\ obj[r] \in {"pre", "live"}
          /\ Pass(r, "auth") /\ UNCHANGED <<wire, answeredBy, verdict>>
       \/ /\ site.sso # "off" /\ Route(r) \notin {"sso", "metrics", "logout"}
          /\ site.sso = "unverified" \/ obj[r] = "fresh"
          /\ SendAway(r, 200)
    /\ UNCHANGED <<outer, live, owed, inUse, stream, parsed, did, trail>>

AuthGate(r) ==
    /\ layer[r] = "auth"
    /\ \/ /\ Route(r) \in Public \/ Authed(r)
          /\ Pass(r, "restrict") /\ UNCHANGED <<wire, answeredBy, verdict>>
       \/ /\ Route(r) \notin Public /\ ~Authed(r)
          /\ SendAway(r, 401)
    /\ UNCHANGED <<outer, live, owed, inUse, stream, parsed, did, trail>>

\* What [restrict] refuses of a request: a database outside the allowlist, or
\* what its route needs.
Forbidden(r) == \/ "db" \in site.refused /\ ~req[r].db
                \/ Need(Route(r)) \cap site.refused # {}

\* restrict, refuse.
RestrictGate(r) ==
    /\ layer[r] = "restrict"
    /\ IF Route(r) \notin Public /\ Forbidden(r) THEN RenderError(r, 403, "denied")
       ELSE Pass(r, "handler") /\ UNCHANGED <<wire, answeredBy, verdict>>
    /\ UNCHANGED <<outer, live, owed, inUse, stream, parsed, did, trail>>

(***************************************************************************)
(* The handlers                                                            *)
(***************************************************************************)
\* requireUser and acquireDBOp; saveProgram refuses itself what its route
\* shares with a plain DROP.
Prepare(r) ==
    /\ layer[r] = "handler" /\ Route(r) \notin Public \cup {"unknown"}
    /\ \/ ~Authed(r) /\ Reply(r, 303) /\ UNCHANGED <<verdict, owed, inUse>>
       \/ /\ Authed(r) /\ Route(r) \in {"import", "sql", "export"}
          /\ \/ Acquire(r, "dbop") /\ Pass(r, "work") /\ UNCHANGED <<wire, answeredBy, verdict>>
             \/ Exhausted("dbop") /\ RefuseCapacity(r, 503) /\ UNCHANGED <<owed, inUse>>
       \/ /\ Authed(r) /\ Route(r) = "program" /\ "console" \in site.refused
          /\ RenderError(r, 403, "denied") /\ UNCHANGED <<owed, inUse>>
       \/ /\ Authed(r) /\ Route(r) \notin {"import", "sql", "export"}
          /\ ~(Route(r) = "program" /\ "console" \in site.refused)
          /\ Pass(r, "work") /\ UNCHANGED <<wire, answeredBy, verdict, owed, inUse>>
    /\ UNCHANGED <<outer, live, stream, parsed, did, trail>>

\* What a handler does once it may: it succeeds (a redirect, a page, or a stream
\* that is written as it goes), the form is refused or the engine fails.
Work(r) ==
    /\ layer[r] = "work"
    /\ \/ did' = did \cup {r} /\ Reply(r, 303) /\ UNCHANGED <<verdict, stream>>
       \/ did' = did \cup {r} /\ Write_(r, 200)
          /\ Pass(r, "stream") /\ stream' = [stream EXCEPT ![r] = "open"] /\ UNCHANGED verdict
       \/ RenderError(r, 400, "none") /\ UNCHANGED <<did, stream>>
       \/ \E o \in {"invalid", "error"} :  \* redirectTo, redirectFailed
              Set(r, o) /\ Reply(r, IF req[r].htmx THEN 204 ELSE 303) /\ UNCHANGED <<did, stream>>
    /\ UNCHANGED <<outer, live, owed, inUse, parsed, trail>>

StreamEnd(r) ==
    /\ layer[r] = "stream" /\ Pass(r, "out")
    /\ UNCHANGED <<outer, live, wire, answeredBy, verdict, owed, inUse, stream, parsed, did, trail>>

\* Login: one who is logged in is sent home and a form that cannot be read is
\* refused before anything is recorded; then it is rejected, or it succeeds.
Login(r) ==
    /\ layer[r] = "handler" /\ Route(r) = "login"
    /\ \/ Authed(r) /\ Reply(r, 303) /\ UNCHANGED <<verdict, who, did, trail>>
       \/ ~Authed(r) /\ RenderError(r, 400, "none") /\ UNCHANGED <<who, did, trail>>
       \/ ~Authed(r) /\ (\E code \in {401, 429} : RejectLogin(r, code)) /\ UNCHANGED <<who, did>>
       \/ /\ ~Authed(r)
          /\ who' = [who EXCEPT ![r] = "user"] /\ did' = did \cup {r}
          /\ Pass(r, "loggedin") /\ UNCHANGED <<wire, answeredBy, verdict, trail>>
    /\ UNCHANGED <<req, site, obj, gauge, counted, crashed, live, owed, inUse, stream, parsed>>

\* The event of a login follows Authenticate, and its answer the event.
LoginRecorded(r) ==
    /\ layer[r] = "loggedin"
    /\ Record(r, "auth", "ok", "user") /\ Pass(r, "recorded")
    /\ UNCHANGED <<outer, live, wire, answeredBy, verdict, owed, inUse, stream, parsed, did>>

LoginAnswered(r) ==
    /\ layer[r] = "recorded" /\ Reply(r, IF wire[r] = 0 THEN 303 ELSE wire[r])
    /\ UNCHANGED <<outer, live, verdict, owed, inUse, stream, parsed, did, trail>>

\* Logout: who is logged out is read before Destroy takes it.
Logout(r) ==
    /\ layer[r] = "handler" /\ Route(r) = "logout"
    /\ live' = (live /\ obj[r] # "live")
    /\ Record(r, "auth", "ok", IF Authed(r) THEN "user" ELSE "none")
    /\ Reply(r, 303) /\ did' = did \cup {r}
    /\ UNCHANGED <<outer, verdict, owed, inUse, stream, parsed>>

\* The rest: a login form, the SSO routes (404 when there is no provider), the
\* scrape and its refusals, and what the router does not know.
Serve(r) ==
    /\ layer[r] = "handler"
    /\ \/ Route(r) \in {"loginform", "sso"} /\ ~Sessionless(r) /\ Reply(r, 303)
       \/ Route(r) = "metrics" /\ \E code \in {200, 401, 403, 404} : Reply(r, code)
       \/ Route(r) = "unknown" /\ \E code \in {404, 405} : Reply(r, code)
       \/ Route(r) = "sso" /\ Sessionless(r) /\ Reply(r, 404)
    /\ UNCHANGED <<outer, live, verdict, owed, inUse, stream, parsed, did, trail>>

\* A bug of a handler.
Panic(r) ==
    /\ layer[r] \in {"handler", "work", "stream", "loggedin", "recorded"}
    /\ crashed' = crashed \cup {r}
    /\ Pass(r, "out")
    /\ UNCHANGED <<req, site, obj, live, wire, answeredBy, verdict, who, owed, inUse, gauge, counted,
                   stream, parsed, did, trail>>

(***************************************************************************)
(* The way out                                                             *)
(***************************************************************************)
\* The status logging reports: of a request that wrote none, 500 when it did not
\* complete.
Observed(r) == IF wire[r] # 0 THEN wire[r] ELSE IF r \in crashed THEN 500 ELSE 200

\* A mutation of Audits: a login is never recorded here.
AuditsSkipLogin(r) == Route(r) \in Unsafe \ {"login"}

\* auditAction: every unsafe request, but the login handler records its own
\* unless it has not completed.
Audits(r) == Route(r) \in Unsafe /\ (Route(r) # "login" \/ r \in crashed)

\* A mutation of GivenBack: a handler that panics keeps its slots.
GivenBackOnReturn(r) == IF r \in crashed THEN {} ELSE owed[r]

\* What the deferred releases give back, however the request ends.
GivenBack(r) == owed[r]

\* The deferred calls: release, gzip's close or abort, metrics.observe,
\* auditAction, leave, and recover's 500.
Leave(r) ==
    /\ layer[r] = "out" /\ Pass(r, "done")
    /\ inUse' = [s \in DOMAIN inUse |-> inUse[s] - (IF s \in GivenBack(r) THEN 1 ELSE 0)]
    /\ owed' = [owed EXCEPT ![r] = {}]
    /\ stream' = [stream EXCEPT ![r] =
            IF @ = "none" THEN @ ELSE IF r \in crashed THEN "torn" ELSE "ended"]
    /\ counted' = [counted EXCEPT ![r] = IF Route(r) = "metrics" THEN 0 ELSE Observed(r)]
    /\ gauge' = gauge - (IF Route(r) = "metrics" THEN 0 ELSE 1)
    /\ IF Audits(r)
       THEN Record(r, IF Route(r) = "login" THEN "auth" ELSE "action",
                 IF verdict[r] # "none" THEN verdict[r] ELSE OutcomeForStatus(Observed(r)), who[r])
       ELSE UNCHANGED trail
    /\ wire' = [wire EXCEPT ![r] = Observed(r)]
    /\ UNCHANGED <<req, site, obj, live, verdict, who, crashed, parsed, did, answeredBy>>

QNext == \E r \in Requests :
    \/ Enter(r) \/ Session(r) \/ Admission(r) \/ CSRF(r) \/ SSOGate(r) \/ AuthGate(r)
    \/ RestrictGate(r) \/ Prepare(r) \/ Work(r) \/ StreamEnd(r) \/ Login(r) \/ LoginRecorded(r)
    \/ LoginAnswered(r) \/ Logout(r) \/ Serve(r) \/ Panic(r) \/ Leave(r)

\* Any requests, under any configuration.
AnySite == [sso : {"off", "unverified", "verified"}, refused : SUBSET {"write", "console", "ddl", "db"}]
AnyDemand == [route : Routes \cup {"none"}, htmx : BOOLEAN, token : BOOLEAN,
              cookie : {"none", "pre", "live"}, db : BOOLEAN]
QSpec == QInit(AnySite, [Requests -> AnyDemand]) /\ [][QNext]_qvars

(***************************************************************************)
(* Properties                                                              *)
(***************************************************************************)
TrailEvents(kinds) == [kind : kinds, outcome : {"ok", "denied", "invalid", "error"}, who : {"none", "user"}]
EventsOf(r, kind) == Omit(trail[r], TrailEvents({"auth", "action"} \ {kind}))
Done == {r \in Requests : Route(r) # "none" /\ layer[r] = "done"}

\* Where the code lets a POST /login go unrecorded: ssoGate sends it to the provider,
\* or the handler sends it home or cannot read its form.
Unrecorded(r) == /\ r \notin crashed
                 /\ answeredBy[r] \in {"sso", "handler"}

\* Where a gate sends a request away to a login page, with a status that reads well.
SentAway(r) == \/ answeredBy[r] = "sso"
               \/ answeredBy[r] \in {"csrf", "auth", "handler"} /\ wire[r] = 303

\* Every request that may change something leaves its record (auditAction and the
\* four places that record a login): one action for all but the login, one
\* authentication event for each login that is throttled, forged, rejected or
\* succeeds, whichever layer answered and however the handler ended (a second one
\* when it panics after the first). A refusal by policy or for capacity is never
\* filed as anything but denied, work the engine did under a session is never
\* anonymous, and what did not happen reads ok only where a gate has sent the
\* request to a login page. Comments say more: LoginsLeaveEvents, RejectedNotFiledOk.
TrailIsComplete == \A r \in Done :
    LET actions == EventsOf(r, "action")
        auths   == EventsOf(r, "auth")
    IN  /\ Len(actions) = IF Route(r) \in Unsafe \ {"login"} THEN 1 ELSE 0
        /\ Route(r) = "login" => \/ Len(auths) = 1
                                 \/ Len(auths) = 0 /\ Unrecorded(r)
                                 \/ Len(auths) = 2 /\ r \in crashed
        /\ \A n \in 1..Len(actions) :
              /\ r \in did => actions[n].who = "user" \/ Route(r) = "logout"
              /\ verdict[r] = "denied" => actions[n].outcome = "denied"
              /\ actions[n].outcome = "ok" /\ r \notin did => SentAway(r)

\* Nothing gets past the gates, whatever another request does to the session
\* meanwhile: what is done was allowed by the token, the provider and the
\* policy, and no upload is read beyond max_concurrent_imports. Whatever way a
\* request goes out, slots, gauge and gzip stream are settled.
GatesHold ==
    /\ \A r \in did : /\ Route(r) \in Unsafe => TokenMatches(r)
                      /\ Route(r) \in Public \/ ~Forbidden(r)
                      /\ Route(r) = "program" => "console" \notin site.refused
                      /\ site.sso = "unverified" => Route(r) = "logout"
                      /\ Route(r) \in Public \/ obj[r] = "live"
    /\ Cardinality({r \in parsed : Route(r) = "import" /\ layer[r] # "done"}) <= SlotCap["import"]
          \/ Unlimited("import")
    /\ (\A r \in Requests : layer[r] = "done") => gauge = 0 /\ \A s \in DOMAIN inUse : inUse[s] = 0
    /\ \A r \in Done : /\ stream[r] = "ended" => r \notin crashed
                       /\ stream[r] # "open"
                       /\ counted[r] = 0 => Route(r) = "metrics"

\* Both, of every request, on whatever way it leaves the chain.
RequestsAccounted == GatesHold /\ TrailIsComplete

\* "The login handler emits its own richer auth event on every path it COMPLETES"
\* (middleware.go:404-405): each login it answers leaves one. Refuted by
\* MCComponentClaims: one that is sent home or cannot be read leaves none.
LoginsLeaveEvents ==
    \A r \in Done : Route(r) = "login" /\ answeredBy[r] \in {"handler", "recorded"} => EventsOf(r, "auth") # <<>>

\* "The trail must not file a rejected mutation as outcome=ok" (handlers.go:266-267).
\* Refuted by MCComponentClaims: one that is sent to a login page is filed so.
RejectedNotFiledOk ==
    \A r \in Done : \A n \in DOMAIN EventsOf(r, "action") :
        EventsOf(r, "action")[n].outcome = "ok" => r \in did
=============================================================================
