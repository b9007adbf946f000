------------------------ MODULE SessionManager_proofs ------------------------
(***************************************************************************)
(* What module SessionManager promises, for any number of requests,        *)
(* sessions, logins and handshakes: its types, StoredAreUsable,            *)
(* HandshakeOnce and NothingOutlivesShutdown, and that it implements       *)
(* Custody.                                                                *)
(*                                                                         *)
(* All follow from one invariant, which says where a session, a payload    *)
(* and a handshake can be while the store, the requests and those who      *)
(* close sessions each hold a part of them.  Each part of it has a lemma   *)
(* that says it is kept, with a step for each action.                      *)
(***************************************************************************)
EXTENDS SessionManager, Lists_proofs, TLAPS

\* A session that has been made: by Start, or by a login that has gone through.
Exists(s) ==
    IF s <= MaxStarts THEN s <= made
    ELSE s - MaxStarts <= opened /\ \A r \in Requests : req[r].p # s - MaxStarts

\* Only sessions that have been made are anywhere, and none is both in the
\* store and with an actor that is to close it.
Whereabouts ==
    /\ \A s \in Stored : Exists(s)
    /\ \A a \in Actors : \A s \in removed[a] : Exists(s)
    /\ \A a \in Actors : removed[a] \cap Stored = {}
    /\ \A r \in Requests : req[r].at \notin {"idle", "start"} => req[r].s \in Ids /\ Exists(req[r].s)
    /\ \A s \in Ids : app[s] # 0 => Exists(s) /\ s = Minted(app[s])

\* A request holds the payload of its login from the dial to Authenticate: one
\* of its own, not closed, and its session has none.
LoginsUnderWay ==
    /\ \A r \in Requests : IF req[r].at \in {"connected", "replace"}
        THEN /\ req[r].p \in 1 .. opened /\ closes[req[r].p] = 0 /\ app[req[r].s] = 0
        ELSE req[r].p = 0
    /\ \A r, q \in Requests : r # q /\ req[r].p # 0 => req[q].p # req[r].p

\* Every payload that has been opened is with a login, with the session made for
\* it, which is in the store or with who is to close it, or closed once.
PayloadsAccounted ==
    /\ \A s \in ToSet(auth) : app[s] # 0
    /\ \A p \in Logins : closes[p] \in {0, 1}
    /\ \A p \in opened + 1 .. MaxLogins : closes[p] = 0
    /\ \A p \in 1 .. opened :
          \/ \E r \in Requests : req[r].p = p
          \/ app[Minted(p)] = p /\ closes[p] = 0
          \/ app[Minted(p)] = 0 /\ closes[p] = 1
    /\ \A p \in 1 .. opened : app[Minted(p)] = p =>
          \/ Minted(p) \in ToSet(auth)
          \/ \E a \in Actors : Minted(p) \in removed[a]

\* A handshake is pending in one session or with the request that begins it, and
\* then it has not been exchanged.
HandshakesUnique ==
    /\ \A h \in Handshakes : exchanged[h] \in {0, 1} /\ (h > minted => exchanged[h] = 0)
    /\ \A s \in Ids : sso[s].pending # 0 => sso[s].pending <= minted /\ exchanged[sso[s].pending] = 0
    /\ \A s, t \in Ids : s # t /\ sso[s].pending # 0 => sso[t].pending # sso[s].pending
    /\ \A r \in Requests : req[r].at = "begin" =>
          /\ req[r].h \in 1 .. minted /\ exchanged[req[r].h] = 0
          /\ \A s \in Ids : sso[s].pending # req[r].h
          /\ \A q \in Requests : q # r /\ req[q].at = "begin" => req[q].h # req[r].h

\* What the shutdown has done by each phase: after the store has been emptied no
\* session of a login under way is in it.
ShutdownOrder ==
    /\ phase \in {"serving", "draining"} => ~cut /\ removed["shutdown"] = {}
    /\ phase = "down" => removed["shutdown"] = {}
    /\ phase \in {"closing", "down"} =>
          /\ ToSet(auth) = {}
          /\ \A r \in Requests : req[r].at \in {"connected", "replace"} => req[r].s \notin Stored
          /\ ~cut => Quiet

\* The inductive invariant.
IInv == TypeOK /\ Whereabouts /\ LoginsUnderWay /\ PayloadsAccounted /\ HandshakesUnique /\ ShutdownOrder

\* TakeOut keeps the capacity and takes exactly gone out of the store (Logout, the
\* reaper, an expired session found by Load, Shutdown).
LEMMA TakeOutProperties ==
    ASSUME TypeOK, NEW gone, TakeOut(gone)
    PROVE  /\ preAuth' \in Seq(Starts) /\ auth' \in Seq(Ids)
           /\ Len(preAuth') + Len(auth') <= MaxSessions
           /\ ToSet(preAuth') = ToSet(preAuth) \ gone
           /\ ToSet(auth') = ToSet(auth) \ gone
           /\ Stored' = Stored \ gone
<1>1. preAuth \in Seq(Starts) /\ auth \in Seq(Ids) /\ Len(preAuth) + Len(auth) <= MaxSessions
  BY DEF TypeOK
<1>2. /\ preAuth' \in Seq(Starts) /\ ToSet(preAuth') = ToSet(preAuth) \ gone
      /\ Len(preAuth') <= Len(preAuth)
  BY <1>1, OmitProperties DEF TakeOut
<1>3. /\ auth' \in Seq(Ids) /\ ToSet(auth') = ToSet(auth) \ gone
      /\ Len(auth') <= Len(auth)
  BY <1>1, OmitProperties DEF TakeOut
<1>4. Len(preAuth) \in Nat /\ Len(auth) \in Nat /\ Len(preAuth') \in Nat /\ Len(auth') \in Nat
  BY <1>1, <1>2, <1>3, LenProperties
<1> QED  BY <1>1, <1>2, <1>3, <1>4, ManagerAssumption DEF Stored

\* Save puts one session in and keeps the capacity, for the eviction of Victims
\* makes room when there is none (memStore.save).
LEMMA SaveProperties ==
    ASSUME TypeOK, NEW s \in Starts, Save(s)
    PROVE  /\ preAuth' \in Seq(Starts) /\ auth' \in Seq(Ids)
           /\ Len(preAuth') + Len(auth') <= MaxSessions
           /\ ToSet(preAuth') = (ToSet(preAuth) \ Victims) \cup {s}
           /\ ToSet(auth') = ToSet(auth) \ Victims
           /\ Stored' = (Stored \ Victims) \cup {s}
           /\ Victims \subseteq Stored
<1>1. preAuth \in Seq(Starts) /\ auth \in Seq(Ids) /\ Len(preAuth) + Len(auth) <= MaxSessions
  BY DEF TypeOK
<1> DEFINE kept == Omit(preAuth, Victims)
<1>2. /\ kept \in Seq(Starts) /\ ToSet(kept) = ToSet(preAuth) \ Victims
      /\ Len(kept) <= Len(preAuth)
      /\ ToSet(preAuth) \cap Victims # {} => Len(kept) < Len(preAuth)
  BY <1>1, OmitProperties
<1>3. /\ auth' \in Seq(Ids) /\ ToSet(auth') = ToSet(auth) \ Victims
      /\ Len(auth') <= Len(auth)
      /\ ToSet(auth) \cap Victims # {} => Len(auth') < Len(auth)
  BY <1>1, OmitProperties DEF Save
<1>4. preAuth' = Append(kept, s)  BY DEF Save
<1> HIDE DEF kept
<1>5. /\ preAuth' \in Seq(Starts) /\ Len(preAuth') = Len(kept) + 1
      /\ ToSet(preAuth') = ToSet(kept) \cup {s}
  BY <1>2, <1>4, AppendProperties, ToSetOfAppend
<1>6. Len(preAuth) \in Nat /\ Len(auth) \in Nat /\ Len(kept) \in Nat /\ Len(auth') \in Nat
  BY <1>1, <1>2, <1>3, LenProperties
<1>7. CASE Len(preAuth) + Len(auth) < MaxSessions
  BY <1>2, <1>3, <1>5, <1>6, <1>7, ManagerAssumption DEF Victims, Stored
<1>8. CASE ~ (Len(preAuth) + Len(auth) < MaxSessions) /\ preAuth # <<>>
  <2>1. Victims = {Head(preAuth)}  BY <1>8 DEF Victims
  <2>2. Head(preAuth) \in ToSet(preAuth)  BY <1>1, <1>8, HeadIsMember
  <2> QED  BY <1>1, <1>2, <1>3, <1>5, <1>6, <2>1, <2>2, ManagerAssumption DEF Stored
<1>9. CASE ~ (Len(preAuth) + Len(auth) < MaxSessions) /\ preAuth = <<>>
  <2>1. Victims = {Head(auth)}  BY <1>9 DEF Victims
  <2>2. auth # <<>>
    BY <1>9, ManagerAssumption
  <2>3. Head(auth) \in ToSet(auth)  BY <1>1, <2>2, HeadIsMember
  <2> QED  BY <1>1, <1>2, <1>3, <1>5, <1>6, <2>1, <2>3, ManagerAssumption DEF Stored
<1> QED  BY <1>7, <1>8, <1>9

\* Replace puts the session of a login in the place of the one it was made from
\* (memStore.replace): the store grows by nothing.
LEMMA ReplaceProperties ==
    ASSUME TypeOK, NEW old \in Stored, NEW new \in Ids, Replace(old, new)
    PROVE  /\ preAuth' \in Seq(Starts) /\ auth' \in Seq(Ids)
           /\ Len(preAuth') + Len(auth') <= MaxSessions
           /\ ToSet(preAuth') = ToSet(preAuth) \ {old}
           /\ ToSet(auth') = (ToSet(auth) \ {old}) \cup {new}
           /\ Stored' = (Stored \ {old}) \cup {new}
<1>1. preAuth \in Seq(Starts) /\ auth \in Seq(Ids) /\ Len(preAuth) + Len(auth) <= MaxSessions
  BY DEF TypeOK
<1> DEFINE kept == Omit(auth, {old})
<1>2. /\ kept \in Seq(Ids) /\ ToSet(kept) = ToSet(auth) \ {old}
      /\ Len(kept) <= Len(auth)
      /\ ToSet(auth) \cap {old} # {} => Len(kept) < Len(auth)
  BY <1>1, OmitProperties
<1>3. /\ preAuth' \in Seq(Starts) /\ ToSet(preAuth') = ToSet(preAuth) \ {old}
      /\ Len(preAuth') <= Len(preAuth)
      /\ ToSet(preAuth) \cap {old} # {} => Len(preAuth') < Len(preAuth)
  BY <1>1, OmitProperties DEF Replace
<1>4. auth' = Append(kept, new)  BY DEF Replace
<1> HIDE DEF kept
<1>5. /\ auth' \in Seq(Ids) /\ Len(auth') = Len(kept) + 1
      /\ ToSet(auth') = ToSet(kept) \cup {new}
  BY <1>2, <1>4, AppendProperties, ToSetOfAppend
<1>6. Len(preAuth) \in Nat /\ Len(auth) \in Nat /\ Len(kept) \in Nat /\ Len(preAuth') \in Nat
  BY <1>1, <1>2, <1>3, LenProperties
<1>7. Len(preAuth') + Len(kept) < Len(preAuth) + Len(auth)
  BY <1>2, <1>3, <1>6 DEF Stored
<1> QED  BY <1>1, <1>2, <1>3, <1>5, <1>6, <1>7, ManagerAssumption DEF Stored

\* The lists hold identifiers of sessions.
LEMMA StoredAreIds ==
    ASSUME TypeOK
    PROVE  /\ ToSet(preAuth) \subseteq Starts /\ ToSet(auth) \subseteq Ids
           /\ Starts \subseteq Ids /\ Stored \subseteq Ids
<1>1. preAuth \in [1 .. Len(preAuth) -> Starts] /\ auth \in [1 .. Len(auth) -> Ids]
  BY LenProperties DEF TypeOK
<1>2. Starts \subseteq Ids  BY ManagerAssumption DEF Starts, Ids
<1> QED  BY <1>1, <1>2 DEF ToSet, Stored

-----------------------------------------------------------------------------
(* What the actions do to where a request stands. *)

\* A request that has not begun is typed.
LEMMA IdleTyped == Idle \in RequestStates /\ NoSSO \in SSOStates /\ Idle.sso = NoSSO
  BY ManagerAssumption DEF Idle, NoSSO, RequestStates, SSOStates

\* The fields of a request, by their types.
LEMMA RequestTyped ==
    ASSUME TypeOK, NEW r \in Requests
    PROVE  /\ req[r] \in RequestStates /\ req[r].sso \in SSOStates
           /\ req[r].s \in 0 .. MaxStarts + MaxLogins
           /\ req[r].p \in 0 .. MaxLogins
           /\ req[r].h \in 0 .. MaxHandshakes
           /\ req[r].sso.subject \in 0 .. MaxHandshakes
  BY DEF TypeOK, RequestStates, SSOStates

\* A request that moves leaves the others where they are.
LEMMA RequestChanged ==
    ASSUME TypeOK, NEW r \in Requests, NEW x \in RequestStates, req' = [req EXCEPT ![r] = x]
    PROVE  /\ req' \in [Requests -> RequestStates]
           /\ req'[r] = x /\ \A q \in Requests \ {r} : req'[q] = req[q]
  BY DEF TypeOK

\* Whatever field an action sets, the request keeps its type.
LEMMA RequestFields ==
    ASSUME TypeOK, NEW r \in Requests,
           NEW a \in {"idle", "start", "routed", "connected", "replace", "begin", "exchange"}
    PROVE  /\ [req[r] EXCEPT !.at = a] \in RequestStates
           /\ \A s \in 0 .. MaxStarts + MaxLogins : [req[r] EXCEPT !.at = a, !.s = s] \in RequestStates
           /\ \A p \in 0 .. MaxLogins : [req[r] EXCEPT !.at = a, !.p = p] \in RequestStates
           /\ \A h \in 0 .. MaxHandshakes : [req[r] EXCEPT !.at = a, !.h = h] \in RequestStates
           /\ \A y \in SSOStates : [req[r] EXCEPT !.at = a, !.sso = y] \in RequestStates
           /\ \A h \in 0 .. MaxHandshakes, y \in SSOStates :
                  [req[r] EXCEPT !.at = a, !.h = h, !.sso = y] \in RequestStates
           /\ \A s \in 0 .. MaxStarts + MaxLogins : [Idle EXCEPT !.at = a, !.s = s] \in RequestStates
<1>1. req[r] \in RequestStates /\ Idle \in RequestStates  BY RequestTyped, IdleTyped
<1> QED  BY <1>1 DEF RequestStates

\* The initial states are typed.
LEMMA TypeInit == Init => TypeOK
<1> SUFFICES ASSUME Init PROVE TypeOK  OBVIOUS
<1>1. /\ preAuth \in Seq(Starts) /\ auth \in Seq(Ids) /\ Len(preAuth) = 0 /\ Len(auth) = 0
  BY EmptySeq DEF Init
<1>2. req \in [Requests -> RequestStates] /\ sso \in [Ids -> SSOStates]
  BY IdleTyped DEF Init
<1>3. Len(preAuth) + Len(auth) <= MaxSessions  BY <1>1, ManagerAssumption
<1>4. /\ app \in [Ids -> 0 .. MaxLogins] /\ closes \in [Logins -> Nat]
      /\ exchanged \in [Handshakes -> Nat] /\ removed \in [Actors -> SUBSET Ids]
  BY ManagerAssumption DEF Init
<1>5. made \in 0 .. MaxStarts /\ opened \in 0 .. MaxLogins /\ minted \in 0 .. MaxHandshakes
  BY ManagerAssumption DEF Init
<1>6. gated \in BOOLEAN /\ stale \subseteq Ids /\ denied \subseteq Ids /\ phase = "serving" /\ cut = FALSE
  BY DEF Init
<1> QED  BY <1>1, <1>2, <1>3, <1>4, <1>5, <1>6 DEF TypeOK

\* Every action keeps the types, and with them the capacity of the store
\* (MaxSessions): Save evicts before it appends and Replace takes one out.
LEMMA TypeStep == IInv /\ [Next]_vars => TypeOK'
<1> SUFFICES ASSUME IInv, [Next]_vars PROVE TypeOK'  OBVIOUS
<1>a. TypeOK /\ Whereabouts /\ LoginsUnderWay  BY DEF IInv
<1> USE <1>a
<1> USE ManagerAssumption DEF sessionVars, ssoVars, poolVars, downVars
<1>0. Stored \subseteq Ids /\ Starts \subseteq Ids  BY StoredAreIds
<1> DEFINE Requested == req' \in [Requests -> RequestStates]
           Listed == /\ preAuth' \in Seq(Starts) /\ auth' \in Seq(Ids)
                     /\ Len(preAuth') + Len(auth') <= MaxSessions
<1>I. ASSUME NEW r \in Requests, Ends(r) PROVE Requested
  BY <1>I, IdleTyped, RequestChanged DEF Ends
<1>1. ASSUME NEW s \in Ids, Age(s) PROVE TypeOK'
  BY <1>1 DEF Age, TypeOK
<1>2. ASSUME NEW r \in Requests, LoadMiss(r) PROVE TypeOK'
  <2>1. Requested
    <3>1. [req[r] EXCEPT !.at = "start"] \in RequestStates  BY RequestFields
    <3> QED  BY <1>2, <3>1, RequestChanged DEF LoadMiss, Goes
  <2> QED  BY <1>2, <2>1 DEF LoadMiss, TypeOK
<1>3. ASSUME NEW r \in Requests, Start(r) PROVE TypeOK'
  <2>1. made + 1 \in Starts  BY <1>3 DEF Start, TypeOK, Starts
  <2>2. Save(made + 1)  BY <1>3 DEF Start
  <2>3. Listed /\ Victims \subseteq Stored  BY <2>1, <2>2, SaveProperties
  <2>4. Requested
    <3>1. made + 1 \in 0 .. MaxStarts + MaxLogins  BY <2>1 DEF Starts
    <3>2. [req[r] EXCEPT !.at = "routed", !.s = made + 1] \in RequestStates  BY <3>1, RequestFields
    <3>3. req' = [req EXCEPT ![r].at = "routed", ![r].s = made + 1]  BY <1>3 DEF Start
    <3>4. req' = [req EXCEPT ![r] = [req[r] EXCEPT !.at = "routed", !.s = made + 1]]  BY <3>3
    <3> QED  BY <3>2, <3>4, RequestChanged
  <2> HIDE DEF Victims
  <2>5. removed' \in [Actors -> SUBSET Ids]  BY <1>0, <1>3, <2>3 DEF Start, TypeOK, Actors
  <2>6. made' \in 0 .. MaxStarts  BY <1>3, <2>1 DEF Start, Starts
  <2>7. /\ UNCHANGED <<gated, app, stale, sso, denied, minted, exchanged>>
        /\ UNCHANGED <<opened, closes, phase, cut>>
    BY <1>3 DEF Start
  <2> QED  BY <2>3, <2>4, <2>5, <2>6, <2>7 DEF TypeOK
<1>4. ASSUME NEW r \in Requests, Leave(r) PROVE TypeOK'
  <2>1. Requested  BY <1>4, <1>I DEF Leave
  <2> QED  BY <1>4, <2>1 DEF Leave, TypeOK
<1>5. ASSUME NEW r \in Requests, NEW s \in Ids, LoadHit(r, s) PROVE TypeOK'
  <2>1. Requested
    <3>1. s \in 0 .. MaxStarts + MaxLogins  BY DEF Ids
    <3>2. [Idle EXCEPT !.at = "routed", !.s = s] \in RequestStates  BY <3>1, RequestFields
    <3> QED  BY <1>5, <3>2, RequestChanged DEF LoadHit
  <2> QED  BY <1>5, <2>1 DEF LoadHit, TypeOK
<1>6. ASSUME NEW r \in Requests, NEW s \in Ids, LoadExpired(r, s) PROVE TypeOK'
  <2>1. TakeOut({s})  BY <1>6 DEF LoadExpired
  <2>2. Listed  BY <2>1, TakeOutProperties
  <2>3. Requested
    <3>1. [req[r] EXCEPT !.at = "start"] \in RequestStates  BY RequestFields
    <3> QED  BY <1>6, <3>1, RequestChanged DEF LoadExpired, Goes
  <2>4. removed' \in [Actors -> SUBSET Ids]  BY <1>6 DEF LoadExpired, TypeOK, Actors
  <2> QED  BY <1>6, <2>2, <2>3, <2>4 DEF LoadExpired, TypeOK
<1>7. ASSUME NEW r \in Requests, Dial(r) PROVE TypeOK'
  <2>1. opened + 1 \in 0 .. MaxLogins  BY <1>7 DEF Dial, TypeOK
  <2>2. Requested
    <3>1. [req[r] EXCEPT !.at = "connected", !.p = opened + 1] \in RequestStates  BY <2>1, RequestFields
    <3>2. req' = [req EXCEPT ![r].at = "connected", ![r].p = opened + 1]
      BY <1>7 DEF Dial
    <3>3. req' = [req EXCEPT ![r] = [req[r] EXCEPT !.at = "connected", !.p = opened + 1]]
      BY <3>2
    <3> QED  BY <3>1, <3>3, RequestChanged
  <2> QED  BY <1>7, <2>1, <2>2 DEF Dial, TypeOK
<1>8. ASSUME NEW r \in Requests, AuthenticateRead(r) PROVE TypeOK'
  <2>1. Requested
    <3>1. sso[req[r].s] \in SSOStates
      BY <1>8 DEF AuthenticateRead, At, Whereabouts, TypeOK
    <3>2. [req[r] EXCEPT !.at = "replace", !.sso = sso[req[r].s]] \in RequestStates  BY <3>1, RequestFields
    <3>3. req' = [req EXCEPT ![r].at = "replace", ![r].sso = sso[req[r].s]]
      BY <1>8 DEF AuthenticateRead
    <3>4. req' = [req EXCEPT ![r] = [req[r] EXCEPT !.at = "replace", !.sso = sso[req[r].s]]]
      BY <3>3
    <3> QED  BY <3>2, <3>4, RequestChanged
  <2> QED  BY <1>8, <2>1 DEF AuthenticateRead, TypeOK
<1>9. ASSUME NEW r \in Requests, AuthenticateReplace(r) PROVE TypeOK'
  <2>1. req[r].p \in 1 .. opened  BY <1>9 DEF AuthenticateReplace, At, LoginsUnderWay
  <2>2. Minted(req[r].p) \in Ids /\ req[r].p \in 0 .. MaxLogins
    <3>1. opened \in 0 .. MaxLogins  BY DEF TypeOK
    <3> QED  BY <2>1, <3>1 DEF Minted, Ids
  <2>3. req[r].s \in Stored /\ Replace(req[r].s, Minted(req[r].p))
    BY <1>9 DEF AuthenticateReplace, Member
  <2>4. Listed  BY <2>2, <2>3, ReplaceProperties
  <2>5. Requested  BY <1>9, <1>I DEF AuthenticateReplace
  <2>6. sso' \in [Ids -> SSOStates]
    <3>1. [NoSSO EXCEPT !.subject = req[r].sso.subject] \in SSOStates
      BY IdleTyped, RequestTyped DEF SSOStates
    <3> QED  BY <1>9, <3>1 DEF AuthenticateReplace, TypeOK
  <2>7. removed' \in [Actors -> SUBSET Ids]
    BY <1>0, <1>9, <2>3 DEF AuthenticateReplace, TypeOK, Actors
  <2>8. app' \in [Ids -> 0 .. MaxLogins]
    BY <1>9, <2>2 DEF AuthenticateReplace, TypeOK
  <2> QED  BY <1>9, <2>4, <2>5, <2>6, <2>7, <2>8 DEF AuthenticateReplace, TypeOK
<1>10. ASSUME NEW r \in Requests, AuthenticateFail(r) PROVE TypeOK'
  <2>1. Requested  BY <1>10, <1>I DEF AuthenticateFail
  <2>2. closes' = [closes EXCEPT ![req[r].p] = @ + 1]  BY <1>10 DEF AuthenticateFail
  <2>4. closes \in [Logins -> Nat]  BY DEF TypeOK
  <2>5. req[r].p \in Logins
    BY <1>10 DEF AuthenticateFail, At, LoginsUnderWay, Logins, TypeOK
  <2>6. closes[req[r].p] + 1 \in Nat  BY <2>4, <2>5
  <2>3. closes' \in [Logins -> Nat]  BY <2>2, <2>4, <2>6
  <2> QED  BY <1>10, <2>1, <2>3 DEF AuthenticateFail, TypeOK
<1>11. ASSUME NEW r \in Requests, Logout(r) PROVE TypeOK'
  <2>1. TakeOut({req[r].s})  BY <1>11 DEF Logout
  <2>2. Listed  BY <2>1, TakeOutProperties
  <2>3. Requested  BY <1>11, <1>I DEF Logout
  <2>4. req[r].s \in Ids  BY <1>11 DEF Logout, At, Whereabouts
  <2>5. removed' \in [Actors -> SUBSET Ids]  BY <1>11, <2>4 DEF Logout, TypeOK, Actors
  <2> QED  BY <1>11, <2>2, <2>3, <2>5 DEF Logout, TypeOK
<1>12. ASSUME NEW r \in Requests, SSOStart(r) PROVE TypeOK'
  <2>1. minted + 1 \in 0 .. MaxHandshakes  BY <1>12 DEF SSOStart, TypeOK
  <2>2. sso[req[r].s] \in SSOStates  BY <1>12 DEF SSOStart, At, Whereabouts, TypeOK
  <2>3. Requested
    <3>1. [req[r] EXCEPT !.at = "begin", !.h = minted + 1, !.sso = sso[req[r].s]] \in RequestStates
      BY <2>1, <2>2, RequestFields
    <3>2. req' = [req EXCEPT ![r].at = "begin", ![r].h = minted + 1, ![r].sso = sso[req[r].s]]
      BY <1>12 DEF SSOStart
    <3>3. req' = [req EXCEPT ![r] = [req[r] EXCEPT !.at = "begin", !.h = minted + 1, !.sso = sso[req[r].s]]]
      BY <3>2
    <3> QED  BY <3>1, <3>3, RequestChanged
  <2> QED  BY <1>12, <2>1, <2>3 DEF SSOStart, TypeOK
<1>13. ASSUME NEW r \in Requests, SSOBegin(r) PROVE TypeOK'
  <2>1. Requested  BY <1>13, <1>I DEF SSOBegin
  <2>2. [pending |-> req[r].h, subject |-> req[r].sso.subject] \in SSOStates
    BY RequestTyped DEF SSOStates
  <2>3. sso' \in [Ids -> SSOStates]  BY <1>13, <2>2 DEF SSOBegin, TypeOK
  <2> QED  BY <1>13, <2>1, <2>3 DEF SSOBegin, TypeOK
<1>14. ASSUME NEW r \in Requests, NEW h \in Handshakes, SSOConsume(r, h) PROVE TypeOK'
  <2>1. h \in 0 .. MaxHandshakes  BY DEF Handshakes
  <2>2. Requested
    <3>1. [req[r] EXCEPT !.at = "exchange", !.h = h] \in RequestStates  BY <2>1, RequestFields
    <3>2. req' = [req EXCEPT ![r].at = "exchange", ![r].h = h]
      BY <1>14 DEF SSOConsume
    <3>3. req' = [req EXCEPT ![r] = [req[r] EXCEPT !.at = "exchange", !.h = h]]
      BY <3>2
    <3> QED  BY <3>1, <3>3, RequestChanged
  <2>3. sso' \in [Ids -> SSOStates]
    <3>1. req[r].s \in Ids /\ sso[req[r].s] \in SSOStates
      BY <1>14 DEF SSOConsume, At, Whereabouts, TypeOK
    <3>2. [sso[req[r].s] EXCEPT !.pending = 0] \in SSOStates  BY <3>1 DEF SSOStates
    <3> QED  BY <1>14, <3>1, <3>2 DEF SSOConsume, TypeOK
  <2>4. exchanged' \in [Handshakes -> Nat]  BY <1>14 DEF SSOConsume, TypeOK
  <2> QED  BY <1>14, <2>2, <2>3, <2>4 DEF SSOConsume, TypeOK
<1>15. ASSUME NEW r \in Requests, SSODeny(r) PROVE TypeOK'
  <2>1. Requested  BY <1>15, <1>I DEF SSODeny
  <2>2. req[r].s \in Ids  BY <1>15 DEF SSODeny, At, Whereabouts
  <2>3. sso' \in [Ids -> SSOStates]  BY <1>15, IdleTyped DEF SSODeny, TypeOK
  <2> QED  BY <1>15, <2>1, <2>2, <2>3 DEF SSODeny, TypeOK
<1>16. ASSUME NEW r \in Requests, SSOVerify(r) PROVE TypeOK'
  <2>1. Requested  BY <1>16, <1>I DEF SSOVerify
  <2>2. sso' \in [Ids -> SSOStates]
    <3>1. [NoSSO EXCEPT !.subject = req[r].h] \in SSOStates  BY IdleTyped, RequestTyped DEF SSOStates
    <3> QED  BY <1>16, <3>1 DEF SSOVerify, TypeOK
  <2> QED  BY <1>16, <2>1, <2>2 DEF SSOVerify, TypeOK
<1>17. ASSUME NEW a \in Actors, CloseRemoved(a) PROVE TypeOK'
  <2>1. PICK s \in removed[a] :
            CloseSession(s) /\ removed' = [removed EXCEPT ![a] = @ \ {s}]
    BY <1>17 DEF CloseRemoved
  <2>2. app' \in [Ids -> 0 .. MaxLogins]  BY <2>1 DEF CloseSession, TypeOK
  <2>3. closes' \in [Logins -> Nat]
    <3>1. closes \in [Logins -> Nat]  BY DEF TypeOK
    <3>2. closes' = closes \/ closes' = [closes EXCEPT ![app[s]] = @ + 1]  BY <2>1 DEF CloseSession
    <3> QED  BY <3>1, <3>2
  <2>4. removed' \in [Actors -> SUBSET Ids]  BY <2>1 DEF TypeOK
  <2> QED  BY <1>17, <2>2, <2>3, <2>4 DEF CloseRemoved, TypeOK
<1>18. ASSUME Reap PROVE TypeOK'
  <2>1. TakeOut(stale)  BY <1>18 DEF Reap
  <2>2. Listed  BY <2>1, TakeOutProperties
  <2> QED  BY <1>0, <1>18, <2>2 DEF Reap, TypeOK, Actors
<1>19. ASSUME Drain PROVE TypeOK'
  BY <1>19 DEF Drain, TypeOK
<1>20. ASSUME Shutdown PROVE TypeOK'
  <2>1. TakeOut(Stored)  BY <1>20 DEF Shutdown
  <2>2. Listed  BY <2>1, TakeOutProperties
  <2> QED  BY <1>0, <1>20, <2>2 DEF Shutdown, TypeOK, Actors, Quiet
<1>21. ASSUME ShutdownDone PROVE TypeOK'
  BY <1>21 DEF ShutdownDone, TypeOK
<1>22. CASE UNCHANGED vars
  BY <1>22 DEF vars, TypeOK
<1> QED
  BY <1>1, <1>2, <1>3, <1>4, <1>5, <1>6, <1>7, <1>8, <1>9, <1>10, <1>11, <1>12, <1>13,
     <1>14, <1>15, <1>16, <1>17, <1>18, <1>19, <1>20, <1>21, <1>22
  DEF Next, Handles, ShutsDown, Stopped

\* Ends and Goes, by the fields of the request.
LEMMA FieldsChanged ==
    ASSUME TypeOK, NEW r \in Requests
    PROVE  /\ Ends(r) => req'[r] = Idle
           /\ \A a : Goes(r, a) =>
                 /\ req'[r].at = a /\ req'[r].s = req[r].s
                 /\ req'[r].p = req[r].p /\ req'[r].h = req[r].h
           /\ Ends(r) \/ (\E a : Goes(r, a)) => \A q \in Requests \ {r} : req'[q] = req[q]
<1>1. req \in [Requests -> RequestStates]  BY DEF TypeOK
<1> QED  BY <1>1 DEF Ends, Goes, RequestStates

\* Dial, by the fields of the request.
LEMMA DialFields ==
    ASSUME TypeOK, NEW r \in Requests, Dial(r)
    PROVE  /\ req'[r].at = "connected" /\ req'[r].s = req[r].s
           /\ req'[r].p = opened + 1 /\ req'[r].h = req[r].h
           /\ \A q \in Requests \ {r} : req'[q] = req[q]
<1>1. req \in [Requests -> RequestStates]  BY DEF TypeOK
<1>2. req' = [req EXCEPT ![r].at = "connected", ![r].p = opened + 1]  BY DEF Dial
<1> QED  BY <1>1, <1>2 DEF RequestStates

\* The first half of Authenticate, by the fields of the request.
LEMMA ReadFields ==
    ASSUME TypeOK, NEW r \in Requests, AuthenticateRead(r)
    PROVE  /\ req'[r].at = "replace" /\ req'[r].s = req[r].s
           /\ req'[r].p = req[r].p /\ req'[r].h = req[r].h
           /\ \A q \in Requests \ {r} : req'[q] = req[q]
<1>1. req \in [Requests -> RequestStates]  BY DEF TypeOK
<1>2. req' = [req EXCEPT ![r].at = "replace", ![r].sso = sso[req[r].s]]  BY DEF AuthenticateRead
<1> QED  BY <1>1, <1>2 DEF RequestStates

\* Start, by the fields of the request.
LEMMA StartFields ==
    ASSUME TypeOK, NEW r \in Requests, Start(r)
    PROVE  /\ req'[r].at = "routed" /\ req'[r].s = made + 1
           /\ req'[r].p = req[r].p /\ req'[r].h = req[r].h
           /\ \A q \in Requests \ {r} : req'[q] = req[q]
<1>1. req \in [Requests -> RequestStates]  BY DEF TypeOK
<1>2. req' = [req EXCEPT ![r].at = "routed", ![r].s = made + 1]  BY DEF Start
<1> QED  BY <1>1, <1>2 DEF RequestStates

\* A Load that finds its session, by the fields of the request.
LEMMA HitFields ==
    ASSUME TypeOK, NEW r \in Requests, NEW s \in Ids, LoadHit(r, s)
    PROVE  /\ req'[r].at = "routed" /\ req'[r].s = s /\ req'[r].p = 0
           /\ \A q \in Requests \ {r} : req'[q] = req[q]
<1>1. req \in [Requests -> RequestStates]  BY DEF TypeOK
<1>2. req' = [req EXCEPT ![r] = [Idle EXCEPT !.at = "routed", !.s = s]]  BY DEF LoadHit
<1> QED  BY <1>1, <1>2 DEF Idle

\* StartSSOHandshake and ConsumeSSOHandshake, by the fields of the request.
LEMMA HandshakeFields ==
    ASSUME TypeOK, NEW r \in Requests
    PROVE  /\ SSOStart(r) => req'[r].at = "begin" /\ req'[r].h = minted + 1
           /\ \A h : SSOConsume(r, h) => req'[r].at = "exchange" /\ req'[r].h = h
           /\ SSOStart(r) \/ (\E h : SSOConsume(r, h)) =>
                 /\ req'[r].s = req[r].s /\ req'[r].p = req[r].p
                 /\ \A q \in Requests \ {r} : req'[q] = req[q]
<1>1. req \in [Requests -> RequestStates]  BY DEF TypeOK
<1>2. SSOStart(r) => req' = [req EXCEPT ![r].at = "begin", ![r].h = minted + 1, ![r].sso = sso[req[r].s]]
  BY DEF SSOStart
<1>3. \A h : SSOConsume(r, h) => req' = [req EXCEPT ![r].at = "exchange", ![r].h = h]
  BY DEF SSOConsume
<1> QED  BY <1>1, <1>2, <1>3 DEF RequestStates

\* No action hands the payload of a login under way to another: Authenticate ends
\* the login that has it, and a close is of a session's, not of a login's.
LEMMA LoginsStep == IInv /\ [Next]_vars => LoginsUnderWay'
<1> SUFFICES ASSUME IInv, [Next]_vars PROVE LoginsUnderWay'  OBVIOUS
<1>a. TypeOK /\ TypeOK' /\ Whereabouts /\ LoginsUnderWay /\ PayloadsAccounted
  BY TypeStep DEF IInv
<1> USE ManagerAssumption DEF sessionVars, ssoVars, poolVars, downVars
<1>b. Idle.at = "idle" /\ Idle.p = 0  BY DEF Idle
<1>A. ASSUME NEW r \in Requests,
             \A q \in Requests \ {r} : req'[q] = req[q],
             req'[r].at \notin {"connected", "replace"}, req'[r].p = 0,
             UNCHANGED <<opened, closes, app>>
      PROVE  LoginsUnderWay'
  BY <1>a, <1>A DEF LoginsUnderWay
<1>B. ASSUME UNCHANGED <<opened, closes, app, req>> PROVE LoginsUnderWay'
  BY <1>a, <1>B DEF LoginsUnderWay
<1>1. ASSUME NEW s \in Ids, Age(s) PROVE LoginsUnderWay'
  BY <1>1, <1>B DEF Age
<1>2. ASSUME NEW r \in Requests, LoadMiss(r) PROVE LoginsUnderWay'
  BY <1>2, <1>a, <1>A, FieldsChanged DEF LoadMiss, At, LoginsUnderWay
<1>3. ASSUME NEW r \in Requests, Start(r) PROVE LoginsUnderWay'
  <2>1. UNCHANGED <<opened, closes, app>> /\ req[r].at = "start"  BY <1>3 DEF Start, At
  <2> QED  BY <1>3, <1>a, <1>A, <2>1, StartFields DEF LoginsUnderWay
<1>4. ASSUME NEW r \in Requests, Leave(r) PROVE LoginsUnderWay'
  BY <1>4, <1>a, <1>b, <1>A, FieldsChanged DEF Leave
<1>5. ASSUME NEW r \in Requests, NEW s \in Ids, LoadHit(r, s) PROVE LoginsUnderWay'
  BY <1>5, <1>a, <1>A, HitFields DEF LoadHit
<1>6. ASSUME NEW r \in Requests, NEW s \in Ids, LoadExpired(r, s) PROVE LoginsUnderWay'
  BY <1>6, <1>a, <1>A, FieldsChanged DEF LoadExpired, At, LoginsUnderWay
<1>7. ASSUME NEW r \in Requests, Dial(r) PROVE LoginsUnderWay'
  <2>1. /\ req'[r].at = "connected" /\ req'[r].s = req[r].s /\ req'[r].p = opened + 1
        /\ \A q \in Requests \ {r} : req'[q] = req[q]
    BY <1>7, <1>a, DialFields
  <2>2. opened' = opened + 1 /\ UNCHANGED <<closes, app>> /\ app[req[r].s] = 0
    BY <1>7 DEF Dial
  <2>3. opened \in Nat /\ opened + 1 \in opened + 1 .. MaxLogins  BY <1>7, <1>a DEF Dial, TypeOK
  <2>4. closes[opened + 1] = 0  BY <1>a, <2>3 DEF PayloadsAccounted
  <2>5. \A q \in Requests : req[q].p # 0 => req[q].p \in 1 .. opened  BY <1>a DEF LoginsUnderWay
  <2> QED  BY <1>a, <2>1, <2>2, <2>3, <2>4, <2>5 DEF LoginsUnderWay
<1>8. ASSUME NEW r \in Requests, AuthenticateRead(r) PROVE LoginsUnderWay'
  <2>1. UNCHANGED <<opened, closes, app>> /\ req[r].at = "connected"
    BY <1>8 DEF AuthenticateRead, At
  <2> QED  BY <1>8, <1>a, <2>1, ReadFields DEF LoginsUnderWay
<1>9. ASSUME NEW r \in Requests, AuthenticateReplace(r) PROVE LoginsUnderWay'
  <2>1. /\ req'[r] = Idle /\ \A q \in Requests \ {r} : req'[q] = req[q]
        /\ UNCHANGED <<opened, closes>>
    BY <1>9, <1>a, FieldsChanged DEF AuthenticateReplace
  <2>2. app' = [app EXCEPT ![Minted(req[r].p)] = req[r].p]  BY <1>9 DEF AuthenticateReplace
  <2>3. \A q \in Requests : req[q].at \in {"connected", "replace"} => req[q].s # Minted(req[r].p)
    <3>1. req[r].p \in 1 .. opened  BY <1>9, <1>a DEF AuthenticateReplace, At, LoginsUnderWay
    <3>2. ~ Exists(Minted(req[r].p))
      <4>1. MaxStarts \in Nat /\ req[r].p \in Nat \ {0}  BY <1>a, <3>1 DEF TypeOK
      <4>2. ~ (Minted(req[r].p) <= MaxStarts) /\ Minted(req[r].p) - MaxStarts = req[r].p
        BY <4>1 DEF Minted
      <4> QED  BY <4>2 DEF Exists
    <3> QED  BY <1>a, <3>2 DEF Whereabouts
  <2>4. ASSUME NEW q \in Requests, req[q].at \in {"connected", "replace"}
        PROVE  app'[req[q].s] = 0
    <3>1. req[q].s \in Ids /\ app[req[q].s] = 0
      BY <1>a, <2>4 DEF LoginsUnderWay, Whereabouts
    <3>2. app \in [Ids -> 0 .. MaxLogins]  BY <1>a DEF TypeOK
    <3> QED  BY <2>2, <2>3, <2>4, <3>1, <3>2
  <2> QED  BY <1>a, <1>b, <2>1, <2>4 DEF LoginsUnderWay
<1>10. ASSUME NEW r \in Requests, AuthenticateFail(r) PROVE LoginsUnderWay'
  <2>1. /\ req'[r] = Idle /\ \A q \in Requests \ {r} : req'[q] = req[q]
        /\ UNCHANGED <<opened, app>> /\ closes' = [closes EXCEPT ![req[r].p] = @ + 1]
    BY <1>10, <1>a, FieldsChanged DEF AuthenticateFail
  <2>2. \A q \in Requests \ {r} : req[q].p # 0 => req[q].p # req[r].p
    BY <1>a DEF LoginsUnderWay
  <2>3. \A q \in Requests \ {r} : req[q].p \in 1 .. opened => closes'[req[q].p] = closes[req[q].p]
    BY <1>a, <2>1, <2>2 DEF TypeOK, Logins
  <2> QED  BY <1>a, <1>b, <2>1, <2>2, <2>3 DEF LoginsUnderWay
<1>11. ASSUME NEW r \in Requests, Logout(r) PROVE LoginsUnderWay'
  BY <1>11, <1>a, <1>b, <1>A, FieldsChanged DEF Logout
<1>12. ASSUME NEW r \in Requests, SSOStart(r) PROVE LoginsUnderWay'
  <2>1. UNCHANGED <<opened, closes, app>> /\ req[r].at = "routed"  BY <1>12 DEF SSOStart, At
  <2> QED  BY <1>12, <1>a, <1>A, <2>1, HandshakeFields DEF LoginsUnderWay
<1>13. ASSUME NEW r \in Requests, SSOBegin(r) PROVE LoginsUnderWay'
  BY <1>13, <1>a, <1>b, <1>A, FieldsChanged DEF SSOBegin
<1>14. ASSUME NEW r \in Requests, NEW h \in Handshakes, SSOConsume(r, h) PROVE LoginsUnderWay'
  <2>1. UNCHANGED <<opened, closes, app>> /\ req[r].at = "routed"  BY <1>14 DEF SSOConsume, At
  <2> QED  BY <1>14, <1>a, <1>A, <2>1, HandshakeFields DEF LoginsUnderWay
<1>15. ASSUME NEW r \in Requests, SSODeny(r) PROVE LoginsUnderWay'
  BY <1>15, <1>a, <1>b, <1>A, FieldsChanged DEF SSODeny
<1>16. ASSUME NEW r \in Requests, SSOVerify(r) PROVE LoginsUnderWay'
  BY <1>16, <1>a, <1>b, <1>A, FieldsChanged DEF SSOVerify
<1>17. ASSUME NEW a \in Actors, CloseRemoved(a) PROVE LoginsUnderWay'
  <2>1. PICK s \in removed[a] : CloseSession(s)  BY <1>17 DEF CloseRemoved
  <2>2. s \in Ids  BY <1>a DEF TypeOK
  <2>3. UNCHANGED <<opened, req>>  BY <1>17 DEF CloseRemoved
  <2>4. \A q \in Requests : req[q].p # 0 => app[s] # req[q].p
    <3> SUFFICES ASSUME NEW q \in Requests, req[q].p # 0, app[s] = req[q].p PROVE FALSE
      OBVIOUS
    <3>1. req[q].p \in 0 .. MaxLogins  BY <1>a, RequestTyped
    <3>2. Exists(s) /\ s = Minted(req[q].p)  BY <1>a, <2>2 DEF Whereabouts
    <3> QED  BY <3>1, <3>2 DEF Exists, Minted
  <2>5. \A q \in Requests : req[q].p # 0 => closes'[req[q].p] = closes[req[q].p]
    <3>1. closes \in [Logins -> Nat]  BY <1>a DEF TypeOK
    <3>2. closes' = closes \/ closes' = [closes EXCEPT ![app[s]] = @ + 1]
      BY <2>1 DEF CloseSession
    <3>3. \A q \in Requests : req[q].p # 0 => req[q].p \in Logins
      BY <1>a, RequestTyped DEF Logins
    <3> QED  BY <2>4, <3>1, <3>2, <3>3
  <2>6. \A t \in Ids : app[t] = 0 => app'[t] = 0  BY <1>a, <2>1 DEF CloseSession, TypeOK
  <2> QED  BY <1>a, <2>3, <2>5, <2>6 DEF LoginsUnderWay, Whereabouts
<1>18. ASSUME Reap PROVE LoginsUnderWay'
  BY <1>18, <1>B DEF Reap
<1>19. ASSUME ShutsDown PROVE LoginsUnderWay'
  BY <1>19, <1>B DEF ShutsDown, Drain, Shutdown, ShutdownDone
<1>20. CASE UNCHANGED vars
  BY <1>20, <1>B DEF vars
<1> QED
  BY <1>1, <1>2, <1>3, <1>4, <1>5, <1>6, <1>7, <1>8, <1>9, <1>10, <1>11, <1>12, <1>13,
     <1>14, <1>15, <1>16, <1>17, <1>18, <1>19, <1>20
  DEF Next, Handles, Stopped

\* Exists(s), of the state after the step.
ExistsThen(s) ==
    IF s <= MaxStarts THEN s <= made'
    ELSE s - MaxStarts <= opened' /\ \A r \in Requests : req'[r].p # s - MaxStarts

\* What has been made stays made: a session of a login exists from the moment no
\* request holds its payload any more.
LEMMA ExistsKept ==
    ASSUME IInv, [Next]_vars, NEW t \in Ids, Exists(t)
    PROVE  ExistsThen(t)
<1> DEFINE Kept == ExistsThen(t)
<1>a. TypeOK  BY DEF IInv
<1> USE ManagerAssumption DEF sessionVars, ssoVars, poolVars, downVars
<1>b. Idle.p = 0  BY DEF Idle
<1>A. ASSUME NEW r \in Requests,
             \A q \in Requests \ {r} : req'[q] = req[q],
             req'[r].p \in {0, req[r].p, opened + 1},
             made' \in {made, made + 1}, opened' \in {opened, opened + 1}
      PROVE  Kept
  <2>1. /\ made \in Nat /\ opened \in Nat /\ t \in Nat /\ MaxStarts \in Nat
        /\ \A q \in Requests : req[q].p \in Nat
    <3>1. made \in Nat /\ opened \in Nat  BY <1>a DEF TypeOK
    <3>2. t \in Nat /\ MaxStarts \in Nat  BY DEF Ids
    <3>3. \A q \in Requests : req[q].p \in 0 .. MaxLogins  BY <1>a, RequestTyped
    <3> QED  BY <3>1, <3>2, <3>3
  <2>2. CASE t <= MaxStarts
    BY <1>A, <2>1, <2>2 DEF Exists, ExistsThen
  <2>3. CASE ~ (t <= MaxStarts)
    <3>1. t - MaxStarts <= opened /\ \A q \in Requests : req[q].p # t - MaxStarts
      BY <2>3 DEF Exists
    <3>2. t - MaxStarts # opened + 1 /\ t - MaxStarts # 0 /\ t - MaxStarts <= opened'
      BY <1>A, <2>1, <2>3, <3>1
    <3>3. \A q \in Requests : req'[q].p \in {0, req[q].p, opened + 1}
      BY <1>A
    <3> QED  BY <2>3, <3>1, <3>2, <3>3 DEF ExistsThen
  <2> QED  BY <2>2, <2>3
<1>B. ASSUME UNCHANGED <<made, opened, req>> PROVE Kept
  BY <1>B DEF Exists, ExistsThen
<1> HIDE DEF Kept
<1>1. ASSUME NEW s \in Ids, Age(s) PROVE Kept
  BY <1>1, <1>B DEF Age
<1>2. ASSUME NEW r \in Requests, LoadMiss(r) PROVE Kept
  BY <1>2, <1>a, <1>A, FieldsChanged DEF LoadMiss
<1>3. ASSUME NEW r \in Requests, Start(r) PROVE Kept
  BY <1>3, <1>a, <1>A, StartFields DEF Start, TypeOK
<1>4. ASSUME NEW r \in Requests, Leave(r) PROVE Kept
  BY <1>4, <1>a, <1>b, <1>A, FieldsChanged DEF Leave
<1>5. ASSUME NEW r \in Requests, NEW s \in Ids, LoadHit(r, s) PROVE Kept
  BY <1>5, <1>a, <1>A, HitFields DEF LoadHit
<1>6. ASSUME NEW r \in Requests, NEW s \in Ids, LoadExpired(r, s) PROVE Kept
  BY <1>6, <1>a, <1>A, FieldsChanged DEF LoadExpired
<1>7. ASSUME NEW r \in Requests, Dial(r) PROVE Kept
  BY <1>7, <1>a, <1>A, DialFields DEF Dial, TypeOK
<1>8. ASSUME NEW r \in Requests, AuthenticateRead(r) PROVE Kept
  BY <1>8, <1>a, <1>A, ReadFields DEF AuthenticateRead
<1>9. ASSUME NEW r \in Requests, AuthenticateReplace(r) PROVE Kept
  BY <1>9, <1>a, <1>b, <1>A, FieldsChanged DEF AuthenticateReplace
<1>10. ASSUME NEW r \in Requests, AuthenticateFail(r) PROVE Kept
  BY <1>10, <1>a, <1>b, <1>A, FieldsChanged DEF AuthenticateFail
<1>11. ASSUME NEW r \in Requests, Logout(r) PROVE Kept
  BY <1>11, <1>a, <1>b, <1>A, FieldsChanged DEF Logout
<1>12. ASSUME NEW r \in Requests, SSOStart(r) PROVE Kept
  <2>1. UNCHANGED <<made, opened>>  BY <1>12 DEF SSOStart
  <2> QED  BY <1>12, <1>a, <1>A, <2>1, HandshakeFields
<1>13. ASSUME NEW r \in Requests, SSOBegin(r) PROVE Kept
  BY <1>13, <1>a, <1>b, <1>A, FieldsChanged DEF SSOBegin
<1>14. ASSUME NEW r \in Requests, NEW h \in Handshakes, SSOConsume(r, h) PROVE Kept
  <2>1. UNCHANGED <<made, opened>>  BY <1>14 DEF SSOConsume
  <2> QED  BY <1>14, <1>a, <1>A, <2>1, HandshakeFields
<1>15. ASSUME NEW r \in Requests, SSODeny(r) PROVE Kept
  BY <1>15, <1>a, <1>b, <1>A, FieldsChanged DEF SSODeny
<1>16. ASSUME NEW r \in Requests, SSOVerify(r) PROVE Kept
  BY <1>16, <1>a, <1>b, <1>A, FieldsChanged DEF SSOVerify
<1>17. ASSUME NEW a \in Actors, CloseRemoved(a) PROVE Kept
  BY <1>17, <1>B DEF CloseRemoved
<1>18. ASSUME Reap PROVE Kept
  BY <1>18, <1>B DEF Reap
<1>19. ASSUME ShutsDown PROVE Kept
  BY <1>19, <1>B DEF ShutsDown, Drain, Shutdown, ShutdownDone
<1>20. CASE UNCHANGED vars
  BY <1>20, <1>B DEF vars, Kept
<1> QED
  BY <1>1, <1>2, <1>3, <1>4, <1>5, <1>6, <1>7, <1>8, <1>9, <1>10, <1>11, <1>12, <1>13,
     <1>14, <1>15, <1>16, <1>17, <1>18, <1>19, <1>20
  DEF Next, Handles, Stopped, Kept

\* A session taken out of the store is not in it again, whoever takes it out and
\* whoever is to close it.
LEMMA WhereaboutsStep == IInv /\ [Next]_vars => Whereabouts'
<1> SUFFICES ASSUME IInv, [Next]_vars PROVE Whereabouts'  OBVIOUS
<1>a. TypeOK /\ TypeOK' /\ Whereabouts /\ LoginsUnderWay
  BY TypeStep DEF IInv
<1> USE ManagerAssumption DEF sessionVars, ssoVars, poolVars, downVars
<1>b. Idle.at = "idle"  BY DEF Idle
<1>c. Stored \subseteq Ids /\ \A a \in Actors : removed[a] \subseteq Ids
  BY <1>a, StoredAreIds DEF TypeOK
<1>d. \A t \in Ids : Exists(t) => ExistsThen(t)  BY ExistsKept
<1> DEFINE Standing(r) == req'[r].at \notin {"idle", "start"} => req'[r].s \in Ids /\ ExistsThen(req'[r].s)
           Owned == \A s \in Ids : app'[s] # 0 => ExistsThen(s) /\ s = Minted(app'[s])
           Places == /\ \A s \in Stored' : ExistsThen(s)
                     /\ \A b \in Actors : \A s \in removed'[b] : ExistsThen(s)
                     /\ \A b \in Actors : removed'[b] \cap Stored' = {}
           Carry == \A q \in Requests : Standing(q)
<1>e. ASSUME NEW r \in Requests, req[r].at \notin {"idle", "start"}
      PROVE  req[r].s \in Ids /\ Exists(req[r].s) /\ ExistsThen(req[r].s)
  BY <1>a, <1>d, <1>e DEF Whereabouts
<1>A. ASSUME NEW r \in Requests,
             \A q \in Requests \ {r} : req'[q] = req[q], Standing(r)
      PROVE  Carry
  BY <1>a, <1>d, <1>A DEF Whereabouts
<1>B. ASSUME UNCHANGED app PROVE Owned
  BY <1>a, <1>d, <1>B DEF Whereabouts
<1>C. ASSUME UNCHANGED <<preAuth, auth, removed>> PROVE Places
  BY <1>a, <1>c, <1>d, <1>C DEF Whereabouts, Stored
\* Sessions leave the store for an actor that had none to close.
<1>D. ASSUME NEW a \in Actors, NEW gone, NEW out \in SUBSET Ids, TakeOut(gone), out \subseteq gone,
             removed' = [removed EXCEPT ![a] = out], \A s \in out : Exists(s)
      PROVE  Places
  <2>1. Stored' = Stored \ gone  BY <1>a, <1>D, TakeOutProperties
  <2>2. \A b \in Actors : removed'[b] = IF b = a THEN out ELSE removed[b]
    BY <1>a, <1>D DEF TypeOK
  <2> QED  BY <1>a, <1>c, <1>d, <1>D, <2>1, <2>2 DEF Whereabouts
<1>Q. ASSUME Places, Carry, Owned PROVE Whereabouts'
  BY <1>Q DEF Whereabouts, Exists, ExistsThen
<1>R. ASSUME UNCHANGED req PROVE Carry
  BY <1>a, <1>d, <1>R DEF Whereabouts
<1> HIDE DEF Places, Owned, Carry
\* A request's step that leaves the store and the payloads alone.
<1>S. ASSUME NEW r \in Requests, UNCHANGED <<preAuth, auth, app, removed>>,
             \A q \in Requests \ {r} : req'[q] = req[q],
             Standing(r)
      PROVE  Whereabouts'
  BY <1>S, <1>A, <1>B, <1>C, <1>Q
<1>T. ASSUME UNCHANGED <<preAuth, auth, app, removed, req>> PROVE Whereabouts'
  BY <1>T, <1>R, <1>B, <1>C, <1>Q
<1>1. ASSUME NEW s \in Ids, Age(s) PROVE Whereabouts'
  BY <1>1, <1>T DEF Age
<1>2. ASSUME NEW r \in Requests, LoadMiss(r) PROVE Whereabouts'
  BY <1>2, <1>a, <1>S, FieldsChanged DEF LoadMiss
<1>3. ASSUME NEW r \in Requests, Start(r) PROVE Whereabouts'
  <2>1. made + 1 \in Starts  BY <1>3, <1>a DEF Start, TypeOK, Starts
  <2>2. Save(made + 1) /\ made' = made + 1 /\ UNCHANGED app /\ removed' = [removed EXCEPT ![r] = Victims]
    BY <1>3 DEF Start
  <2>3. Stored' = (Stored \ Victims) \cup {made + 1} /\ Victims \subseteq Stored
    BY <1>a, <2>1, <2>2, SaveProperties
  <2> HIDE DEF Victims
  <2>4. made + 1 \in Ids /\ ~ Exists(made + 1) /\ ExistsThen(made + 1)
    BY <1>a, <2>1, <2>2 DEF Starts, Ids, Exists, ExistsThen, TypeOK
  <2>5. \A b \in Actors : removed'[b] = IF b = r THEN Victims ELSE removed[b]
    BY <1>a, <2>2 DEF TypeOK, Actors
  <2>6. Places
    BY <1>a, <1>c, <1>d, <2>3, <2>4, <2>5 DEF Whereabouts, Places
  <2>7. Standing(r) /\ \A q \in Requests \ {r} : req'[q] = req[q]
    BY <1>3, <1>a, <2>4, StartFields
  <2> QED  BY <1>A, <1>B, <1>Q, <2>2, <2>6, <2>7
<1>4. ASSUME NEW r \in Requests, Leave(r) PROVE Whereabouts'
  BY <1>4, <1>a, <1>b, <1>S, FieldsChanged DEF Leave
<1>5. ASSUME NEW r \in Requests, NEW s \in Ids, LoadHit(r, s) PROVE Whereabouts'
  <2>1. s \in Stored /\ UNCHANGED <<preAuth, auth, app, removed>>  BY <1>5 DEF LoadHit
  <2>2. ExistsThen(s)  BY <1>a, <1>d, <2>1 DEF Whereabouts
  <2> QED  BY <1>5, <1>a, <1>S, <2>1, <2>2, HitFields
<1>6. ASSUME NEW r \in Requests, NEW s \in Ids, LoadExpired(r, s) PROVE Whereabouts'
  <2>1. /\ s \in Stored /\ TakeOut({s}) /\ removed' = [removed EXCEPT ![r] = {s}]
        /\ Goes(r, "start") /\ UNCHANGED app
    BY <1>6 DEF LoadExpired
  <2>2. Places
    <3>1. r \in Actors /\ {s} \in SUBSET Ids /\ \A t \in {s} : Exists(t)
      BY <1>a, <2>1 DEF Actors, Whereabouts
    <3> QED  BY <1>D, <2>1, <3>1
  <2>3. Standing(r) /\ \A q \in Requests \ {r} : req'[q] = req[q]
    BY <1>a, <2>1, FieldsChanged
  <2> QED  BY <1>A, <1>B, <1>Q, <2>1, <2>2, <2>3
<1>7. ASSUME NEW r \in Requests, Dial(r) PROVE Whereabouts'
  <2>1. req[r].at = "routed" /\ UNCHANGED <<preAuth, auth, app, removed>>  BY <1>7 DEF Dial, At
  <2> QED  BY <1>7, <1>a, <1>e, <1>S, <2>1, DialFields
<1>8. ASSUME NEW r \in Requests, AuthenticateRead(r) PROVE Whereabouts'
  <2>1. req[r].at = "connected" /\ UNCHANGED <<preAuth, auth, app, removed>>
    BY <1>8 DEF AuthenticateRead, At
  <2> QED  BY <1>8, <1>a, <1>e, <1>S, <2>1, ReadFields
<1>9. ASSUME NEW r \in Requests, AuthenticateReplace(r) PROVE Whereabouts'
  <2> DEFINE p == req[r].p
             old == req[r].s
             new == Minted(p)
  <2>1. /\ req[r].at = "replace" /\ old \in Stored /\ Replace(old, new) /\ Ends(r)
        /\ app' = [app EXCEPT ![new] = p] /\ removed' = [removed EXCEPT ![r] = {old}]
        /\ UNCHANGED <<made, opened>>
    BY <1>9 DEF AuthenticateReplace, At, Member
  <2>2. p \in 1 .. opened /\ opened \in 0 .. MaxLogins  BY <1>a, <2>1 DEF LoginsUnderWay, TypeOK
  <2>3. new \in Ids /\ new = MaxStarts + p /\ ~ (new <= MaxStarts)  BY <2>2 DEF Minted, Ids
  <2>4. req'[r] = Idle /\ \A q \in Requests \ {r} : req'[q] = req[q]  BY <1>a, <2>1, FieldsChanged
  <2>5. ~ Exists(new)  BY <2>2, <2>3 DEF Exists
  <2>6. ExistsThen(new)
    <3>1. \A q \in Requests : req'[q].p # p
      BY <1>a, <2>2, <2>4 DEF LoginsUnderWay, Idle
    <3> QED  BY <2>1, <2>2, <2>3, <3>1 DEF ExistsThen
  <2>7. Stored' = (Stored \ {old}) \cup {new}  BY <1>a, <2>1, <2>3, ReplaceProperties
  <2>8. \A b \in Actors : removed'[b] = IF b = r THEN {old} ELSE removed[b]
    BY <1>a, <2>1 DEF TypeOK, Actors
  <2>9. old # new  BY <1>a, <2>1, <2>5 DEF Whereabouts
  <2> HIDE DEF old, new
  <2>10. Places
    BY <1>a, <1>c, <1>d, <2>1, <2>5, <2>6, <2>7, <2>8, <2>9 DEF Whereabouts, Places
  <2>11. Owned
    <3>1. app \in [Ids -> 0 .. MaxLogins]  BY <1>a DEF TypeOK
    <3>2. new = Minted(p)  BY DEF new
    <3> QED  BY <1>a, <1>d, <2>1, <2>6, <3>1, <3>2 DEF Whereabouts, Owned
  <2>12. Carry  BY <1>A, <1>b, <2>4
  <2> QED  BY <1>Q, <2>10, <2>11, <2>12
<1>10. ASSUME NEW r \in Requests, AuthenticateFail(r) PROVE Whereabouts'
  BY <1>10, <1>a, <1>b, <1>S, FieldsChanged DEF AuthenticateFail
<1>11. ASSUME NEW r \in Requests, Logout(r) PROVE Whereabouts'
  <2> DEFINE s == req[r].s
  <2>1. /\ req[r].at = "routed" /\ TakeOut({s}) /\ removed' = [removed EXCEPT ![r] = {s}]
        /\ Ends(r) /\ UNCHANGED app
    BY <1>11 DEF Logout, At
  <2>2. Places
    <3>1. r \in Actors /\ {s} \in SUBSET Ids /\ \A t \in {s} : Exists(t)
      BY <1>e, <2>1 DEF Actors
    <3> HIDE DEF s
    <3> QED  BY <1>D, <2>1, <3>1
  <2>3. Standing(r) /\ \A q \in Requests \ {r} : req'[q] = req[q]
    BY <1>a, <1>b, <2>1, FieldsChanged
  <2> QED  BY <1>A, <1>B, <1>Q, <2>1, <2>2, <2>3
<1>12. ASSUME NEW r \in Requests, SSOStart(r) PROVE Whereabouts'
  <2>1. req[r].at = "routed" /\ UNCHANGED <<preAuth, auth, app, removed>>  BY <1>12 DEF SSOStart, At
  <2> QED  BY <1>12, <1>a, <1>e, <1>S, <2>1, HandshakeFields
<1>13. ASSUME NEW r \in Requests, SSOBegin(r) PROVE Whereabouts'
  BY <1>13, <1>a, <1>b, <1>S, FieldsChanged DEF SSOBegin
<1>14. ASSUME NEW r \in Requests, NEW h \in Handshakes, SSOConsume(r, h) PROVE Whereabouts'
  <2>1. req[r].at = "routed" /\ UNCHANGED <<preAuth, auth, app, removed>>  BY <1>14 DEF SSOConsume, At
  <2> QED  BY <1>14, <1>a, <1>e, <1>S, <2>1, HandshakeFields
<1>15. ASSUME NEW r \in Requests, SSODeny(r) PROVE Whereabouts'
  BY <1>15, <1>a, <1>b, <1>S, FieldsChanged DEF SSODeny
<1>16. ASSUME NEW r \in Requests, SSOVerify(r) PROVE Whereabouts'
  BY <1>16, <1>a, <1>b, <1>S, FieldsChanged DEF SSOVerify
<1>17. ASSUME NEW a \in Actors, CloseRemoved(a) PROVE Whereabouts'
  <2>1. PICK s \in removed[a] : CloseSession(s) /\ removed' = [removed EXCEPT ![a] = @ \ {s}]
    BY <1>17 DEF CloseRemoved
  <2>2. UNCHANGED <<preAuth, auth, req>>  BY <1>17 DEF CloseRemoved
  <2>3. \A b \in Actors : removed'[b] \subseteq removed[b]  BY <1>a, <2>1 DEF TypeOK
  <2>4. Places  BY <1>a, <1>c, <1>d, <2>2, <2>3 DEF Whereabouts, Places, Stored
  <2>5. \A t \in Ids : app'[t] # 0 => app'[t] = app[t]  BY <1>a, <2>1 DEF CloseSession, TypeOK
  <2>6. Owned  BY <1>a, <1>d, <2>5 DEF Whereabouts, Owned
  <2> QED  BY <1>Q, <1>R, <2>2, <2>4, <2>6
<1>18. ASSUME Reap PROVE Whereabouts'
  <2>1. /\ TakeOut(stale) /\ removed' = [removed EXCEPT !["reaper"] = Stored \cap stale]
        /\ UNCHANGED <<req, app>>
    BY <1>18 DEF Reap
  <2>2. Places
    <3> DEFINE out == Stored \cap stale
    <3>1. "reaper" \in Actors /\ out \in SUBSET Ids /\ out \subseteq stale /\ \A t \in out : Exists(t)
      BY <1>a, <1>c DEF Actors, Whereabouts
    <3> HIDE DEF out
    <3> QED  BY <1>D, <2>1, <3>1 DEF out
  <2> QED  BY <1>Q, <1>R, <1>B, <2>1, <2>2
<1>19. ASSUME Drain \/ ShutdownDone PROVE Whereabouts'
  BY <1>19, <1>T DEF Drain, ShutdownDone
<1>20. ASSUME Shutdown PROVE Whereabouts'
  <2>1. /\ TakeOut(Stored) /\ removed' = [removed EXCEPT !["shutdown"] = Stored]
        /\ UNCHANGED <<req, app>>
    BY <1>20 DEF Shutdown
  <2>2. Places
    <3>1. "shutdown" \in Actors /\ Stored \in SUBSET Ids /\ \A t \in Stored : Exists(t)
      BY <1>a, <1>c DEF Actors, Whereabouts
    <3> QED  BY <1>D, <2>1, <3>1
  <2> QED  BY <1>Q, <1>R, <1>B, <2>1, <2>2
<1>21. CASE UNCHANGED vars
  BY <1>21, <1>T DEF vars
<1> QED
  BY <1>1, <1>2, <1>3, <1>4, <1>5, <1>6, <1>7, <1>8, <1>9, <1>10, <1>11, <1>12, <1>13,
     <1>14, <1>15, <1>16, <1>17, <1>18, <1>19, <1>20, <1>21
  DEF Next, Handles, ShutsDown, Stopped

\* No action loses a payload or closes one twice: what leaves the store with a
\* payload is with the actor that took it out until CloseSession has closed it.
LEMMA PayloadsStep == IInv /\ [Next]_vars => PayloadsAccounted'
<1> SUFFICES ASSUME IInv, [Next]_vars PROVE PayloadsAccounted'  OBVIOUS
<1>a. TypeOK /\ TypeOK' /\ Whereabouts /\ LoginsUnderWay /\ PayloadsAccounted
  BY TypeStep DEF IInv
<1> USE ManagerAssumption DEF sessionVars, ssoVars, poolVars, downVars
<1>b. Idle.at = "idle" /\ Idle.p = 0  BY DEF Idle
<1>c. opened \in 0 .. MaxLogins /\ \A p \in 1 .. opened : p \in Logins /\ Minted(p) \in Ids
  BY <1>a DEF TypeOK, Logins, Minted, Ids
<1>d. \A r \in Requests : req[r].at \notin {"connected", "replace"} => req[r].p = 0
  BY <1>a DEF LoginsUnderWay
<1>e. /\ app \in [Ids -> 0 .. MaxLogins] /\ closes \in [Logins -> Nat]
      /\ removed \in [Actors -> SUBSET Ids]
  BY <1>a DEF TypeOK
<1>f. ToSet(auth) \subseteq Ids  BY <1>a, StoredAreIds
<1>g. \A s \in Ids : app[s] # 0 => s = Minted(app[s]) /\ Exists(s)  BY <1>a DEF Whereabouts
<1> DEFINE Same == UNCHANGED <<app, closes, opened>> /\ \A q \in Requests : req'[q].p = req[q].p
           Taken == \A s \in ToSet(auth) \ ToSet(auth') : \E a \in Actors : s \in removed'[a]
           Kept == \A a \in Actors : removed[a] \subseteq removed'[a]
\* No payload changes, and what leaves the store is somebody's to close.
<1>A. ASSUME Same, ToSet(auth') \subseteq ToSet(auth), Taken, Kept
      PROVE  PayloadsAccounted'
  BY <1>a, <1>A DEF PayloadsAccounted
<1>B. ASSUME Same, UNCHANGED <<auth, removed>> PROVE PayloadsAccounted'
  BY <1>A, <1>B
<1>C. ASSUME NEW a \in Actors, NEW gone, NEW out \in SUBSET Ids, Same, TakeOut(gone),
             removed' = [removed EXCEPT ![a] = out], removed[a] = {},
             Stored \cap gone \subseteq out
      PROVE  PayloadsAccounted'
  <2>1. ToSet(auth') = ToSet(auth) \ gone  BY <1>a, <1>C, TakeOutProperties
  <2>2. out \subseteq removed'[a] /\ \A b \in Actors : removed[b] \subseteq removed'[b]
    BY <1>e, <1>C
  <2> QED  BY <1>A, <1>C, <2>1, <2>2 DEF Stored
<1>E. ASSUME NEW r \in Requests, req[r].p = 0, Ends(r) PROVE \A q \in Requests : req'[q].p = req[q].p
  BY <1>a, <1>b, <1>E, FieldsChanged
<1>1. ASSUME NEW s \in Ids, Age(s) PROVE PayloadsAccounted'
  BY <1>1, <1>B DEF Age
<1>2. ASSUME NEW r \in Requests, LoadMiss(r) PROVE PayloadsAccounted'
  <2>1. Same  BY <1>2, <1>a, FieldsChanged DEF LoadMiss
  <2> QED  BY <1>2, <1>B, <2>1 DEF LoadMiss
<1>3. ASSUME NEW r \in Requests, Start(r) PROVE PayloadsAccounted'
  <2>1. made + 1 \in Starts  BY <1>3, <1>a DEF Start, TypeOK, Starts
  <2>2. Save(made + 1) /\ UNCHANGED <<app, closes, opened>> /\ removed[r] = {}
        /\ removed' = [removed EXCEPT ![r] = Victims]
    BY <1>3 DEF Start, At
  <2>3. ToSet(auth') = ToSet(auth) \ Victims  BY <1>a, <2>1, <2>2, SaveProperties
  <2> HIDE DEF Victims
  <2>4. r \in Actors /\ removed'[r] = Victims /\ \A b \in Actors : removed[b] \subseteq removed'[b]
    BY <1>e, <2>2 DEF Actors
  <2>5. Same  BY <1>3, <1>a, <2>2, StartFields
  <2> QED  BY <1>A, <2>3, <2>4, <2>5
<1>4. ASSUME NEW r \in Requests, Leave(r) PROVE PayloadsAccounted'
  <2>1. req[r].at \in {"start", "routed"} /\ Ends(r) /\ UNCHANGED <<app, closes, opened, auth, removed>>
    BY <1>4 DEF Leave, At
  <2> QED  BY <1>B, <1>E, <1>d, <2>1
<1>5. ASSUME NEW r \in Requests, NEW s \in Ids, LoadHit(r, s) PROVE PayloadsAccounted'
  <2>1. req[r].at = "idle" /\ UNCHANGED <<app, closes, opened, auth, removed>>
    BY <1>5 DEF LoadHit, At
  <2> QED  BY <1>5, <1>a, <1>B, <1>d, <2>1, HitFields
<1>6. ASSUME NEW r \in Requests, NEW s \in Ids, LoadExpired(r, s) PROVE PayloadsAccounted'
  <2>1. /\ TakeOut({s}) /\ removed' = [removed EXCEPT ![r] = {s}] /\ removed[r] = {}
        /\ Goes(r, "start") /\ UNCHANGED <<app, closes, opened>>
    BY <1>6 DEF LoadExpired, At
  <2>2. Same  BY <1>a, <2>1, FieldsChanged
  <2>3. r \in Actors /\ {s} \in SUBSET Ids /\ Stored \cap {s} \subseteq {s}  BY DEF Actors
  <2> QED  BY <1>C, <2>1, <2>2, <2>3
<1>7. ASSUME NEW r \in Requests, Dial(r) PROVE PayloadsAccounted'
  <2>1. /\ req[r].at = "routed" /\ opened < MaxLogins /\ opened' = opened + 1
        /\ UNCHANGED <<app, closes, auth, removed>>
    BY <1>7 DEF Dial, At
  <2>2. req[r].p = 0 /\ req'[r].p = opened + 1 /\ \A q \in Requests \ {r} : req'[q].p = req[q].p
    BY <1>7, <1>a, <1>d, <2>1, DialFields
  <2>3. \A p \in 1 .. opened' : p \in 1 .. opened \/ p = opened + 1  BY <1>c, <2>1
  <2>4. app[Minted(opened + 1)] = 0
    <3>1. opened + 1 \in 1 .. MaxLogins /\ Minted(opened + 1) \in Ids  BY <1>c, <2>1 DEF Minted, Ids
    <3>2. ~ Exists(Minted(opened + 1))  BY <1>c, <3>1 DEF Exists, Minted
    <3> QED  BY <1>g, <3>1, <3>2
  <2>5. \A p \in 1 .. opened : p # 0  OBVIOUS
  <2> QED  BY <1>a, <1>c, <2>1, <2>2, <2>3, <2>4, <2>5 DEF PayloadsAccounted
<1>8. ASSUME NEW r \in Requests, AuthenticateRead(r) PROVE PayloadsAccounted'
  <2>1. UNCHANGED <<app, closes, opened, auth, removed>>  BY <1>8 DEF AuthenticateRead
  <2> QED  BY <1>8, <1>a, <1>B, <2>1, ReadFields
<1>9. ASSUME NEW r \in Requests, AuthenticateReplace(r) PROVE PayloadsAccounted'
  <2> DEFINE p == req[r].p
             old == req[r].s
             new == Minted(p)
  <2>1. /\ req[r].at = "replace" /\ old \in Stored /\ Replace(old, new) /\ Ends(r) /\ removed[r] = {}
        /\ app' = [app EXCEPT ![new] = p] /\ removed' = [removed EXCEPT ![r] = {old}]
        /\ UNCHANGED <<opened, closes>>
    BY <1>9 DEF AuthenticateReplace, At, Member
  <2>2. /\ p \in 1 .. opened /\ closes[p] = 0 /\ app[old] = 0 /\ old \in Ids
    BY <1>a, <2>1 DEF LoginsUnderWay, Whereabouts
  <2>3. new \in Ids /\ p # 0  BY <1>c, <2>2
  <2>4. req'[r] = Idle /\ \A q \in Requests \ {r} : req'[q] = req[q]  BY <1>a, <2>1, FieldsChanged
  <2>5. ToSet(auth') = (ToSet(auth) \ {old}) \cup {new}  BY <1>a, <2>1, <2>3, ReplaceProperties
  <2>6. old \notin ToSet(auth)  BY <1>a, <2>2 DEF PayloadsAccounted
  <2>7. app'[new] = p /\ \A t \in Ids \ {new} : app'[t] = app[t]  BY <1>e, <2>1, <2>3
  <2>8. \A o \in 1 .. opened : o # p => Minted(o) # new  BY <2>2 DEF Minted
  <2>9. \A b \in Actors : removed[b] \subseteq removed'[b]  BY <1>e, <2>1
  <2>10. \A s \in ToSet(auth') : app'[s] # 0
    BY <1>a, <1>f, <2>3, <2>5, <2>7 DEF PayloadsAccounted
  <2>11. \A o \in 1 .. opened :
            \/ \E q \in Requests : req'[q].p = o
            \/ app'[Minted(o)] = o /\ closes[o] = 0
            \/ app'[Minted(o)] = 0 /\ closes[o] = 1
    <3> SUFFICES ASSUME NEW o \in 1 .. opened, o # p
                 PROVE  \/ \E q \in Requests : req'[q].p = o
                        \/ app'[Minted(o)] = o /\ closes[o] = 0
                        \/ app'[Minted(o)] = 0 /\ closes[o] = 1
      BY <2>2, <2>7
    <3>1. app'[Minted(o)] = app[Minted(o)]  BY <1>c, <2>7, <2>8
    <3>2. \A q \in Requests : req[q].p = o => req'[q].p = o  BY <2>4
    <3> HIDE DEF p
    <3> QED  BY <1>a, <3>1, <3>2 DEF PayloadsAccounted
  <2>12. \A o \in 1 .. opened : app'[Minted(o)] = o =>
            \/ Minted(o) \in ToSet(auth') \/ \E b \in Actors : Minted(o) \in removed'[b]
    <3> SUFFICES ASSUME NEW o \in 1 .. opened, app'[Minted(o)] = o, o # p
                 PROVE  \/ Minted(o) \in ToSet(auth') \/ \E b \in Actors : Minted(o) \in removed'[b]
      BY <2>5
    <3>1. app[Minted(o)] = o  BY <1>c, <2>7, <2>8
    <3> QED  BY <1>a, <2>5, <2>6, <2>9, <3>1 DEF PayloadsAccounted
  <2> QED  BY <1>a, <2>1, <2>10, <2>11, <2>12 DEF PayloadsAccounted
<1>10. ASSUME NEW r \in Requests, AuthenticateFail(r) PROVE PayloadsAccounted'
  <2> DEFINE p == req[r].p
  <2>1. /\ req[r].at = "replace" /\ Ends(r) /\ closes' = [closes EXCEPT ![p] = @ + 1]
        /\ UNCHANGED <<app, opened, auth, removed>>
    BY <1>10 DEF AuthenticateFail, At
  <2>2. p \in 1 .. opened /\ closes[p] = 0  BY <1>a, <2>1 DEF LoginsUnderWay
  <2>3. req'[r] = Idle /\ \A q \in Requests \ {r} : req'[q] = req[q]  BY <1>a, <2>1, FieldsChanged
  <2>4. app[Minted(p)] = 0
    <3>1. ~ Exists(Minted(p))  BY <1>c, <2>2 DEF Exists, Minted
    <3> QED  BY <1>c, <1>g, <2>2, <3>1
  <2>5. closes'[p] = 1 /\ \A o \in Logins \ {p} : closes'[o] = closes[o]  BY <1>c, <1>e, <2>1, <2>2
  <2>6. \A o \in opened + 1 .. MaxLogins : o \in Logins /\ o # p  BY <1>c, <2>2 DEF Logins
  <2>7. \A o \in Logins : closes'[o] \in {0, 1}  BY <1>a, <2>5 DEF PayloadsAccounted
  <2>8. \A o \in opened + 1 .. MaxLogins : closes'[o] = 0  BY <1>a, <2>5, <2>6 DEF PayloadsAccounted
  <2>9. \A q \in Requests, o \in 1 .. opened : o # p /\ req[q].p = o => req'[q].p = o  BY <2>3
  <2>10. \A o \in 1 .. opened :
            \/ \E q \in Requests : req'[q].p = o
            \/ app[Minted(o)] = o /\ closes'[o] = 0
            \/ app[Minted(o)] = 0 /\ closes'[o] = 1
    <3> HIDE DEF p
    <3> QED  BY <1>a, <1>c, <2>4, <2>5, <2>9 DEF PayloadsAccounted
  <2> QED  BY <1>a, <2>1, <2>7, <2>8, <2>10 DEF PayloadsAccounted
<1>11. ASSUME NEW r \in Requests, Logout(r) PROVE PayloadsAccounted'
  <2> DEFINE s == req[r].s
  <2>1. /\ req[r].at = "routed" /\ TakeOut({s}) /\ removed' = [removed EXCEPT ![r] = {s}]
        /\ removed[r] = {} /\ Ends(r) /\ UNCHANGED <<app, closes, opened>>
    BY <1>11 DEF Logout, At
  <2>2. Same  BY <1>d, <1>E, <2>1
  <2>3. r \in Actors /\ {s} \in SUBSET Ids /\ Stored \cap {s} \subseteq {s}
    BY <1>a, <2>1 DEF Actors, Whereabouts
  <2> HIDE DEF s
  <2> QED  BY <1>C, <2>1, <2>2, <2>3
<1>12. ASSUME NEW r \in Requests, SSOStart(r) PROVE PayloadsAccounted'
  <2>1. UNCHANGED <<app, closes, opened, auth, removed>>  BY <1>12 DEF SSOStart
  <2> QED  BY <1>12, <1>a, <1>B, <2>1, HandshakeFields
<1>13. ASSUME NEW r \in Requests, SSOBegin(r) PROVE PayloadsAccounted'
  <2>1. req[r].at = "begin" /\ Ends(r) /\ UNCHANGED <<app, closes, opened, auth, removed>>
    BY <1>13 DEF SSOBegin, At
  <2> QED  BY <1>B, <1>E, <1>d, <2>1
<1>14. ASSUME NEW r \in Requests, NEW h \in Handshakes, SSOConsume(r, h) PROVE PayloadsAccounted'
  <2>1. UNCHANGED <<app, closes, opened, auth, removed>>  BY <1>14 DEF SSOConsume
  <2> QED  BY <1>14, <1>a, <1>B, <2>1, HandshakeFields
<1>15. ASSUME NEW r \in Requests, SSODeny(r) \/ SSOVerify(r) PROVE PayloadsAccounted'
  <2>1. req[r].at = "exchange" /\ Ends(r) /\ UNCHANGED <<app, closes, opened, auth, removed>>
    BY <1>15 DEF SSODeny, SSOVerify, At
  <2> QED  BY <1>B, <1>E, <1>d, <2>1
<1>17. ASSUME NEW a \in Actors, CloseRemoved(a) PROVE PayloadsAccounted'
  <2>1. PICK s \in removed[a] : CloseSession(s) /\ removed' = [removed EXCEPT ![a] = @ \ {s}]
    BY <1>17 DEF CloseRemoved
  <2>2. UNCHANGED <<auth, req, opened>>  BY <1>17 DEF CloseRemoved
  <2>3. s \in Ids /\ s \notin ToSet(auth)  BY <1>a, <1>e DEF Whereabouts, Stored
  <2>4. app'[s] = 0 /\ \A t \in Ids \ {s} : app'[t] = app[t]  BY <1>e, <2>1, <2>3 DEF CloseSession
  <2>5. \A b \in Actors, t \in Ids : t # s /\ t \in removed[b] => t \in removed'[b]  BY <1>e, <2>1
  <2>6. \A t \in ToSet(auth) : app'[t] # 0  BY <1>a, <1>f, <2>3, <2>4 DEF PayloadsAccounted
  <2>7. \A o \in 1 .. opened : app'[Minted(o)] = o =>
            \/ Minted(o) \in ToSet(auth) \/ \E b \in Actors : Minted(o) \in removed'[b]
    <3> SUFFICES ASSUME NEW o \in 1 .. opened, app'[Minted(o)] = o
                 PROVE  \/ Minted(o) \in ToSet(auth) \/ \E b \in Actors : Minted(o) \in removed'[b]
      OBVIOUS
    <3>1. Minted(o) # s /\ Minted(o) \in Ids  BY <1>c, <2>4
    <3> QED  BY <1>a, <2>4, <2>5, <3>1 DEF PayloadsAccounted
  <2>8. CASE app[s] = 0
    <3>1. closes' = closes /\ \A t \in Ids : app'[t] = app[t]  BY <2>1, <2>4, <2>8 DEF CloseSession
    <3> QED  BY <1>a, <1>c, <2>2, <2>6, <2>7, <3>1 DEF PayloadsAccounted
  <2>9. CASE app[s] # 0
    <3> DEFINE p == app[s]
    <3>1. s = Minted(p) /\ p \in 1 .. opened
      BY <1>c, <1>e, <1>g, <2>3, <2>9 DEF Exists, Minted
    <3>2. closes[p] = 0
      BY <1>a, <1>g, <2>3, <2>9, <3>1 DEF PayloadsAccounted, Exists, Minted
    <3>3. closes'[p] = 1 /\ \A o \in Logins \ {p} : closes'[o] = closes[o]
      BY <1>c, <1>e, <2>1, <2>9, <3>1, <3>2 DEF CloseSession
    <3>4. \A o \in 1 .. opened : o # p => Minted(o) # s  BY <3>1 DEF Minted
    <3>5. \A o \in opened + 1 .. MaxLogins : o \in Logins /\ o # p  BY <1>c, <3>1 DEF Logins
    <3> HIDE DEF p
    <3>6. \A o \in Logins : closes'[o] \in {0, 1}  BY <1>a, <3>3 DEF PayloadsAccounted
    <3>7. \A o \in opened + 1 .. MaxLogins : closes'[o] = 0  BY <1>a, <3>3, <3>5 DEF PayloadsAccounted
    <3>8. \A o \in 1 .. opened :
            \/ \E q \in Requests : req[q].p = o
            \/ app'[Minted(o)] = o /\ closes'[o] = 0
            \/ app'[Minted(o)] = 0 /\ closes'[o] = 1
      BY <1>a, <1>c, <2>4, <3>1, <3>3, <3>4 DEF PayloadsAccounted
    <3> QED  BY <1>a, <2>2, <2>6, <2>7, <3>6, <3>7, <3>8 DEF PayloadsAccounted
  <2> QED  BY <2>8, <2>9
<1>18. ASSUME Reap PROVE PayloadsAccounted'
  <2> DEFINE out == Stored \cap stale
  <2>1. /\ TakeOut(stale) /\ removed["reaper"] = {} /\ removed' = [removed EXCEPT !["reaper"] = out]
        /\ UNCHANGED <<req, app, closes, opened>>
    BY <1>18 DEF Reap
  <2>2. "reaper" \in Actors /\ out \in SUBSET Ids /\ Stored \cap stale \subseteq out
    BY <1>a, StoredAreIds DEF Actors
  <2> HIDE DEF out
  <2> QED  BY <1>C, <2>1, <2>2
<1>19. ASSUME Drain \/ ShutdownDone PROVE PayloadsAccounted'
  BY <1>19, <1>B DEF Drain, ShutdownDone
<1>20. ASSUME Shutdown PROVE PayloadsAccounted'
  <2>1. /\ TakeOut(Stored) /\ phase = "draining" /\ removed' = [removed EXCEPT !["shutdown"] = Stored]
        /\ UNCHANGED <<req, app, closes, opened>>
    BY <1>20 DEF Shutdown
  <2>2. "shutdown" \in Actors /\ Stored \in SUBSET Ids /\ Stored \cap Stored \subseteq Stored
    BY <1>a, StoredAreIds DEF Actors
  <2>3. removed["shutdown"] = {}  BY <2>1 DEF IInv, ShutdownOrder
  <2> QED  BY <1>C, <2>1, <2>2, <2>3
<1>21. CASE UNCHANGED vars
  BY <1>21, <1>B DEF vars
<1> QED
  BY <1>1, <1>2, <1>3, <1>4, <1>5, <1>6, <1>7, <1>8, <1>9, <1>10, <1>11, <1>12, <1>13,
     <1>14, <1>15, <1>17, <1>18, <1>19, <1>20, <1>21
  DEF Next, Handles, ShutsDown, Stopped

\* ConsumeSSOHandshake clears what is pending in the critical section that reads it,
\* and Authenticate does not carry a pending handshake over, so nothing can present
\* it again.
LEMMA HandshakesStep == IInv /\ [Next]_vars => HandshakesUnique'
<1> SUFFICES ASSUME IInv, [Next]_vars PROVE HandshakesUnique'  OBVIOUS
<1>a. TypeOK /\ TypeOK' /\ Whereabouts /\ LoginsUnderWay /\ HandshakesUnique
  BY TypeStep DEF IInv
<1> USE ManagerAssumption DEF sessionVars, ssoVars, poolVars, downVars
<1>b. Idle.at = "idle" /\ NoSSO.pending = 0  BY DEF Idle, NoSSO
<1>c. /\ minted \in 0 .. MaxHandshakes /\ \A h \in 1 .. minted : h \in Handshakes
      /\ exchanged \in [Handshakes -> Nat] /\ sso \in [Ids -> SSOStates]
      /\ \A t \in Ids : sso[t].pending \in 0 .. MaxHandshakes
  <2>1. /\ minted \in 0 .. MaxHandshakes /\ exchanged \in [Handshakes -> Nat]
        /\ sso \in [Ids -> SSOStates]
    BY <1>a DEF TypeOK
  <2>2. \A h \in 1 .. minted : h \in Handshakes  BY <2>1 DEF Handshakes
  <2>3. \A x \in SSOStates : x.pending \in 0 .. MaxHandshakes  BY DEF SSOStates
  <2> QED  BY <2>1, <2>2, <2>3
<1>d. \A r \in Requests : req[r].at \notin {"idle", "start"} => req[r].s \in Ids
  BY <1>a DEF Whereabouts
\* No request begins a handshake; a session loses the one it has at most.
<1>A. ASSUME UNCHANGED <<minted, exchanged>>,
             \A t \in Ids : sso'[t].pending \in {0, sso[t].pending},
             \A q \in Requests : req'[q].at = "begin" => req[q].at = "begin" /\ req'[q].h = req[q].h
      PROVE  HandshakesUnique'
  <2>1. \A t \in Ids : sso'[t].pending # 0 => sso'[t].pending = sso[t].pending  BY <1>A
  <2>2. \A h : h # 0 => \A t \in Ids : sso[t].pending # h => sso'[t].pending # h  BY <1>A
  <2>3. \A h \in 1 .. minted : h # 0  OBVIOUS
  <2> QED  BY <1>a, <1>c, <1>A, <2>1, <2>2, <2>3 DEF HandshakesUnique
<1>B. ASSUME UNCHANGED <<minted, exchanged, sso, req>> PROVE HandshakesUnique'
  BY <1>A, <1>B
<1>C. ASSUME NEW r \in Requests, UNCHANGED <<minted, exchanged>>,
             \A t \in Ids : sso'[t].pending \in {0, sso[t].pending},
             req'[r].at # "begin", \A q \in Requests \ {r} : req'[q] = req[q]
      PROVE  HandshakesUnique'
  BY <1>A, <1>C
<1>1. ASSUME NEW s \in Ids, Age(s) PROVE HandshakesUnique'
  BY <1>1, <1>B DEF Age
<1>2. ASSUME NEW r \in Requests, LoadMiss(r) PROVE HandshakesUnique'
  BY <1>2, <1>a, <1>C, FieldsChanged DEF LoadMiss
<1>3. ASSUME NEW r \in Requests, Start(r) PROVE HandshakesUnique'
  <2>1. UNCHANGED <<minted, exchanged, sso>>  BY <1>3 DEF Start
  <2> QED  BY <1>3, <1>a, <1>C, <2>1, StartFields
<1>4. ASSUME NEW r \in Requests, Leave(r) PROVE HandshakesUnique'
  BY <1>4, <1>a, <1>b, <1>C, FieldsChanged DEF Leave
<1>5. ASSUME NEW r \in Requests, NEW s \in Ids, LoadHit(r, s) PROVE HandshakesUnique'
  BY <1>5, <1>a, <1>C, HitFields DEF LoadHit
<1>6. ASSUME NEW r \in Requests, NEW s \in Ids, LoadExpired(r, s) PROVE HandshakesUnique'
  BY <1>6, <1>a, <1>C, FieldsChanged DEF LoadExpired
<1>7. ASSUME NEW r \in Requests, Dial(r) PROVE HandshakesUnique'
  <2>1. UNCHANGED <<minted, exchanged, sso>>  BY <1>7 DEF Dial
  <2> QED  BY <1>7, <1>a, <1>C, <2>1, DialFields
<1>8. ASSUME NEW r \in Requests, AuthenticateRead(r) PROVE HandshakesUnique'
  <2>1. UNCHANGED <<minted, exchanged, sso>>  BY <1>8 DEF AuthenticateRead
  <2> QED  BY <1>8, <1>a, <1>C, <2>1, ReadFields
<1>9. ASSUME NEW r \in Requests, AuthenticateReplace(r) PROVE HandshakesUnique'
  <2>1. UNCHANGED <<minted, exchanged>> /\ Ends(r)  BY <1>9 DEF AuthenticateReplace
  <2>2. sso' = [sso EXCEPT ![Minted(req[r].p)] = [NoSSO EXCEPT !.subject = req[r].sso.subject]]
    BY <1>9 DEF AuthenticateReplace
  <2>3. [NoSSO EXCEPT !.subject = req[r].sso.subject].pending = 0  BY DEF NoSSO
  <2>4. \A t \in Ids : sso'[t].pending \in {0, sso[t].pending}  BY <1>c, <2>2, <2>3
  <2> QED  BY <1>a, <1>b, <1>C, <2>1, <2>4, FieldsChanged
<1>10. ASSUME NEW r \in Requests, AuthenticateFail(r) PROVE HandshakesUnique'
  BY <1>10, <1>a, <1>b, <1>C, FieldsChanged DEF AuthenticateFail
<1>11. ASSUME NEW r \in Requests, Logout(r) PROVE HandshakesUnique'
  BY <1>11, <1>a, <1>b, <1>C, FieldsChanged DEF Logout
<1>12. ASSUME NEW r \in Requests, SSOStart(r) PROVE HandshakesUnique'
  <2>1. minted < MaxHandshakes /\ minted' = minted + 1 /\ UNCHANGED <<exchanged, sso>>
    BY <1>12 DEF SSOStart
  <2>2. /\ req'[r].at = "begin" /\ req'[r].h = minted + 1
        /\ \A q \in Requests \ {r} : req'[q] = req[q]
    BY <1>12, <1>a, HandshakeFields
  <2>3. minted + 1 \in Handshakes /\ exchanged[minted + 1] = 0
    BY <1>a, <1>c, <2>1 DEF HandshakesUnique, Handshakes
  <2>4. \A t \in Ids : sso[t].pending # minted + 1
    BY <1>a, <1>c DEF HandshakesUnique
  <2>5. \A q \in Requests : req[q].at = "begin" => req[q].h # minted + 1
    BY <1>a, <1>c DEF HandshakesUnique
  <2> DEFINE new == minted + 1
  <2>6. /\ new # 0 /\ new \notin 1 .. minted
        /\ \A h \in 1 .. minted : h \in 1 .. new
        /\ new \in 1 .. new
        /\ \A h \in Handshakes : h > new => h > minted
        /\ \A h \in 0 .. MaxHandshakes : h <= minted => h <= new
    BY <1>c DEF Handshakes
  <2> HIDE DEF new
  <2>7. /\ minted' = new /\ UNCHANGED <<exchanged, sso>>
        /\ new \in Handshakes /\ exchanged[new] = 0
        /\ req'[r].at = "begin" /\ req'[r].h = new
    BY <2>1, <2>2, <2>3 DEF new
  <2>8. \A t \in Ids : sso[t].pending # new  BY <2>4 DEF new
  <2>9. \A q \in Requests : req[q].at = "begin" => req[q].h # new  BY <2>5 DEF new
  <2>10. /\ \A h \in Handshakes : exchanged'[h] \in {0, 1} /\ (h > minted' => exchanged'[h] = 0)
         /\ \A t \in Ids : sso'[t].pending # 0 =>
               sso'[t].pending <= minted' /\ exchanged'[sso'[t].pending] = 0
         /\ \A s, t \in Ids : s # t /\ sso'[s].pending # 0 => sso'[t].pending # sso'[s].pending
    BY <1>a, <1>c, <2>6, <2>7 DEF HandshakesUnique
  <2>11. ASSUME NEW q \in Requests, req'[q].at = "begin"
         PROVE  /\ req'[q].h \in 1 .. minted' /\ exchanged'[req'[q].h] = 0
                /\ \A s \in Ids : sso'[s].pending # req'[q].h
                /\ \A x \in Requests : x # q /\ req'[x].at = "begin" => req'[x].h # req'[q].h
    <3>1. CASE q = r  BY <2>2, <2>6, <2>7, <2>8, <2>9, <3>1
    <3>2. CASE q # r
      <4>1. req'[q] = req[q] /\ req[q].h \in 1 .. minted
        BY <1>a, <2>2, <2>11, <3>2 DEF HandshakesUnique
      <4> QED  BY <1>a, <2>2, <2>6, <2>7, <2>11, <3>2, <4>1 DEF HandshakesUnique
    <3> QED  BY <3>1, <3>2
  <2> QED  BY <2>10, <2>11 DEF HandshakesUnique
<1>13. ASSUME NEW r \in Requests, SSOBegin(r) PROVE HandshakesUnique'
  <2> DEFINE h == req[r].h
             s == req[r].s
  <2>1. req[r].at = "begin" /\ Ends(r) /\ UNCHANGED <<minted, exchanged>>  BY <1>13 DEF SSOBegin, At
  <2>2. sso' = [sso EXCEPT ![s] = [pending |-> h, subject |-> req[r].sso.subject]]  BY <1>13 DEF SSOBegin
  <2>3. s \in Ids  BY <1>d, <2>1
  <2>4. sso'[s].pending = h /\ \A t \in Ids \ {s} : sso'[t] = sso[t]  BY <1>c, <2>2, <2>3
  <2>5. /\ h \in 1 .. minted /\ exchanged[h] = 0 /\ \A t \in Ids : sso[t].pending # h
        /\ \A q \in Requests : q # r /\ req[q].at = "begin" => req[q].h # h
    BY <1>a, <2>1 DEF HandshakesUnique
  <2>6. req'[r].at # "begin" /\ \A q \in Requests \ {r} : req'[q] = req[q]
    BY <1>a, <1>b, <2>1, FieldsChanged
  <2> HIDE DEF h, s
  <2>7. \A t \in Ids : sso'[t].pending # 0 => sso'[t].pending <= minted /\ exchanged[sso'[t].pending] = 0
    BY <1>a, <1>c, <2>4, <2>5 DEF HandshakesUnique
  <2>8. \A t, u \in Ids : t # u /\ sso'[t].pending # 0 => sso'[u].pending # sso'[t].pending
    BY <1>a, <1>c, <2>3, <2>4, <2>5 DEF HandshakesUnique
  <2>9. \A q \in Requests : req'[q].at = "begin" =>
            /\ req[q].at = "begin" /\ q # r /\ req'[q].h = req[q].h
            /\ \A t \in Ids : sso'[t].pending # req[q].h
    BY <1>a, <2>4, <2>5, <2>6 DEF HandshakesUnique
  <2> QED  BY <1>a, <2>1, <2>7, <2>8, <2>9 DEF HandshakesUnique
<1>14. ASSUME NEW r \in Requests, NEW h \in Handshakes, SSOConsume(r, h) PROVE HandshakesUnique'
  <2> DEFINE s == req[r].s
  <2>1. /\ req[r].at = "routed" /\ h \in 1 .. minted /\ sso[s].pending = h /\ UNCHANGED minted
        /\ sso' = [sso EXCEPT ![s].pending = 0] /\ exchanged' = [exchanged EXCEPT ![h] = @ + 1]
    BY <1>14 DEF SSOConsume, At
  <2>2. s \in Ids /\ h # 0  BY <1>d, <2>1
  <2>3. exchanged[h] = 0 /\ \A t \in Ids : t # s => sso[t].pending # h
    BY <1>a, <2>1, <2>2 DEF HandshakesUnique
  <2>4. exchanged'[h] = 1 /\ \A g \in Handshakes \ {h} : exchanged'[g] = exchanged[g]
    BY <1>c, <2>1, <2>3
  <2>5. sso'[s].pending = 0 /\ \A t \in Ids \ {s} : sso'[t] = sso[t]
    BY <1>c, <2>1, <2>2 DEF SSOStates
  <2>6. req'[r].at # "begin" /\ \A q \in Requests \ {r} : req'[q] = req[q]
    BY <1>14, <1>a, HandshakeFields
  <2>7. \A q \in Requests : req[q].at = "begin" => req[q].h # h /\ req[q].h \in Handshakes
    BY <1>a, <1>c, <2>1, <2>2 DEF HandshakesUnique
  <2> HIDE DEF s
  <2>8. \A g \in Handshakes : exchanged'[g] \in {0, 1} /\ (g > minted => exchanged'[g] = 0)
    BY <1>a, <1>c, <2>1, <2>4 DEF HandshakesUnique
  <2>9. \A t \in Ids : sso'[t].pending # 0 => sso'[t].pending <= minted /\ exchanged'[sso'[t].pending] = 0
    <3> SUFFICES ASSUME NEW t \in Ids, sso'[t].pending # 0
                 PROVE  sso'[t].pending <= minted /\ exchanged'[sso'[t].pending] = 0
      OBVIOUS
    <3>1. t # s /\ sso'[t] = sso[t] /\ sso[t].pending # h  BY <2>3, <2>5
    <3>2. sso[t].pending <= minted /\ exchanged[sso[t].pending] = 0 /\ sso[t].pending \in Handshakes
      BY <1>a, <1>c, <3>1 DEF HandshakesUnique, Handshakes
    <3> QED  BY <2>4, <3>1, <3>2
  <2>10. \A t, u \in Ids : t # u /\ sso'[t].pending # 0 => sso'[u].pending # sso'[t].pending
    BY <1>a, <2>5 DEF HandshakesUnique
  <2>11. \A q \in Requests : req'[q].at = "begin" =>
            /\ req[q].at = "begin" /\ req'[q].h = req[q].h /\ exchanged'[req[q].h] = 0
            /\ \A t \in Ids : sso'[t].pending # req[q].h
    <3> SUFFICES ASSUME NEW q \in Requests, req'[q].at = "begin"
                 PROVE  /\ req[q].at = "begin" /\ req'[q].h = req[q].h /\ exchanged'[req[q].h] = 0
                        /\ \A t \in Ids : sso'[t].pending # req[q].h
      OBVIOUS
    <3>1. req'[q] = req[q] /\ req[q].at = "begin"  BY <2>6
    <3>2. req[q].h \in 1 .. minted /\ exchanged[req[q].h] = 0 /\ \A t \in Ids : sso[t].pending # req[q].h
      BY <1>a, <3>1 DEF HandshakesUnique
    <3>3. req[q].h # 0  BY <3>2
    <3> QED  BY <2>4, <2>5, <2>7, <3>1, <3>2, <3>3
  <2> QED  BY <1>a, <2>1, <2>6, <2>8, <2>9, <2>10, <2>11 DEF HandshakesUnique
<1>15. ASSUME NEW r \in Requests, SSODeny(r) \/ SSOVerify(r) PROVE HandshakesUnique'
  <2>1. Ends(r) /\ UNCHANGED <<minted, exchanged>>  BY <1>15 DEF SSODeny, SSOVerify
  <2>2. \/ sso' = [sso EXCEPT ![req[r].s] = NoSSO]
        \/ sso' = [sso EXCEPT ![req[r].s] = [NoSSO EXCEPT !.subject = req[r].h]]
    BY <1>15 DEF SSODeny, SSOVerify
  <2>3. [NoSSO EXCEPT !.subject = req[r].h].pending = 0  BY DEF NoSSO
  <2>4. \A t \in Ids : sso'[t].pending \in {0, sso[t].pending}  BY <1>b, <1>c, <2>2, <2>3
  <2> QED  BY <1>a, <1>b, <1>C, <2>1, <2>4, FieldsChanged
<1>16. ASSUME NEW a \in Actors, CloseRemoved(a) PROVE HandshakesUnique'
  BY <1>16, <1>B DEF CloseRemoved
<1>17. ASSUME Reap \/ ShutsDown PROVE HandshakesUnique'
  BY <1>17, <1>B DEF Reap, ShutsDown, Drain, Shutdown, ShutdownDone
<1>18. CASE UNCHANGED vars
  BY <1>18, <1>B DEF vars
<1> QED
  BY <1>1, <1>2, <1>3, <1>4, <1>5, <1>6, <1>7, <1>8, <1>9, <1>10, <1>11, <1>12, <1>13,
     <1>14, <1>15, <1>16, <1>17, <1>18
  DEF Next, Handles, Stopped

\* Once Shutdown has emptied the store a login under way cannot put its session
\* back: Authenticate finds that the session it began with is gone.
LEMMA ShutdownStep == IInv /\ [Next]_vars => ShutdownOrder'
<1> SUFFICES ASSUME IInv, [Next]_vars PROVE ShutdownOrder'  OBVIOUS
<1>a. TypeOK /\ TypeOK' /\ Whereabouts /\ LoginsUnderWay /\ ShutdownOrder
  BY TypeStep DEF IInv
<1> USE ManagerAssumption DEF sessionVars, ssoVars, poolVars, downVars
<1>b. Idle.at = "idle"  BY DEF Idle
<1>c. "shutdown" \in Actors \ Requests /\ "reaper" \in Actors \ Requests /\ Requests \subseteq Actors
  BY DEF Actors
<1>d. removed \in [Actors -> SUBSET Ids] /\ phase \in {"serving", "draining", "closing", "down"}
  BY <1>a DEF TypeOK
<1> DEFINE Over == phase \in {"closing", "down"}
           Late(r) == req[r].at \in {"connected", "replace"}
<1>e. ASSUME NEW r \in Requests, ~ At(r, "idle"), Over PROVE cut  BY <1>a, <1>e DEF ShutdownOrder, Quiet
\* While the server is being used, nothing is said of the requests.
<1>A. ASSUME ~ Over, UNCHANGED downVars, removed'["shutdown"] = removed["shutdown"] PROVE ShutdownOrder'
  BY <1>a, <1>d, <1>A DEF ShutdownOrder
\* Afterwards those that go on cannot put anything into the list of
\* authenticated sessions.
<1>B. ASSUME Over, cut, UNCHANGED downVars, removed'["shutdown"] = removed["shutdown"],
             ToSet(auth') \subseteq ToSet(auth),
             \A r \in Requests : Late(r)' => req'[r].s \notin Stored'
      PROVE  ShutdownOrder'
  BY <1>a, <1>d, <1>B DEF ShutdownOrder
<1>C. ASSUME UNCHANGED <<downVars, preAuth, auth, req, removed>> PROVE ShutdownOrder'
  BY <1>a, <1>C DEF ShutdownOrder, Quiet, At, Stored
\* A request's step that leaves the store alone, or takes from it.
<1>E. ASSUME NEW r \in Requests, ~ At(r, "idle") \/ ~ Over, UNCHANGED downVars,
             removed'["shutdown"] = removed["shutdown"],
             ToSet(auth') \subseteq ToSet(auth), Stored' \subseteq Stored,
             \A q \in Requests \ {r} : req'[q] = req[q],
             Over => (Late(r)' => Late(r) /\ req'[r].s = req[r].s)
      PROVE  ShutdownOrder'
  <2>1. CASE ~ Over  BY <1>A, <1>E, <2>1
  <2>2. CASE Over
    <3>1. cut  BY <1>E, <1>e, <2>2
    <3>2. \A q \in Requests : Late(q)' => Late(q) /\ req'[q].s = req[q].s  BY <1>E, <2>2
    <3>3. \A q \in Requests : Late(q) => req[q].s \notin Stored  BY <1>a, <2>2 DEF ShutdownOrder
    <3> QED  BY <1>B, <1>E, <2>2, <3>1, <3>2, <3>3
  <2> QED  BY <2>1, <2>2
<1>F. ASSUME UNCHANGED <<preAuth, auth>> PROVE ToSet(auth') \subseteq ToSet(auth) /\ Stored' \subseteq Stored
  BY <1>F DEF Stored
<1>G. ASSUME NEW gone, TakeOut(gone) PROVE ToSet(auth') \subseteq ToSet(auth) /\ Stored' \subseteq Stored
  BY <1>a, <1>G, TakeOutProperties
<1>1. ASSUME NEW s \in Ids, Age(s) PROVE ShutdownOrder'
  BY <1>1, <1>C DEF Age
<1>2. ASSUME NEW r \in Requests, LoadMiss(r) PROVE ShutdownOrder'
  BY <1>2, <1>A DEF LoadMiss
<1>3. ASSUME NEW r \in Requests, Start(r) PROVE ShutdownOrder'
  <2>1. /\ ~ At(r, "idle") /\ Save(made + 1) /\ made + 1 \in Starts /\ UNCHANGED downVars
        /\ removed' = [removed EXCEPT ![r] = Victims]
    BY <1>3, <1>a DEF Start, At, TypeOK, Starts
  <2>2. ToSet(auth') \subseteq ToSet(auth) /\ Stored' \subseteq Stored \cup {made + 1}
    BY <1>a, <2>1, SaveProperties
  <2> HIDE DEF Victims
  <2>3. removed'["shutdown"] = removed["shutdown"]  BY <1>c, <1>d, <2>1
  <2>4. CASE ~ Over  BY <1>A, <2>1, <2>3, <2>4
  <2>5. CASE Over
    <3>1. ~ Exists(made + 1)  BY <1>a, <2>1 DEF Exists, TypeOK, Starts
    <3>2. \A q \in Requests : Late(q) => req[q].s \notin Stored /\ req[q].s # made + 1
      BY <1>a, <2>5, <3>1 DEF ShutdownOrder, Whereabouts
    <3>3. req'[r].at = "routed" /\ \A q \in Requests \ {r} : req'[q] = req[q]
      BY <1>3, <1>a, StartFields
    <3>4. \A q \in Requests : Late(q)' => req'[q].s \notin Stored'  BY <2>2, <3>2, <3>3
    <3>5. cut  BY <1>e, <2>1, <2>5
    <3> QED  BY <1>B, <2>1, <2>2, <2>3, <2>5, <3>4, <3>5
  <2> QED  BY <2>4, <2>5
<1>4. ASSUME NEW r \in Requests, Leave(r) PROVE ShutdownOrder'
  BY <1>4, <1>a, <1>b, <1>E, <1>F, FieldsChanged DEF Leave, At
<1>5. ASSUME NEW r \in Requests, NEW s \in Ids, LoadHit(r, s) PROVE ShutdownOrder'
  BY <1>5, <1>A DEF LoadHit
<1>6. ASSUME NEW r \in Requests, NEW s \in Ids, LoadExpired(r, s) PROVE ShutdownOrder'
  BY <1>6, <1>c, <1>d, <1>A DEF LoadExpired
<1>7. ASSUME NEW r \in Requests, Dial(r) PROVE ShutdownOrder'
  <2>1. ~ Over  BY <1>7, <1>e DEF Dial, At
  <2> QED  BY <1>7, <1>A, <2>1 DEF Dial
<1>8. ASSUME NEW r \in Requests, AuthenticateRead(r) PROVE ShutdownOrder'
  <2>1. ~ At(r, "idle") /\ Late(r) /\ UNCHANGED <<downVars, preAuth, auth, removed>>
    BY <1>8 DEF AuthenticateRead, At
  <2> QED  BY <1>8, <1>a, <1>E, <1>F, <2>1, ReadFields
<1>9. ASSUME NEW r \in Requests, AuthenticateReplace(r) PROVE ShutdownOrder'
  <2>1. req[r].at = "replace" /\ req[r].s \in Stored  BY <1>9 DEF AuthenticateReplace, At, Member
  <2>2. ~ Over  BY <1>a, <2>1 DEF ShutdownOrder
  <2> QED  BY <1>9, <1>c, <1>d, <1>A, <2>2 DEF AuthenticateReplace
<1>10. ASSUME NEW r \in Requests, AuthenticateFail(r) PROVE ShutdownOrder'
  BY <1>10, <1>a, <1>b, <1>E, <1>F, FieldsChanged DEF AuthenticateFail, At
<1>11. ASSUME NEW r \in Requests, Logout(r) PROVE ShutdownOrder'
  <2>1. /\ ~ At(r, "idle") /\ TakeOut({req[r].s}) /\ Ends(r) /\ UNCHANGED downVars
        /\ removed' = [removed EXCEPT ![r] = {req[r].s}]
    BY <1>11 DEF Logout, At
  <2>2. removed'["shutdown"] = removed["shutdown"]  BY <1>c, <1>d, <2>1
  <2> QED  BY <1>a, <1>b, <1>E, <1>G, <2>1, <2>2, FieldsChanged
<1>12. ASSUME NEW r \in Requests, SSOStart(r) PROVE ShutdownOrder'
  <2>1. ~ At(r, "idle") /\ UNCHANGED <<downVars, preAuth, auth, removed>>
    BY <1>12 DEF SSOStart, At
  <2> QED  BY <1>12, <1>a, <1>E, <1>F, <2>1, HandshakeFields
<1>13. ASSUME NEW r \in Requests, SSOBegin(r) PROVE ShutdownOrder'
  BY <1>13, <1>a, <1>b, <1>E, <1>F, FieldsChanged DEF SSOBegin, At
<1>14. ASSUME NEW r \in Requests, NEW h \in Handshakes, SSOConsume(r, h) PROVE ShutdownOrder'
  <2>1. ~ At(r, "idle") /\ UNCHANGED <<downVars, preAuth, auth, removed>>
    BY <1>14 DEF SSOConsume, At
  <2> QED  BY <1>14, <1>a, <1>E, <1>F, <2>1, HandshakeFields
<1>15. ASSUME NEW r \in Requests, SSODeny(r) \/ SSOVerify(r) PROVE ShutdownOrder'
  BY <1>15, <1>a, <1>b, <1>E, <1>F, FieldsChanged DEF SSODeny, SSOVerify, At
<1>16. ASSUME NEW a \in Actors, CloseRemoved(a) PROVE ShutdownOrder'
  <2>1. PICK s \in removed[a] : removed' = [removed EXCEPT ![a] = @ \ {s}]
    BY <1>16 DEF CloseRemoved
  <2>2. UNCHANGED <<downVars, preAuth, auth, req>>  BY <1>16 DEF CloseRemoved
  <2>3. \A b \in Actors : removed'[b] \subseteq removed[b]  BY <1>d, <2>1
  <2> QED  BY <1>a, <1>c, <2>2, <2>3 DEF ShutdownOrder, Quiet, At, Stored
<1>17. ASSUME Reap PROVE ShutdownOrder'
  <2>1. ~ Over /\ UNCHANGED downVars /\ removed' = [removed EXCEPT !["reaper"] = Stored \cap stale]
    BY <1>17 DEF Reap
  <2>2. removed'["shutdown"] = removed["shutdown"]  BY <1>c, <1>d, <2>1
  <2> QED  BY <1>A, <2>1, <2>2
<1>18. ASSUME Drain PROVE ShutdownOrder'
  BY <1>18, <1>a DEF Drain, ShutdownOrder
<1>19. ASSUME Shutdown PROVE ShutdownOrder'
  <2>1. /\ phase' = "closing" /\ cut' = ~ Quiet /\ TakeOut(Stored) /\ UNCHANGED req
        /\ removed' = [removed EXCEPT !["shutdown"] = Stored]
    BY <1>19 DEF Shutdown
  <2>2. ToSet(auth') = {} /\ Stored' = {}  BY <1>a, <2>1, TakeOutProperties DEF Stored
  <2>3. \A r \in Requests : removed'[r] = removed[r]  BY <1>c, <1>d, <2>1
  <2>4. ~ cut' => Quiet'  BY <2>1, <2>3 DEF Quiet, At
  <2> QED  BY <2>1, <2>2, <2>4 DEF ShutdownOrder
<1>20. ASSUME ShutdownDone PROVE ShutdownOrder'
  BY <1>20, <1>a DEF ShutdownDone, ShutdownOrder, Quiet, At, Stored
<1>21. CASE UNCHANGED vars
  BY <1>21, <1>C DEF vars
<1> QED
  BY <1>1, <1>2, <1>3, <1>4, <1>5, <1>6, <1>7, <1>8, <1>9, <1>10, <1>11, <1>12, <1>13,
     <1>14, <1>15, <1>16, <1>17, <1>18, <1>19, <1>20, <1>21
  DEF Next, Handles, ShutsDown, Stopped

\* The invariant holds at the start.
LEMMA InvInit == Init => IInv
<1> SUFFICES ASSUME Init PROVE IInv  OBVIOUS
<1> USE ManagerAssumption
<1>1. TypeOK  BY TypeInit
<1>2. Idle.at = "idle" /\ Idle.p = 0 /\ NoSSO.pending = 0  BY DEF Idle, NoSSO
<1>3. ToSet(auth) = {} /\ ToSet(preAuth) = {} /\ Stored = {}  BY DEF Init, ToSet, Stored
<1>4. Whereabouts  BY <1>2, <1>3 DEF Init, Whereabouts
<1>5. LoginsUnderWay  BY <1>2 DEF Init, LoginsUnderWay
<1>6. PayloadsAccounted
  <2>1. \A p \in 0 + 1 .. MaxLogins : p \in Logins  BY DEF Logins
  <2> QED  BY <1>3, <2>1 DEF Init, PayloadsAccounted
<1>7. HandshakesUnique  BY <1>2 DEF Init, HandshakesUnique
<1>8. ShutdownOrder
  <2>1. "shutdown" \in Actors  BY DEF Actors
  <2> QED  BY <2>1 DEF Init, ShutdownOrder
<1> QED  BY <1>1, <1>4, <1>5, <1>6, <1>7, <1>8 DEF IInv

\* The invariant is inductive.
LEMMA InvStep == IInv /\ [Next]_vars => IInv'
  BY TypeStep, WhereaboutsStep, LoginsStep, PayloadsStep, HandshakesStep, ShutdownStep DEF IInv

\* The invariant holds throughout.
LEMMA Invariance == Spec => []IInv
<1>1. Init => IInv  BY InvInit
<1>2. IInv /\ [Next]_vars => IInv'  BY InvStep
<1> QED  BY <1>1, <1>2, PTL DEF Spec

\* The types hold, and the store never holds more than MaxSessions sessions, the
\* evictions of memStore.save and the exchanges of memStore.replace included.
THEOREM TypeCorrect == Spec => []TypeOK
<1>1. IInv => TypeOK  BY DEF IInv
<1> QED  BY <1>1, Invariance, PTL

\* A handshake is exchanged with the provider once at most, whatever callbacks
\* present its state and whichever session a login has carried things over to
\* (ConsumeSSOHandshake).
THEOREM OneExchange == Spec => []HandshakeOnce
<1>1. IInv => HandshakeOnce  BY DEF IInv, HandshakesUnique, HandshakeOnce
<1> QED  BY <1>1, Invariance, PTL

\* A session in the list of authenticated ones has its payload, open; one in the
\* other list has none (memStore, Authenticate, close).
THEOREM Usable == Spec => []StoredAreUsable
<1>1. IInv => StoredAreUsable
  <2> SUFFICES ASSUME IInv PROVE StoredAreUsable  OBVIOUS
  <2>1. TypeOK /\ Whereabouts /\ PayloadsAccounted  BY DEF IInv
  <2>2. /\ ToSet(preAuth) \subseteq Starts /\ ToSet(auth) \subseteq Ids /\ Starts \subseteq Ids
        /\ app \in [Ids -> 0 .. MaxLogins] /\ opened \in 0 .. MaxLogins
    BY <2>1, StoredAreIds DEF TypeOK
  <2>3. ASSUME NEW s \in ToSet(auth) PROVE app[s] # 0 /\ closes[app[s]] = 0
    <3>1. app[s] # 0 /\ s \in Ids /\ app[s] \in 0 .. MaxLogins  BY <2>1, <2>2 DEF PayloadsAccounted
    <3>2. s = MaxStarts + app[s] /\ Exists(s)  BY <2>1, <3>1 DEF Whereabouts, Minted
    <3>3. app[s] \in 1 .. opened /\ \A r \in Requests : req[r].p # app[s]
      BY <2>2, <3>1, <3>2, ManagerAssumption DEF Exists
    <3> QED  BY <2>1, <3>1, <3>2, <3>3 DEF PayloadsAccounted, Minted
  <2>4. ASSUME NEW s \in ToSet(preAuth) PROVE app[s] = 0
    <3>1. s \in Ids /\ s <= MaxStarts /\ app[s] \in 0 .. MaxLogins  BY <2>2 DEF Starts
    <3> QED  BY <2>1, <3>1, ManagerAssumption DEF Whereabouts, Minted
  <2> QED  BY <2>3, <2>4 DEF StoredAreUsable
<1> QED  BY <1>1, Invariance, PTL

\* Once the server is down no session in the store holds a payload, and when the
\* drain did not time out every payload is closed, but for what the reaper has
\* taken out and is about to close (Manager.Shutdown).
THEOREM ShutdownComplete == Spec => []NothingOutlivesShutdown
<1>1. IInv => NothingOutlivesShutdown
  <2> SUFFICES ASSUME IInv, phase = "down" PROVE NothingOutlivesShutdown
    BY DEF NothingOutlivesShutdown
  <2>1. TypeOK /\ Whereabouts /\ LoginsUnderWay /\ PayloadsAccounted /\ ShutdownOrder  BY DEF IInv
  <2>2. ToSet(auth) = {} /\ removed["shutdown"] = {} /\ (~ cut => Quiet)  BY <2>1 DEF ShutdownOrder
  <2>3. Stored \cap {s \in Ids : app[s] # 0} = {}
    <3> SUFFICES ASSUME NEW s \in ToSet(preAuth), s \in Ids, app[s] # 0 PROVE FALSE
      BY <2>2 DEF Stored
    <3>1. s <= MaxStarts /\ app[s] \in 0 .. MaxLogins  BY <2>1, StoredAreIds DEF Starts, TypeOK
    <3> QED  BY <2>1, <3>1, ManagerAssumption DEF Whereabouts, Minted
  <2>4. ASSUME ~ cut, NEW p \in 1 .. opened
        PROVE  closes[p] = 1 \/ \E s \in removed["reaper"] : app[s] = p
    <3>1. \A r \in Requests : req[r].p = 0 /\ removed[r] = {}
      BY <2>1, <2>2, <2>4 DEF Quiet, At, LoginsUnderWay
    <3>2. p # 0  OBVIOUS
    <3>3. closes[p] = 1 \/ app[Minted(p)] = p  BY <2>1, <3>1, <3>2 DEF PayloadsAccounted
    <3>4. app[Minted(p)] = p => Minted(p) \in removed["reaper"]
      BY <2>1, <2>2, <3>1 DEF PayloadsAccounted, Actors
    <3> QED  BY <3>3, <3>4
  <2> QED  BY <2>3, <2>4 DEF NothingOutlivesShutdown
<1> QED  BY <1>1, Invariance, PTL

-----------------------------------------------------------------------------
(* The refinement of Custody *)

\* Where IInv says a payload is, which Custodian finds out by looking around.
Where(p) ==
    IF closes[p] = 1 THEN "closed"
    ELSE IF app[Minted(p)] = p
         THEN IF Minted(p) \in ToSet(auth) THEN "session" ELSE "closer"
    ELSE IF p <= opened THEN "login" ELSE "nobody"

\* Looking around, as Custodian does, finds a payload where the invariant says it
\* is: never closed twice and never lost.
LEMMA CustodianIsWhere ==
    ASSUME IInv, NEW p \in Logins
    PROVE  Custodian(p) = Where(p)
<1>1. TypeOK /\ Whereabouts /\ LoginsUnderWay /\ PayloadsAccounted  BY DEF IInv
<1>2. p # 0 /\ p \in 1 .. MaxLogins /\ Minted(p) \in Ids /\ opened \in 0 .. MaxLogins
  BY <1>1, ManagerAssumption DEF Logins, Minted, Ids, TypeOK
<1>3. closes[p] \in {0, 1}  BY <1>1 DEF PayloadsAccounted
<1>4. ToSet(auth) \subseteq Ids /\ \A a \in Actors : removed[a] \subseteq Ids
  BY <1>1, StoredAreIds DEF TypeOK
<1>5. \A s \in Ids : app[s] = p => s = Minted(p) /\ Exists(s)  BY <1>1, <1>2 DEF Whereabouts
<1>6. app[Minted(p)] = p => p \in 1 .. opened
  BY <1>2, <1>5, ManagerAssumption DEF Exists, Minted
<1>7. CASE closes[p] = 1
  BY <1>7 DEF Custodian, Where
<1>8. CASE closes[p] = 0 /\ app[Minted(p)] = p
  <2>1. (\E s \in ToSet(auth) : app[s] = p) <=> Minted(p) \in ToSet(auth)
    BY <1>4, <1>5, <1>8
  <2>2. (\E a \in Actors : \E s \in removed[a] : app[s] = p) <=> \E a \in Actors : Minted(p) \in removed[a]
    BY <1>4, <1>5, <1>8
  <2>3. Minted(p) \in ToSet(auth) \/ \E a \in Actors : Minted(p) \in removed[a]
    BY <1>1, <1>6, <1>8 DEF PayloadsAccounted
  <2> QED  BY <1>8, <2>1, <2>2, <2>3 DEF Custodian, Where
<1>9. CASE closes[p] = 0 /\ app[Minted(p)] # p
  <2>1. ~ (\E s \in ToSet(auth) : app[s] = p) /\ ~ (\E a \in Actors : \E s \in removed[a] : app[s] = p)
    BY <1>4, <1>5, <1>9
  <2>2. CASE p > opened
    <3>1. ~ \E r \in Requests : req[r].p = p
      BY <1>1, <1>2, <2>2 DEF LoginsUnderWay
    <3> QED  BY <1>2, <1>9, <2>1, <2>2, <3>1 DEF Custodian, Where
  <2>3. CASE ~ (p > opened)
    <3>1. p \in 1 .. opened  BY <1>2, <2>3
    <3>2. \E r \in Requests : req[r].p = p
      BY <1>1, <1>9, <3>1 DEF PayloadsAccounted
    <3> QED  BY <1>9, <2>1, <3>1, <3>2 DEF Custodian, Where
  <2> QED  BY <2>2, <2>3
<1> QED  BY <1>3, <1>7, <1>8, <1>9

\* Custody's variable.
Holders == [p \in Logins |-> Custodian(p)]

\* Where(p), of the state after the step.
WhereThen(p) ==
    IF closes'[p] = 1 THEN "closed"
    ELSE IF app'[Minted(p)] = p
         THEN IF Minted(p) \in ToSet(auth') THEN "session" ELSE "closer"
    ELSE IF p <= opened' THEN "login" ELSE "nobody"

\* Custody's variable, in a state where the invariant holds.
LEMMA CustodyNow == IInv => Holders = [p \in Logins |-> Where(p)]
  BY CustodianIsWhere DEF Holders

\* The same, of the state after a step.
LEMMA CustodyThen == IInv' => Holders' = [p \in Logins |-> WhereThen(p)]
<1>1. IInv' => (Holders = [p \in Logins |-> Where(p)])'  BY CustodyNow, PTL
<1> QED  BY <1>1 DEF Where, WhereThen

\* A step that takes the payloads of one set to one custodian is Passes of Custody.
LEMMA CustodyStep ==
    ASSUME IInv, IInv', NEW from \in SUBSET Logins, NEW to,
           \A p \in Logins : WhereThen(p) = IF p \in from THEN to ELSE Where(p)
    PROVE  CustodyOf!Passes(from, to) /\ \A by : CustodyOf!Held(by) = {p \in Logins : Where(p) = by}
<1>1. Holders = [p \in Logins |-> Where(p)] /\ Holders' = [p \in Logins |-> WhereThen(p)]
  BY CustodyNow, CustodyThen
<1>2. Holders' = [p \in Logins |-> IF p \in from THEN to ELSE Holders[p]]  BY <1>1
<1>3. \A by : {p \in Logins : Holders[p] = by} = {p \in Logins : Where(p) = by}  BY <1>1
<1>4. CustodyOf!Passes(from, to)  BY <1>2 DEF CustodyOf!Passes, Holders
<1> QED  BY <1>3, <1>4 DEF CustodyOf!Held, Holders

\* An initial state of the manager is one of Custody.
LEMMA RefinementInit == Init => CustodyOf!Init
<1> SUFFICES ASSUME Init PROVE CustodyOf!Init  OBVIOUS
<1> USE ManagerAssumption
<1>1. IInv  BY InvInit
<1>2. Holders = [p \in Logins |-> Where(p)]  BY <1>1, CustodyNow
<1>3. ASSUME NEW p \in Logins PROVE Where(p) = "nobody"
  <2>1. closes[p] = 0 /\ opened = 0 /\ p \in 1 .. MaxLogins /\ Minted(p) \in Ids
    BY DEF Init, Logins, Minted, Ids
  <2>2. app[Minted(p)] = 0  BY <2>1 DEF Init
  <2> QED  BY <2>1, <2>2 DEF Where
<1>4. Holders = [p \in Logins |-> "nobody"]  BY <1>2, <1>3
<1> QED  BY <1>4 DEF CustodyOf!Init, Holders

\* A step of the manager is one of Custody, or leaves every payload where it is:
\* Dial opens, Authenticate attaches, whatever takes sessions out removes, and
\* CloseSession and a failed Authenticate close.
LEMMA RefinementStep == IInv /\ IInv' /\ [Next]_vars => [CustodyOf!Next]_Holders
<1> SUFFICES ASSUME IInv, IInv', [Next]_vars PROVE [CustodyOf!Next]_Holders  OBVIOUS
<1> USE ManagerAssumption DEF sessionVars, ssoVars, poolVars, downVars
<1>a. TypeOK /\ Whereabouts /\ LoginsUnderWay /\ PayloadsAccounted  BY DEF IInv
<1>b. /\ opened \in 0 .. MaxLogins /\ app \in [Ids -> 0 .. MaxLogins] /\ closes \in [Logins -> Nat]
      /\ \A p \in Logins : p \in 1 .. MaxLogins /\ p # 0 /\ Minted(p) \in Ids
      /\ \A p \in Logins : closes[p] \in {0, 1}
  BY <1>a DEF TypeOK, Logins, Minted, Ids, PayloadsAccounted
<1>c. \A s \in Ids : app[s] # 0 => s = Minted(app[s]) /\ Exists(s)  BY <1>a DEF Whereabouts
<1> HIDE DEF IInv
\* Payloads whose session leaves the list of authenticated ones go to those
\* who took it out.
<1>R. ASSUME UNCHANGED <<closes, app, opened>>, ToSet(auth') \subseteq ToSet(auth)
      PROVE  CustodyOf!Next
  <2> DEFINE ps == {p \in Logins : Where(p) = "session" /\ Minted(p) \notin ToSet(auth')}
  <2>1. \A p \in Logins : WhereThen(p) = IF p \in ps THEN "closer" ELSE Where(p)
    BY <1>R DEF Where, WhereThen
  <2>2. ps \subseteq {p \in Logins : Where(p) = "session"} /\ ps \in SUBSET Logins  OBVIOUS
  <2> HIDE DEF ps
  <2>3. CustodyOf!Passes(ps, "closer") /\ CustodyOf!Held("session") = {p \in Logins : Where(p) = "session"}
    BY <2>1, <2>2, CustodyStep
  <2>4. CustodyOf!Remove(ps)  BY <2>2, <2>3 DEF CustodyOf!Remove
  <2> QED  BY <2>2, <2>4 DEF CustodyOf!Next
<1>T. ASSUME NEW gone, UNCHANGED <<closes, app, opened>>, TakeOut(gone)
      PROVE  CustodyOf!Next
  BY <1>a, <1>R, <1>T, TakeOutProperties
<1>U. ASSUME UNCHANGED <<closes, app, opened, auth>> PROVE CustodyOf!Next
  BY <1>R, <1>U
<1>1. ASSUME NEW r \in Requests, Start(r) PROVE CustodyOf!Next
  <2>1. made + 1 \in Starts  BY <1>1, <1>a DEF Start, TypeOK, Starts
  <2>2. Save(made + 1) /\ UNCHANGED <<closes, app, opened>>  BY <1>1 DEF Start
  <2>3. ToSet(auth') \subseteq ToSet(auth)  BY <1>a, <2>1, <2>2, SaveProperties
  <2> QED  BY <1>R, <2>2, <2>3
<1>2. ASSUME NEW r \in Requests, Dial(r) PROVE CustodyOf!Next
  <2> DEFINE o == opened + 1
  <2>1. opened < MaxLogins /\ opened' = o /\ UNCHANGED <<closes, app, auth>>  BY <1>2 DEF Dial
  <2>2. o \in Logins /\ o \in opened + 1 .. MaxLogins  BY <1>b, <2>1 DEF Logins
  <2>3. closes[o] = 0  BY <1>a, <2>2 DEF PayloadsAccounted
  <2>4. app[Minted(o)] # o
    <3>1. ~ Exists(Minted(o))  BY <1>b, <2>2 DEF Exists, Minted
    <3> QED  BY <1>b, <1>c, <2>2, <3>1
  <2>5. Where(o) = "nobody" /\ WhereThen(o) = "login"
    BY <1>b, <2>1, <2>2, <2>3, <2>4 DEF Where, WhereThen
  <2>6. \A p \in Logins : p # o => WhereThen(p) = Where(p)
    BY <1>b, <2>1 DEF Where, WhereThen
  <2> HIDE DEF o
  <2>7. \A p \in Logins : WhereThen(p) = IF p \in {o} THEN "login" ELSE Where(p)  BY <2>5, <2>6
  <2>8. CustodyOf!Passes({o}, "login") /\ CustodyOf!Held("nobody") = {p \in Logins : Where(p) = "nobody"}
    BY <2>2, <2>7, CustodyStep
  <2>9. CustodyOf!Open(o)  BY <2>2, <2>5, <2>8 DEF CustodyOf!Open
  <2> QED  BY <2>2, <2>9 DEF CustodyOf!Next
<1>3. ASSUME NEW r \in Requests, AuthenticateReplace(r) PROVE CustodyOf!Next
  <2> DEFINE p == req[r].p
             old == req[r].s
             new == Minted(p)
  <2>1. /\ req[r].at = "replace" /\ old \in Stored /\ Replace(old, new)
        /\ app' = [app EXCEPT ![new] = p] /\ UNCHANGED <<opened, closes>>
    BY <1>3 DEF AuthenticateReplace, At, Member
  <2>2. /\ p \in 1 .. opened /\ closes[p] = 0 /\ app[old] = 0 /\ old \in Ids
    BY <1>a, <2>1 DEF LoginsUnderWay, Whereabouts
  <2>3. p \in Logins /\ new \in Ids /\ p # 0  BY <1>b, <2>2 DEF Logins
  <2>4. ToSet(auth') = (ToSet(auth) \ {old}) \cup {new}  BY <1>a, <2>1, <2>3, ReplaceProperties
  <2>5. old \notin ToSet(auth)  BY <1>a, <2>2 DEF PayloadsAccounted
  <2>6. app'[new] = p /\ \A t \in Ids \ {new} : app'[t] = app[t]  BY <1>b, <2>1, <2>3
  <2>7. app[new] # p
    <3>1. ~ Exists(new)  BY <1>b, <2>2 DEF Exists, Minted
    <3> QED  BY <1>c, <2>3, <3>1
  <2>8. Where(p) = "login" /\ WhereThen(p) = "session"
    BY <2>1, <2>2, <2>4, <2>6, <2>7 DEF Where, WhereThen
  <2>9. \A o \in Logins : o # p => Minted(o) # new  BY <1>b, <2>2 DEF Minted
  <2> HIDE DEF new, old, p
  <2>10. \A o \in Logins : o # p => WhereThen(o) = Where(o)
    BY <1>b, <2>1, <2>4, <2>5, <2>6, <2>9 DEF Where, WhereThen
  <2>11. \A o \in Logins : WhereThen(o) = IF o \in {p} THEN "session" ELSE Where(o)  BY <2>8, <2>10
  <2>12. CustodyOf!Passes({p}, "session") /\ CustodyOf!Held("login") = {o \in Logins : Where(o) = "login"}
    BY <2>3, <2>11, CustodyStep
  <2>13. CustodyOf!Attach(p)  BY <2>3, <2>8, <2>12 DEF CustodyOf!Attach
  <2> QED  BY <2>3, <2>13 DEF CustodyOf!Next
<1>C. ASSUME NEW p \in Logins, Where(p) \in {"login", "closer"}, WhereThen(p) = "closed",
             \A o \in Logins : o # p => WhereThen(o) = Where(o)
      PROVE  CustodyOf!Next
  <2>1. \A o \in Logins : WhereThen(o) = IF o \in {p} THEN "closed" ELSE Where(o)  BY <1>C
  <2>2. /\ CustodyOf!Passes({p}, "closed")
        /\ \A by : CustodyOf!Held(by) = {o \in Logins : Where(o) = by}
    BY <2>1, CustodyStep
  <2>3. CustodyOf!Close(p)  BY <1>C, <2>2 DEF CustodyOf!Close
  <2> QED  BY <2>3 DEF CustodyOf!Next
<1>4. ASSUME NEW r \in Requests, AuthenticateFail(r) PROVE CustodyOf!Next
  <2> DEFINE p == req[r].p
  <2>1. req[r].at = "replace" /\ closes' = [closes EXCEPT ![p] = @ + 1] /\ UNCHANGED <<app, opened, auth>>
    BY <1>4 DEF AuthenticateFail, At
  <2>2. p \in 1 .. opened /\ closes[p] = 0  BY <1>a, <2>1 DEF LoginsUnderWay
  <2>3. p \in Logins  BY <1>b, <2>2 DEF Logins
  <2>4. app[Minted(p)] # p
    <3>1. ~ Exists(Minted(p))  BY <1>b, <2>2 DEF Exists, Minted
    <3> QED  BY <1>b, <1>c, <2>3, <3>1
  <2>5. closes'[p] = 1 /\ \A o \in Logins \ {p} : closes'[o] = closes[o]  BY <1>b, <2>1, <2>2, <2>3
  <2>6. Where(p) = "login" /\ WhereThen(p) = "closed"  BY <2>2, <2>4, <2>5 DEF Where, WhereThen
  <2> HIDE DEF p
  <2>7. \A o \in Logins : o # p => WhereThen(o) = Where(o)  BY <2>1, <2>5 DEF Where, WhereThen
  <2> QED  BY <1>C, <2>3, <2>6, <2>7
<1>5. ASSUME NEW a \in Actors, CloseRemoved(a) PROVE CustodyOf!Next
  <2>1. PICK s \in removed[a] : CloseSession(s)  BY <1>5 DEF CloseRemoved
  <2>2. UNCHANGED <<auth, opened>>  BY <1>5 DEF CloseRemoved
  <2>3. s \in Ids /\ s \notin ToSet(auth)  BY <1>a DEF TypeOK, Whereabouts, Stored
  <2>4. app'[s] = 0 /\ \A t \in Ids \ {s} : app'[t] = app[t]  BY <1>b, <2>1, <2>3 DEF CloseSession
  <2>5. CASE app[s] = 0
    <3>1. closes' = closes  BY <2>1, <2>5 DEF CloseSession
    <3>2. app' = app  BY <1>b, <2>1, <2>3, <2>5 DEF CloseSession
    <3> QED  BY <1>U, <2>2, <3>1, <3>2
  <2>6. CASE app[s] # 0
    <3> DEFINE p == app[s]
    <3>1. s = Minted(p) /\ p \in Logins  BY <1>b, <1>c, <2>3, <2>6 DEF Logins
    <3>2. closes[p] = 0
      <4>1. p \in 1 .. opened /\ \A r \in Requests : req[r].p # p
        BY <1>b, <1>c, <2>3, <2>6 DEF Exists, Minted
      <4> QED  BY <1>a, <2>6, <3>1, <4>1 DEF PayloadsAccounted
    <3>3. closes'[p] = 1 /\ \A o \in Logins \ {p} : closes'[o] = closes[o]
      BY <1>b, <2>1, <2>6, <3>1, <3>2 DEF CloseSession
    <3>4. \A o \in Logins : o # p => Minted(o) # s  BY <1>b, <3>1 DEF Minted
    <3>5. Where(p) = "closer" /\ WhereThen(p) = "closed"
      BY <2>3, <3>1, <3>2, <3>3 DEF Where, WhereThen
    <3> HIDE DEF p
    <3>6. \A o \in Logins : o # p => WhereThen(o) = Where(o)
      BY <1>b, <2>2, <2>4, <3>3, <3>4 DEF Where, WhereThen
    <3> QED  BY <1>C, <3>1, <3>5, <3>6
  <2> QED  BY <2>5, <2>6
<1>6. ASSUME NEW r \in Requests, NEW s \in Ids, LoadExpired(r, s) PROVE CustodyOf!Next
  BY <1>6, <1>T DEF LoadExpired
<1>7. ASSUME NEW r \in Requests, Logout(r) PROVE CustodyOf!Next
  BY <1>7, <1>T DEF Logout
<1>8. ASSUME Reap PROVE CustodyOf!Next
  BY <1>8, <1>T DEF Reap
<1>9. ASSUME Shutdown PROVE CustodyOf!Next
  BY <1>9, <1>T DEF Shutdown
<1>10. ASSUME (\E s \in Ids : Age(s)) \/ Drain \/ ShutdownDone \/ UNCHANGED vars PROVE CustodyOf!Next
  BY <1>10, <1>U DEF Age, Drain, ShutdownDone, vars
<1>11. ASSUME NEW r \in Requests,
              \/ LoadMiss(r) \/ Leave(r) \/ (\E s \in Ids : LoadHit(r, s)) \/ AuthenticateRead(r)
              \/ SSOStart(r) \/ SSOBegin(r) \/ (\E h \in Handshakes : SSOConsume(r, h))
              \/ SSODeny(r) \/ SSOVerify(r)
       PROVE  CustodyOf!Next
  BY <1>11, <1>U DEF LoadMiss, Leave, LoadHit, AuthenticateRead, SSOStart, SSOBegin, SSOConsume,
                     SSODeny, SSOVerify
<1> QED
  BY <1>1, <1>2, <1>3, <1>4, <1>5, <1>6, <1>7, <1>8, <1>9, <1>10, <1>11
  DEF Next, Handles, ShutsDown, Stopped

\* The manager implements Custody: logouts, expiry, the reaper, evictions, late
\* logins and the shutdown together close every payload once and lose none
\* (session.go:131).
THEOREM PayloadsInCustody == Spec => ImplementsCustody
<1>1. Init => CustodyOf!Init  BY RefinementInit
<1>2. IInv /\ IInv' /\ [Next]_vars => [CustodyOf!Next]_([p \in Logins |-> Custodian(p)])
  BY RefinementStep DEF Holders
<1> QED  BY <1>1, <1>2, Invariance, PTL DEF Spec, ImplementsCustody, CustodyOf!Spec
=============================================================================
