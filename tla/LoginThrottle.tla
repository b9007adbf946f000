--------------------------- MODULE LoginThrottle ---------------------------
(***************************************************************************)
(* The throttle of POST /login: a sliding-window RateLimiter charged in    *)
(* two stages, the client's address before the body is parsed and then, as *)
(* one group, its keys with the user and with the predefined server the    *)
(* form names; and a second limiter with a higher cap on that account      *)
(* alone. A login that succeeds clears the keys that name the account, one *)
(* after the other, and leaves the address charged. Requests run           *)
(* concurrently; the sweep prunes expired hits at any time.                *)
(***************************************************************************)
EXTENDS Naturals, Sequences, FiniteSets, SequencesExt, Lists

CONSTANTS
    Logins,       \* POST /login requests
    Addresses,
    Accounts,     \* the users and
    Predefined,   \* the predefined servers a form may name
    Window,       \* login_rate_window, in ticks
    RateMax,      \* login_rate_max; 0 is no limit
    AccountMax,   \* login_account_max, of the account limiter; 0 is no limit
    MaxTime       \* bound: the clock's last tick

Blank == ""
Anywhere == "account:"   \* what the account limiter has in place of an address

ASSUME ThrottleAssumption == /\ {Window, RateMax, AccountMax, MaxTime} \subseteq Nat
                             /\ Blank \notin Accounts \cup Predefined /\ Anywhere \notin Addresses

VARIABLES
    clock,
    hits,     \* key -> the times of its recorded attempts, oldest first
    stage,    \* request -> how far it is
    from,     \* request -> its address, and the user and the server of its form
    resets,   \* request -> the keys it has still to reset, in order
    charges   \* key -> the attempts ever charged to it, but for those a login
              \* to its account forgave: [by, at]

tvars == <<clock, hits, stage, from, resets, charges>>

\* A key of the per-source limiter is an address, with a name or without; the
\* account limiter has names for keys.
Key(i, n) == [ip |-> i, name |-> n]
AccountNames == Accounts \cup Predefined
Keys == {Key(i, n) : i \in Addresses, n \in AccountNames \cup {Blank}} \cup {Key(Anywhere, n) : n \in AccountNames}
Cap(k) == IF k.ip = Anywhere THEN AccountMax ELSE RateMax

\* loginRateKeys, loginAccountKey: what the form leaves blank has no key.
AddressKey(r) == Key(from[r].ip, Blank)
KeyNamed(i, n) == IF n = Blank THEN <<>> ELSE <<Key(i, n)>>
IdentityKeys(r) == KeyNamed(from[r].ip, from[r].user) \o KeyNamed(from[r].ip, from[r].server)
AccountKey(r) == KeyNamed(Anywhere, IF from[r].server # Blank THEN from[r].server ELSE from[r].user)

Forms == [ip : Addresses, user : Accounts \cup {Blank}, server : Predefined \cup {Blank}]

TInit(sources) ==
         /\ clock = 0
         /\ hits = [k \in Keys |-> <<>>]
         /\ stage = [r \in Logins |-> "new"]
         /\ from \in sources
         /\ resets = [r \in Logins |-> <<>>]
         /\ charges = [k \in Keys |-> {}]

Advance(r, s) == stage' = [stage EXCEPT ![r] = s]

\* prune keeps the hits that are after now - window.
Live(k) == Omit(hits[k], {t \in 0..clock : t + Window <= clock})

\* Reserve checks a group of keys and charges all of them or none, in one critical
\* section.
Reserve(r, group, max, next, refused) ==
    /\ \/ /\ max = 0
          /\ Advance(r, next)
          /\ UNCHANGED <<hits, charges>>
       \/ /\ max > 0 /\ \A k \in group : Len(Live(k)) < max
          /\ hits' = [k \in Keys |-> IF k \in group THEN Append(Live(k), clock) ELSE hits[k]]
          /\ charges' = [k \in Keys |-> charges[k] \cup
                            IF k \in group THEN {[by |-> r, at |-> clock]} ELSE {}]
          /\ Advance(r, next)
       \/ /\ max > 0 /\ \E k \in group : Len(Live(k)) >= max
          /\ Advance(r, refused)
          /\ UNCHANGED <<hits, charges>>
    /\ UNCHANGED <<clock, from, resets>>

\* csrf: the bare address, before the body is parsed.
ReserveAddress(r) == /\ stage[r] = "new"
                     /\ Reserve(r, {AddressKey(r)}, RateMax, "parsed", "turned away")

\* Login: the address with what the form names, then the account on its own limiter.
ReserveIdentity(r) == /\ stage[r] = "parsed"
                      /\ Reserve(r, ToSet(IdentityKeys(r)), RateMax, "identified", "throttled")
ReserveAccount(r) == /\ stage[r] = "identified"
                     /\ Reserve(r, ToSet(AccountKey(r)), AccountMax, "dialing", "locked out")

\* A bad token, an unknown server, a refused host or a dial that fails: the
\* attempts stay charged.
LoginFails(r) == /\ stage[r] \in {"parsed", "dialing"}
                 /\ Advance(r, "failed")
                 /\ UNCHANGED <<clock, hits, from, resets, charges>>

\* A mutation of ToReset: all of rateKeys, the address first.
ToResetAll(r) == <<AddressKey(r)>> \o IdentityKeys(r) \o AccountKey(r)

\* Login: the dial succeeds. Its keys are then reset, rateKeys[1:] and accountKey,
\* and not the address.
ToReset(r) == IdentityKeys(r) \o AccountKey(r)
LoginSucceeds(r) ==
    /\ stage[r] = "dialing"
    /\ Advance(r, "opened")
    /\ resets' = [resets EXCEPT ![r] = ToReset(r)]
    /\ UNCHANGED <<clock, hits, from, charges>>

\* Reset, of one key.
Reset(r) ==
    /\ stage[r] = "opened" /\ resets[r] # <<>>
    /\ hits' = [hits EXCEPT ![Head(resets[r])] = <<>>]
    /\ charges' = [charges EXCEPT ![Head(resets[r])] = {}]
    /\ resets' = [resets EXCEPT ![r] = Tail(@)]
    /\ UNCHANGED <<clock, stage, from>>

\* sweepRateLimiter.
Sweep == /\ hits' = [k \in Keys |-> Live(k)]
         /\ hits' # hits
         /\ UNCHANGED <<clock, stage, from, resets, charges>>

Tick == /\ clock < MaxTime
        /\ clock' = clock + 1
        /\ UNCHANGED <<hits, stage, from, resets, charges>>

TNext == \/ \E r \in Logins : \/ ReserveAddress(r) \/ ReserveIdentity(r)
                              \/ ReserveAccount(r)
                              \/ LoginFails(r) \/ LoginSucceeds(r) \/ Reset(r)
         \/ Sweep \/ Tick

\* Any logins, from whatever addresses to whatever accounts.
TSpec == TInit([Logins -> Forms]) /\ [][TNext]_tvars

ChargedBy(r, k) == \E c \in charges[k] : c.by = r

\* In any window an address is charged RateMax attempts at most, whatever
\* accounts it has the password of; since its last success a user or a server is
\* charged RateMax from one address and AccountMax from all; where there is a
\* limit, no dial is made that its address was not charged for; and a login turned
\* away for one of its names has not used up the other. However requests, clock,
\* sweep and resets fall.
GuessesBounded ==
    /\ \A k \in Keys : \A t \in 0..MaxTime :
          Cardinality({c \in charges[k] : t <= c.at /\ c.at < t + Window}) <= Cap(k)
    /\ \A r \in Logins : RateMax > 0 /\ stage[r] \in {"dialing", "opened"} => ChargedBy(r, AddressKey(r))
    /\ \A r \in Logins : stage[r] = "throttled" =>
          \A k \in ToSet(IdentityKeys(r)) : ~ChargedBy(r, k)
=============================================================================
