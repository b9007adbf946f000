------------------------------- MODULE Custody ------------------------------
(***************************************************************************)
(* What logging in and out amount to for the payload of a login, which     *)
(* holds open connections and a password: a login opens it, hands it to a  *)
(* stored session or gives up, and once its session has left the store     *)
(* somebody closes it.  It has one holder at a time, and never goes back   *)
(* to an earlier one.  It is the abstract specification of module          *)
(* SessionManager.                                                         *)
(***************************************************************************)
CONSTANT Payloads

VARIABLE holder     \* who has to see to it that the payload is closed

Init == holder = [p \in Payloads |-> "nobody"]

Passes(from, to) ==
    /\ from \subseteq Payloads
    /\ holder' = [p \in Payloads |-> IF p \in from THEN to ELSE holder[p]]

Held(by) == {p \in Payloads : holder[p] = by}

Open(p)    == p \in Held("nobody") /\ Passes({p}, "login")
Attach(p)  == p \in Held("login") /\ Passes({p}, "session")
Remove(ps) == ps \subseteq Held("session") /\ Passes(ps, "closer")
Close(p)   == p \in Held("login") \cup Held("closer") /\ Passes({p}, "closed")

Next ==
    \/ \E p \in Payloads : Open(p) \/ Attach(p) \/ Close(p)
    \/ \E ps \in SUBSET Payloads : Remove(ps)

Spec == Init /\ [][Next]_holder
=============================================================================
