--------------------------- MODULE MCStoreClaims ---------------------------
(***************************************************************************)
(* What comments of the session store say of it and the code does not keep *)
(* (README, "What the code does against its own words").  A behaviour      *)
(* takes the claims one after the other: with the requests each needs, the *)
(* system runs from its initial state until the claim at hand is refuted,  *)
(* and begins again for the next.                                          *)
(***************************************************************************)
EXTENDS MCSessionStore, Sequences

CONSTANTS t3

VARIABLE refuted   \* the claims refuted so far, in their order

claimsVars == <<vars, refuted>>

\* Two requests on the one replica, and one on the other.
HomeTwoAndOne == (t1 :> r1) @@ (t2 :> r1) @@ (t3 :> r2)

\* Delete joins the admission protocol, without which repersist's insert "would
\* RECREATE the row for a session the user had just ended" (session.go:529-531).
LogoutIsFinal == ended \cap table = {}

\* absenceIsFinal: a session this process failed to write, "no other replica ever
\* saw it, so nobody could have ended it", so its absence is not taken for an end
\* (session.go:437-440).
UnwrittenNotCondemned ==
    \A r \in Replicas : rpc[r] = "sweep" => Condemned(r) \subseteq stored \cup ended

\* The same words, of a session whose write this process was told had failed.
UnwrittenAreOurs ==
    \A r, other \in Replicas :
        other # r => unpersisted[r] \cap local[other] \subseteq Noting(r)

\* reserveGeneration: "Stamping early is always safe: the marker only has to
\* precede local visibility" (session.go:304-305).
MarkedInTime ==
    \A r \in Replicas : rpc[r] = "sweep" =>
        Condemned(r) \cap stored \subseteq ended \cup unmarked[r]

\* Get: "Stamping BEFORE it becomes locally visible is what makes the predicate
\* read the adoption as newer than the scan" (session.go:406-408), as long as a
\* slot is free; here there is one for every session, and nobody logs in.
MarkersStay ==
    \A r \in Replicas : rpc[r] = "sweep" =>
        Condemned(r) \cap stored \subseteq ended \cup raced[r]

\* The claims, and the requests, sessions, faults and operations each is tried with.
Claims == <<"LogoutIsFinal", "UnwrittenNotCondemned", "UnwrittenAreOurs",
            "MarkedInTime", "MarkersStay">>
Tried(c) ==
    CASE c = "LogoutIsFinal" -> [threads |-> {t1, t2}, ids |-> 1, faults |-> 1]
      [] c = "UnwrittenNotCondemned" -> [threads |-> {t1}, ids |-> 1, faults |-> 1]
      [] c = "UnwrittenAreOurs" -> [threads |-> {t1, t3}, ids |-> 1, faults |-> 1]
      [] c = "MarkedInTime" -> [threads |-> {t1}, ids |-> 1, faults |-> 0]
      [] c = "MarkersStay" -> [threads |-> {t1, t2, t3}, ids |-> 2, faults |-> 0]
Stands(c) ==
    CASE c = "LogoutIsFinal" -> LogoutIsFinal
      [] c = "UnwrittenNotCondemned" -> UnwrittenNotCondemned
      [] c = "UnwrittenAreOurs" -> UnwrittenAreOurs
      [] c = "MarkedInTime" -> MarkedInTime
      [] c = "MarkersStay" -> MarkersStay

AtHand == Claims[Len(refuted) + 1]

\* The system as Init has it.
BeginAgain ==
    LET None == [r \in Replicas |-> {}]
        No == [r \in Replicas |-> FALSE]
        NoIds == [t \in Threads |-> NoId]
    IN /\ table' = {} /\ stored' = {} /\ unanswered' = {} /\ local' = None
       /\ unpersisted' = None /\ stamped' = None /\ fresh' = None
       /\ rows' = [r \in Replicas |-> 0] /\ locked' = No
       /\ pc' = [t \in Threads |-> "idle"] /\ sid' = NoIds /\ nid' = NoIds /\ held' = {}
       /\ rpc' = [r \in Replicas |-> "idle"] /\ present' = None /\ pending' = None
       /\ full' = No /\ dead' = None /\ target' = None /\ raced' = None /\ unmarked' = None
       /\ minted' = {} /\ cookies' = {} /\ faults' = 0 /\ restarts' = 0
       /\ ended' = {} /\ won' = {}

Refute ==
    /\ ~Stands(AtHand)
    /\ refuted' = Append(refuted, AtHand)
    /\ BeginAgain

Run ==
    LET tried == Tried(AtHand) IN
    /\ Stands(AtHand)
    /\ Next
    /\ \A t \in Threads \ tried.threads : pc'[t] = pc[t]
    /\ \A t \in Threads : AtHand = "MarkersStay" => pc'[t] \notin {"swapRow", "swapLocalRow", "forget"}
    /\ Cardinality(minted') <= tried.ids
    /\ faults' <= tried.faults
    /\ UNCHANGED refuted

ClaimsSpec ==
    /\ Init /\ refuted = <<>>
    /\ [][Len(refuted) < Len(Claims) /\ (Run \/ Refute)]_claimsVars

\* Some claim stands: TLC's counterexample refutes each of them.
SomeClaimStands == refuted # Claims
=============================================================================
