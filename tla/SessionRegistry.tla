--------------------------- MODULE SessionRegistry --------------------------
(***************************************************************************)
(* What the rows of the metadata database amount to for a cluster: which   *)
(* session ids exist.  An id comes into existence once, on its own or in   *)
(* the place of the id a login consumes, and once gone never comes back.   *)
(* It is the abstract specification of module SessionStore.                *)
(***************************************************************************)
CONSTANT Ids

VARIABLES
    live,   \* ids that exist
    used    \* ids that have ever existed

Init == live = {} /\ used = {}

Create(id) ==
    /\ id \notin used
    /\ live' = live \cup {id}
    /\ used' = used \cup {id}

Rekey(old, new) ==
    /\ old \in live /\ new \notin used
    /\ live' = (live \ {old}) \cup {new}
    /\ used' = used \cup {new}

End(id) ==
    /\ id \in live
    /\ live' = live \ {id}
    /\ UNCHANGED used

Next ==
    \/ \E id \in Ids : Create(id) \/ End(id)
    \/ \E old, new \in Ids : Rekey(old, new)

Spec == Init /\ [][Next]_<<live, used>>
=============================================================================
