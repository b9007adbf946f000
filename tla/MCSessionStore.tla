--------------------------- MODULE MCSessionStore ---------------------------
(***************************************************************************)
(* Instances of SessionStore: one or two replicas, one or two request      *)
(* threads on each.                                                        *)
(***************************************************************************)
EXTENDS SessionStore, TLC

CONSTANTS r1, r2, t1, t2

HomeOne == t1 :> r1
HomeOneEach == (t1 :> r1) @@ (t2 :> r2)
HomeTwoOnOne == (t1 :> r1) @@ (t2 :> r1)

SymmetricIds == Permutations(Ids)
=============================================================================
