--------------------------- MODULE MCUserContext ----------------------------
(***************************************************************************)
(* Instances of UserContext: one session with two requests, or two         *)
(* sessions with one each.                                                 *)
(***************************************************************************)
EXTENDS UserContext, TLC

CONSTANTS s1, s2, t1, t2

OwnerOne == (t1 :> s1) @@ (t2 :> s1)
OwnerTwo == (t1 :> s1) @@ (t2 :> s2)

SymmetricConns == Permutations(Conns)
=============================================================================
