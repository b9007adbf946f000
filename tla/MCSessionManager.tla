-------------------------- MODULE MCSessionManager --------------------------
(***************************************************************************)
(* An instance of SessionManager.                                          *)
(***************************************************************************)
EXTENDS SessionManager, TLC

CONSTANTS q1, q2
=============================================================================
