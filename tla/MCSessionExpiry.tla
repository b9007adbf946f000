-------------------------- MODULE MCSessionExpiry --------------------------
(***************************************************************************)
(* Two replicas, on one of which the session was started, and two requests *)
(* that may be made on either.                                             *)
(***************************************************************************)
EXTENDS SessionExpiry

\* A moment, the margin of a row and more, or the whole of the idle timeout; then
\* the idle timeout.
MCMoves == <<{1, 3, 8}, {8}>>
=============================================================================
