---------------------------- MODULE MCSessionIds ----------------------------
(* A small instance of SessionIds for TLC. *)
EXTENDS SessionIds
=============================================================================
