-------------------------- MODULE MCSelectHandler --------------------------
(* A small instance of SelectHandler for TLC. *)
EXTENDS SelectHandler
=============================================================================
