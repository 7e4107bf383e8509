-------------------------- MODULE MCSignalHandler --------------------------
(* A small instance of SignalHandler for TLC. *)
EXTENDS SignalHandler
=============================================================================
