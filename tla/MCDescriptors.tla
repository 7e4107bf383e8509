--------------------------- MODULE MCDescriptors ---------------------------
(* Small instances of Descriptors for TLC. *)
EXTENDS Descriptors
=============================================================================
