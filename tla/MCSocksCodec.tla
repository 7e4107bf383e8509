---------------------------- MODULE MCSocksCodec ----------------------------
(* A small instance of SocksCodec for TLC. *)
EXTENDS SocksCodec

\* The first four bytes decide how a buffer is decoded, and take every value the
\* decoders tell apart. The fifth is a domain's length, and those up to the sixth
\* may be lengths of a user or a password; the rest is carried along.
MCByteAt == [k \in 0 .. MaxLength - 1 |->
  CASE k = 0 -> {1, 4, 5}
    [] k = 1 -> 0 .. 4
    [] k = 2 -> 0 .. 3
    [] k = 3 -> 0 .. 5
    [] k \in 4 .. 5 -> {0, 1, 2, 7}
    [] k \in 6 .. 7 -> {1, 2}
    [] OTHER -> {k}]

MCBoundNames ==
  {[family |-> "AF_INET", addr |-> <<10, 0, 0, 7>>, port |-> <<195, 80>>],
   [family |-> "AF_INET6", addr |-> [k \in 1 .. 16 |-> k], port |-> <<195, 80>>]}
=============================================================================
