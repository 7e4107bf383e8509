---------------------------- MODULE MCMemBuffers ----------------------------
(* A small instance of MemBuffers for TLC: bits for bytes. *)
EXTENDS MemBuffers

\* Some of each width; the last is longer than the buffer.
MCContents == {<<0>>, <<1>>, <<0, 1>>, <<1, 0, 1, 1>>, <<0, 0, 0, 0, 0, 0, 0, 1>>}
=============================================================================
