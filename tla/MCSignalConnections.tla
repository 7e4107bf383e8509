------------------------ MODULE MCSignalConnections ------------------------
(* A small instance of SignalConnections for TLC: a sender and two receivers, one of
   them with two slots. One of these has the hash of the other receiver's slot. *)
EXTENDS SignalConnections

CONSTANTS a, b, c

MCObjects == {a, b, c}
MCSignals == {<<a, "changed">>}
MCSlots == {<<b, "show">>, <<b, "save">>, <<c, "show">>}
MCHash ==
  [x \in MCSignals \cup MCSlots |->
     CASE x[1] = a -> 1
       [] x = <<b, "show">> -> 2
       [] OTHER -> 3]
=============================================================================
