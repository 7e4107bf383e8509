------------------------- MODULE SocksServerRefines -------------------------
(* The process as an implementation of SocksService. *)
EXTENDS SocksServerProps

\* A session is open while the manager's map has it.
SessionOf(i) == IF i \in live THEN "open"
                ELSE IF i < currentId THEN "over" ELSE "none"

\* A peer was given what libevent has written of its socket's output buffer.
GivenTo(e) == SubSeq(queued[e], 1, flushed[e])

Service == INSTANCE SocksService WITH
  Clients <- Ids,
  session <- [i \in Ids |-> SessionOf(i)],
  login <- presented,
  remote <- [i \in Ids |-> sock[Out(i)]],
  taken <- rcvd,
  given <- [e \in Ends |-> GivenTo(e)]

\* Whatever the interleaving of events and interrupted callbacks, the peers see no
\* more than SocksService lets them: no grant without a connection that is up, no
\* connection without an account, no reply or chunk out of turn, and nothing of a
\* session after its end.
ImplementsService == Service!Spec
=============================================================================
