-------------------------- MODULE SocksServerProps --------------------------
(* What the proxy promises, stated over SocksServer. *)
EXTENDS SocksServer

\* The values every variable keeps to.
TypeOK ==
  /\ status \in {"running", "stopping", "ended", "aborted", "crashed"}
  /\ currentId \in 0 .. MaxSessions
  /\ live \subseteq 0 .. currentId - 1
  /\ addrOf \in [Ids -> Addrs \cup {NoAddr}]
  /\ machine \in [Ids -> States]
  /\ proxy \in [Ids -> BOOLEAN]
  /\ conns \in [Addrs -> Ids \cup {Absent, Null}]
  /\ sock \in [Ends -> {"none", "connecting", "open", "failed", "freed"}]
  /\ user \in [Ends -> {"none", "tracker", "session", "proxy"}]
  /\ queued \in [Ends -> Seq(Items)]
  /\ flushed \in [Ends -> Nat]
  /\ rcvd \in [Ends -> 0 .. MaxChunks]
  /\ hungUp \subseteq Ends
  /\ todo \in Seq(Frames)
  /\ stale \subseteq Ids
  /\ sendFailed \subseteq Ids
  /\ presented \in [Ids -> Logins \cup {NoLogin}]

-----------------------------------------------------------------------------
(* Authentication *)

\* No connection to the outside is ever started for a client that has not sent a
\* user and password of the logins file (processPassAuthMsg to addConnection).
AuthenticatedBeforeConnect ==
  \A i \in Ids : sock[Out(i)] # "none" => presented[i] \in Accounts

-----------------------------------------------------------------------------
(* Objects and the pointers between them *)

Alive(e) == sock[e] \in {"connecting", "open", "failed"}

\* A socket object never outlives its session, and its user pointer is to an
\* object that still exists: no event is delivered to a deleted tracker, session
\* or proxy, and no socket is left that would not deliver its events.
UsersAreAlive ==
  \A e \in Ends : Alive(e) =>
    /\ e[1] \in live
    /\ user[e] = "proxy" => proxy[e[1]]
    /\ user[e] # "none"

\* A pointer in _connections, which is keyed by the address of a session, is to
\* the socket of the session that lives there now: the entries deleted sessions
\* leave behind are empty, whoever gets their address next.
ConnectionsOfTheLiving ==
  \A a \in Addrs : conns[a] \in Ids =>
    /\ conns[a] \in live
    /\ addrOf[conns[a]] = a
    /\ Alive(Out(conns[a]))

\* When the loop is about to dispatch an event, every session is at rest in a
\* state that the next event is handled in: the machine waits for a client
\* message, or for the connect, or the proxy has both sockets. The results of the
\* authorizer and of the connect never meet a machine in another state.
SettledBetweenEvents ==
  Idle =>
    \A i \in live :
      /\ machine[i] \in {"WaitForGreeting", "WaitForPassAuth", "WaitForCommand",
                         "WaitForProxyStart", "ProxyStarted"}
      /\ proxy[i] <=> machine[i] = "ProxyStarted"
      /\ sock[Out(i)] \in {"connecting", "failed"} <=> machine[i] = "WaitForProxyStart"
      /\ sock[Out(i)] = "open" <=> machine[i] = "ProxyStarted"
      /\ user[In(i)] = "proxy" <=> proxy[i]

\* Code runs on in a deleted session only after one of that session's own sends
\* was refused: sendMsg is the one call that destroys its caller's session behind
\* its back.
StaleOnlyAfterFailedSend == stale \subseteq sendFailed

-----------------------------------------------------------------------------
(* What the peers receive *)

Script == <<"AuthLoginPass", "authOk", "RequestGranted">>
Refusal == <<"NoAvailableMethod", "authFailed", "refusal">>
HandshakeLength == Len(Script)

\* A client is sent the three replies of a handshake in order, a refusal in place
\* of one of them ends the stream, and relayed data follows the grant only: the
\* grant is queued before the proxy that relays exists.
InOrder(q) ==
  \A k \in 1 .. Len(q) :
    IF k > HandshakeLength THEN q[k].kind = "data"
    ELSE \/ q[k].kind = Script[k]
         \/ q[k].kind = Refusal[k] /\ k = Len(q)

ClientStreamInOrder == \A i \in Ids : InOrder(queued[In(i)])

\* What a socket's output holds before relayed data: the handshake, in a client's.
Preface(s) == IF s = "in" THEN HandshakeLength ELSE 0

\* After the first p items, q has chunks of the n that were read, in order and each once.
Chunks(q, p, n) ==
  /\ \A k \in p + 1 .. Len(q) : q[k].kind = "data" /\ q[k].n \in 1 .. n
  /\ \A j, k \in p + 1 .. Len(q) : j < k => q[j].n < q[k].n
AllChunks(q, p, n) == Len(q) = p + n \/ (n = 0 /\ Len(q) <= p)

\* Each side is sent what the other side sent: in order, nothing twice, and with
\* nothing missing unless a send of that session was refused.
RelayedInOrder ==
  \A i \in Ids, s \in Sides :
    LET q == queued[<<i, Other(s)>>]
        p == Preface(Other(s))
        n == rcvd[<<i, s>>]
    IN  Chunks(q, p, n) /\ (i \notin sendFailed => AllChunks(q, p, n))

\* No client ever receives a refusal. The replies 0xFF and 0x01 are queued and
\* the socket is freed in the same callback, before libevent writes; a failed
\* command has no reply that can be encoded. A client the proxy refuses sees
\* its connection closed and no reason.
RefusalsNeverDelivered ==
  \A i \in Ids, k \in 1 .. HandshakeLength :
    k <= flushed[In(i)] => queued[In(i)][k].kind = Script[k]

-----------------------------------------------------------------------------
(* The assertion of getAddress *)

\* EventSocketCommon.cpp asserts that the family of a socket's address is one it
\* knows ("Unknown socket address family"): no run of the program ends there.
AddressFamilyIsKnown == status # "aborted"

-----------------------------------------------------------------------------
(* What a step never does *)

Rank == [s \in States |->
           CASE s = "WaitForGreeting" -> 0
             [] s = "WaitForPassAuth" -> 1
             [] s = "WaitForPassAuthResult" -> 2
             [] s = "WaitForCommand" -> 3
             [] s = "WaitForProxyStart" -> 4
             [] s \in {"ProxyStarted", "ProxyStartFailed", "ProtocolError"} -> 5]

\* A session goes through the handshake once and forwards, a session that was
\* deleted never comes back, and what was written to a peer is never taken back.
NeverBackwards ==
  [][/\ \A i \in Ids :
          /\ machine'[i] # machine[i] => Rank[machine'[i]] > Rank[machine[i]]
          /\ i < currentId /\ i \notin live => i \notin live'
     /\ \A e \in Ends :
          SubSeq(queued'[e], 1, flushed[e]) = SubSeq(queued[e], 1, flushed[e])]_vars

-----------------------------------------------------------------------------
(* What must happen *)

Running == status = "running"

\* A peer that hangs up, client or remote, ends the session, whichever state the
\* session is in and whichever event comes first.
HangUpEndsSession ==
  \A e \in Ends : (Running /\ e \in hungUp) ~> (e[1] \notin live \/ ~Running)

\* A connect that was started ends in the relay, in the socket's failure, or with
\* the session.
ConnectResolves ==
  \A i \in Ids :
    (Running /\ sock[Out(i)] = "connecting")
      ~> (proxy[i] \/ sock[Out(i)] = "failed" \/ i \notin live \/ ~Running)

\* What is queued for a peer is written, unless the session ends first.
QueuedIsWritten ==
  \A e \in Ends :
    (Running /\ flushed[e] < Len(queued[e]))
      ~> (flushed[e] = Len(queued[e]) \/ e[1] \notin live \/ ~Running)
=============================================================================
