---------------------------- MODULE SocksServer ----------------------------
(* The SOCKS5 proxy process: SessionMng and EventTcpServer, the sessions they
   own, and in each session the tracker, the protocol state machine, the stream
   proxy and the two EventSocketConnected objects they share.

   The program is one thread running a libevent loop. An action guarded by Idle
   is the loop dispatching one event; everything the callback does up to a call
   that may destroy the session is that action. What the C++ functions below
   that call still have to do is kept in todo, the call stack, and runs in the
   steps of Resume before the loop dispatches anything else.

   The network and the peers are the environment: they choose what is read,
   when a connect ends, when a peer hangs up and how much output is written.

   Operators whose comment begins with Fault are not part of the model: each is a
   plausible slip in the operator below it, kept to see that a property can fail. *)
EXTENDS Integers, Sequences, FiniteSets

CONSTANTS
  MaxSessions,   \* bound: clients accepted in a behaviour
  MaxChunks,     \* bound: reads of relayed data per socket
  Addrs,         \* memory addresses a Session may be allocated at
  Accounts,      \* the <<user, password>> pairs of the logins file
  Logins,        \* the <<user, password>> pairs clients try
  SendMayFail    \* TRUE: evbuffer_add may fail (allocation failure)

ASSUME BoundsAssumption == MaxSessions \in Nat /\ MaxChunks \in Nat
ASSUME SendAssumption == SendMayFail \in BOOLEAN

Ids == 0 .. MaxSessions - 1
Sides == {"in", "out"}        \* Session::_inConn and Session::_outConn
Ends == Ids \X Sides
In(i) == <<i, "in">>
Out(i) == <<i, "out">>
Other(s) == IF s = "in" THEN "out" ELSE "in"

VARIABLES
  status,       \* the process: running, stopping, ended, aborted or crashed
  currentId,    \* SessionMng::_currentId
  live,         \* keys of SessionMng::_sessions
  addrOf,       \* address of each Session object
  machine,      \* StateMachine::_state of each session
  proxy,        \* Session::_tcpStreamProxy # nullptr
  conns,        \* EventTcpServer::_connections: address -> socket of a session
  sock,         \* each socket object
  user,         \* EventSocketConnected::_user of each socket
  queued,       \* everything ever put in a socket's output buffer
  flushed,      \* how many of these were written to the network
  rcvd,         \* relayed chunks read from a socket
  hungUp,       \* sockets whose peer has closed, the event not yet dispatched
  todo,         \* what the running callback still has to do, innermost first
  stale,        \* history: sessions whose code ran on after their destruction
  sendFailed,   \* history: sessions one of whose sends was refused
  presented     \* history: the credentials a client sent, NoLogin before

procVars == <<status, currentId, addrOf>>
ownVars == <<live, proxy, conns, sock, user>>
netVars == <<flushed, rcvd, hungUp>>
histVars == <<stale, sendFailed, presented>>
vars == <<procVars, ownVars, netVars, histVars, machine, queued, todo>>

States == {"WaitForGreeting", "WaitForPassAuth", "WaitForPassAuthResult",
           "WaitForCommand", "WaitForProxyStart", "ProxyStarted",
           "ProxyStartFailed", "ProtocolError"}

NoAddr == "NoAddr"
NoLogin == <<>>
Absent == -2     \* an address that is no key of _connections
Null == -1       \* a key whose shared_ptr has been reset

\* What clients send before the relay, one read event each (both kinds of IP
\* address are one).
Buffers ==
  [kind: {"greeting"}, login: BOOLEAN]
    \cup [kind: {"auth"}, creds: Logins]
    \cup [kind: {"command"}, cmd: {"TCPStream", "TCPPortBinding"},
          type: {"IPAddr", "DomainAddr"}]
    \cup [kind: {"other"}]   \* decodes as none of the three

\* What is put in output buffers: the replies, and chunk n read on the other side.
Replies == {"AuthLoginPass", "NoAvailableMethod", "authOk", "authFailed",
            "RequestGranted", "refusal"}
Items == [kind: Replies \cup {"data"}, n: 0 .. MaxChunks]
Reply(r) == [kind |-> r, n |-> 0]
Data(n) == [kind |-> "data", n |-> n]

\* A refusal carries SocksAddress{}, whose type 0 the encoder does not know.
Encodable(r) == r # "refusal"

Ops == {"methodSent", "authCompleted", "responseSent", "proxyStarted",
        "startFailed", "makeProxy"}
Frame(op, i, ok) == [op |-> op, id |-> i, ok |-> ok]
Frames == [op: Ops, id: Ids, ok: BOOLEAN]

Init ==
  /\ status = "running"
  /\ currentId = 0
  /\ live = {}
  /\ addrOf = [i \in Ids |-> NoAddr]
  /\ machine = [i \in Ids |-> "WaitForGreeting"]
  /\ proxy = [i \in Ids |-> FALSE]
  /\ conns = [a \in Addrs |-> Absent]
  /\ sock = [e \in Ends |-> "none"]
  /\ user = [e \in Ends |-> "none"]
  /\ queued = [e \in Ends |-> <<>>]
  /\ flushed = [e \in Ends |-> 0]
  /\ rcvd = [e \in Ends |-> 0]
  /\ hungUp = {}
  /\ todo = <<>>
  /\ stale = {}
  /\ sendFailed = {}
  /\ presented = [i \in Ids |-> NoLogin]

Idle == status = "running" /\ todo = <<>>

-----------------------------------------------------------------------------
(* Destruction *)

\* Fault: the entry is looked up and its pointer kept.
CloseConnectionKeepsPointer(a) == conns' = conns

\* EventTcpServer::closeConnection: the entry keeps its key, its pointer goes.
CloseConnection(a) ==
  conns' = [conns EXCEPT ![a] = IF @ = Absent THEN Absent ELSE Null]

\* The sockets of session i lose their last reference but for the server's.
ReleaseSockets(i) ==
  sock' = [e \in Ends |->
             IF e[1] = i /\ sock[e] # "none"
                /\ ~(e[2] = "out" /\ \E a \in Addrs : conns'[a] = i)
             THEN "freed" ELSE sock[e]]

\* Session::destroySelf: the proxy goes, and its two DirectedProxyConnections
\* clear the sockets' users; the server forgets the outgoing socket; the map
\* erases the session, which deletes it with its references.
DestroySelf(i) ==
  /\ live' = live \ {i}
  /\ proxy' = [proxy EXCEPT ![i] = FALSE]
  /\ user' = [e \in Ends |->
                IF e[1] = i /\ proxy[i] THEN "none" ELSE user[e]]
  /\ CloseConnection(addrOf[i])
  /\ ReleaseSockets(i)

ProtocolError(i) ==
  /\ machine' = [machine EXCEPT ![i] = "ProtocolError"]
  /\ DestroySelf(i)

\* InConnTracker::sendMsg. A reply that cannot be encoded or queued destroys the
\* session, and the caller is not told: it goes on with rest either way.
SendMsg(i, r, rest) ==
  /\ todo' = rest
  /\ \/ /\ Encodable(r)
        /\ queued' = [queued EXCEPT ![In(i)] = Append(@, Reply(r))]
        /\ UNCHANGED <<ownVars, sendFailed>>
     \/ /\ Encodable(r) => SendMayFail
        /\ sendFailed' = sendFailed \cup {i}
        /\ DestroySelf(i)
        /\ UNCHANGED queued

-----------------------------------------------------------------------------
(* The loop dispatches an event of the listener or of a client's socket *)

\* Fault: the session is stored under the next id.
AcceptUnderNextId ==
  /\ Idle
  /\ currentId < MaxSessions
  /\ currentId' = currentId + 1
  /\ \E a \in Addrs \ {addrOf[j] : j \in live} :
       addrOf' = [addrOf EXCEPT ![currentId] = a]
  /\ live' = live \cup {currentId + 1}
  /\ sock' = [sock EXCEPT ![In(currentId)] = "open"]
  /\ user' = [user EXCEPT ![In(currentId)] = "tracker"]
  /\ UNCHANGED <<status, machine, proxy, conns, queued, todo, netVars, histVars>>

\* SessionMng::onNewConnection, with the Session and InConnTracker constructors.
OnAcceptConnection ==
  /\ Idle
  /\ currentId < MaxSessions
  /\ currentId' = currentId + 1
  /\ \E a \in Addrs \ {addrOf[j] : j \in live} :
       addrOf' = [addrOf EXCEPT ![currentId] = a]
  /\ live' = live \cup {currentId}
  /\ sock' = [sock EXCEPT ![In(currentId)] = "open"]
  /\ user' = [user EXCEPT ![In(currentId)] = "tracker"]
  /\ UNCHANGED <<status, machine, proxy, conns, queued, todo, netVars, histVars>>

Readable(e) ==
  /\ Idle
  /\ sock[e] = "open"
  /\ e \notin hungUp      \* what the peer sent is read before its FIN

\* InConnTracker::onReceive in session i.
Receives(i) == Readable(In(i)) /\ user[In(i)] = "tracker"

\* processGreetingMsg: the answer goes out first, the state follows in methodSent.
ReadGreeting(i, buf) ==
  /\ Receives(i)
  /\ machine[i] = "WaitForGreeting" /\ buf.kind = "greeting"
  /\ SendMsg(i, IF buf.login THEN "AuthLoginPass" ELSE "NoAvailableMethod",
             <<Frame("methodSent", i, buf.login)>>)
  /\ UNCHANGED <<procVars, netVars, machine, stale, presented>>

\* Fault: the user is looked up and the password not compared.
AnyPassword(creds) == \E account \in Accounts : account[1] = creds[1]

\* SocksLoginPassAuthorizer::authUserPassword
AuthUserPassword(creds) == creds \in Accounts

\* Fault: a failure is reported as a protocol error before the tracker ends.
PassAuthFailureIsProtocolError(i, buf) ==
  /\ Receives(i)
  /\ machine[i] = "WaitForPassAuth" /\ buf.kind = "auth"
  /\ presented' = [presented EXCEPT ![i] = buf.creds]
  /\ IF AuthUserPassword(buf.creds)
     THEN /\ machine' = [machine EXCEPT ![i] = "WaitForCommand"]
          /\ SendMsg(i, "authOk", <<Frame("authCompleted", i, TRUE)>>)
     ELSE /\ todo' = <<Frame("authCompleted", i, FALSE)>>
          /\ ProtocolError(i)
          /\ UNCHANGED <<queued, sendFailed>>
  /\ UNCHANGED <<procVars, netVars, stale>>

\* processPassAuthMsg, then Session::onRequestPassAuth, which asks the authorizer
\* and reports back at once: onAuthRequestCompleted runs processPassAuthResult
\* in the state just set, and what is left of it is authCompleted.
ReadPassAuth(i, buf) ==
  /\ Receives(i)
  /\ machine[i] = "WaitForPassAuth" /\ buf.kind = "auth"
  /\ presented' = [presented EXCEPT ![i] = buf.creds]
  /\ LET success == AuthUserPassword(buf.creds)
     IN  /\ machine' = [machine EXCEPT ![i] =
              IF success THEN "WaitForCommand" ELSE "WaitForPassAuthResult"]
         /\ SendMsg(i, IF success THEN "authOk" ELSE "authFailed",
                    <<Frame("authCompleted", i, success)>>)
  /\ UNCHANGED <<procVars, netVars, stale>>

\* EventTcpServer::addConnection: the connect was started.
AddConnection(i) ==
  /\ sock' = [sock EXCEPT ![Out(i)] = "connecting"]
  /\ user' = [user EXCEPT ![Out(i)] = "session"]
  /\ conns' = [conns EXCEPT ![addrOf[i]] = i]

\* processCommandMsg, then Session::onStartProxy. Only a stream to an IP address
\* can be started, and bufferevent_socket_connect may fail even then.
ReadCommand(i, buf) ==
  /\ Receives(i)
  /\ machine[i] = "WaitForCommand" /\ buf.kind = "command"
  /\ machine' = [machine EXCEPT ![i] = "WaitForProxyStart"]
  /\ \/ /\ buf.cmd = "TCPStream" /\ buf.type = "IPAddr"
        /\ AddConnection(i)
        /\ UNCHANGED todo
     \/ /\ todo' = <<Frame("proxyStarted", i, FALSE), Frame("startFailed", i, FALSE)>>
        /\ UNCHANGED <<sock, user, conns>>
  /\ UNCHANGED <<procVars, netVars, histVars, live, proxy, queued>>

\* The message each state of processBuffer decodes.
Expected == [s \in States |->
               CASE s = "WaitForGreeting" -> "greeting"
                 [] s = "WaitForPassAuth" -> "auth"
                 [] s = "WaitForCommand" -> "command"
                 [] OTHER -> "nothing"]

\* Fault: a message that does not decode restarts the handshake.
UnexpectedRestarts(i, buf) ==
  /\ Receives(i)
  /\ buf.kind # Expected[machine[i]]
  /\ machine' = [machine EXCEPT ![i] = "WaitForGreeting"]
  /\ UNCHANGED <<procVars, ownVars, netVars, histVars, queued, todo>>

\* processBuffer when the buffer does not decode or the state takes none.
ReadUnexpected(i, buf) ==
  /\ Receives(i)
  /\ buf.kind # Expected[machine[i]]
  /\ ProtocolError(i)
  /\ UNCHANGED <<procVars, netVars, histVars, queued, todo>>

OnReceive(i) ==
  \E buf \in Buffers :
    \/ ReadGreeting(i, buf)
    \/ ReadPassAuth(i, buf)
    \/ ReadCommand(i, buf)
    \/ ReadUnexpected(i, buf)

-----------------------------------------------------------------------------
(* The outgoing socket, the relay, and the end of a session *)

\* Fault: the result is reported and no proxy made.
OnConnectedWithoutProxy(i) ==
  /\ Idle
  /\ sock[Out(i)] = "connecting" /\ user[Out(i)] = "session"
  /\ sock' = [sock EXCEPT ![Out(i)] = "open"]
  /\ todo' = <<Frame("proxyStarted", i, TRUE)>>
  /\ UNCHANGED <<procVars, netVars, histVars, live, proxy, conns, user, machine,
                 queued>>

\* EventSocketConnected::onEvent with CONNECTED, then Session::onConnected: the
\* local address was just set, so the branch without one is never taken.
OnConnected(i) ==
  /\ Idle
  /\ sock[Out(i)] = "connecting" /\ user[Out(i)] = "session"
  /\ sock' = [sock EXCEPT ![Out(i)] = "open"]
  /\ todo' = <<Frame("proxyStarted", i, TRUE), Frame("makeProxy", i, TRUE)>>
  /\ UNCHANGED <<procVars, netVars, histVars, live, proxy, conns, user, machine,
                 queued>>

\* The same event when the remote has reset the connection since: getpeername
\* leaves the family 0 and getAddress asserts.
OnConnectedReset(i) ==
  /\ Idle
  /\ sock[Out(i)] = "connecting" /\ user[Out(i)] = "session"
  /\ status' = "aborted"
  /\ UNCHANGED <<currentId, addrOf, ownVars, netVars, histVars, machine, queued,
                 todo>>

\* Fault: any event of a socket that connects is taken for CONNECTED.
ErrorIsConnected(i) ==
  /\ Idle
  /\ sock[Out(i)] = "connecting" /\ user[Out(i)] = "session"
  /\ sock' = [sock EXCEPT ![Out(i)] = "failed"]
  /\ todo' = <<Frame("proxyStarted", i, TRUE), Frame("makeProxy", i, TRUE)>>
  /\ UNCHANGED <<procVars, netVars, histVars, live, proxy, conns, user, machine,
                 queued>>

\* onEvent with ERROR: not connected, so closeConnection returns at once, and
\* Session::onConnectionClosed is empty.
OnConnectError(i) ==
  /\ Idle
  /\ sock[Out(i)] = "connecting" /\ user[Out(i)] = "session"
  /\ sock' = [sock EXCEPT ![Out(i)] = "failed"]
  /\ UNCHANGED <<procVars, netVars, histVars, live, proxy, conns, user, machine,
                 queued, todo>>

\* Fault: the cases of onDataReceived are swapped.
DataIsEchoed(i, s) ==
  LET from == <<i, s>>
  IN  /\ Readable(from)
      /\ user[from] = "proxy"
      /\ rcvd[from] < MaxChunks
      /\ rcvd' = [rcvd EXCEPT ![from] = @ + 1]
      /\ queued' = [queued EXCEPT ![from] = Append(@, Data(rcvd'[from]))]
      /\ UNCHANGED <<procVars, ownVars, flushed, hungUp, histVars, machine, todo>>

\* DirectedProxyConnection::onReceive, TcpStreamProxy::onDataReceived: the other
\* side's send is tried once and its result ignored.
OnDataReceived(i, s) ==
  LET from == <<i, s>>
      to == <<i, Other(s)>>
  IN  /\ Readable(from)
      /\ user[from] = "proxy"
      /\ rcvd[from] < MaxChunks
      /\ rcvd' = [rcvd EXCEPT ![from] = @ + 1]
      /\ \/ /\ queued' = [queued EXCEPT ![to] = Append(@, Data(rcvd'[from]))]
            /\ UNCHANGED sendFailed
         \/ /\ SendMayFail
            /\ sendFailed' = sendFailed \cup {i}
            /\ UNCHANGED queued
      /\ UNCHANGED <<procVars, ownVars, flushed, hungUp, machine, todo, stale,
                     presented>>

\* Fault: onProxyDestroy deletes the proxy and not the session.
ClosedEndsProxyOnly(i, s) ==
  /\ Idle
  /\ <<i, s>> \in hungUp
  /\ sock[<<i, s>>] = "open"
  /\ \/ user[<<i, s>>] = "tracker" /\ DestroySelf(i)
     \/ /\ user[<<i, s>>] = "proxy"
        /\ proxy' = [proxy EXCEPT ![i] = FALSE]
        /\ user' = [user EXCEPT ![In(i)] = "none", ![Out(i)] = "none"]
        /\ UNCHANGED <<live, conns, sock>>
  /\ UNCHANGED <<procVars, netVars, histVars, machine, queued, todo>>

\* Fault: the end of the remote is ignored, as Session::onConnectionClosed does.
ClosedByClientOnly(i, s) ==
  /\ Idle
  /\ s = "in" /\ <<i, s>> \in hungUp
  /\ sock[<<i, s>>] = "open"
  /\ DestroySelf(i)
  /\ UNCHANGED <<procVars, netVars, histVars, machine, queued, todo>>

\* Fault: the socket is closed and its user not told.
ClosedLeavesSession(i, s) ==
  /\ Idle
  /\ <<i, s>> \in hungUp
  /\ sock[<<i, s>>] = "open"
  /\ sock' = [sock EXCEPT ![<<i, s>>] = "failed"]
  /\ UNCHANGED <<procVars, netVars, histVars, live, proxy, conns, user, machine,
                 queued, todo>>

\* onEvent with EOF or ERROR on an open socket. The tracker and the proxy both
\* end the session, the proxy after closing the other side.
OnConnectionClosed(i, s) ==
  /\ Idle
  /\ <<i, s>> \in hungUp
  /\ sock[<<i, s>>] = "open"
  /\ user[<<i, s>>] \in {"tracker", "proxy"}
  /\ DestroySelf(i)
  /\ UNCHANGED <<procVars, netVars, histVars, machine, queued, todo>>

-----------------------------------------------------------------------------
(* The rest of the callback *)

Top == Head(todo)
Return == todo' = Tail(todo)

\* authCompleted looks at its parameter only, unless it has failed.
Touches(f) == f.op = "authCompleted" => ~f.ok

\* The frame runs on a live session.
Runs(ops) ==
  /\ status = "running" /\ todo # <<>>
  /\ Top.op \in ops
  /\ Top.id \in live

\* Fault: the handshake goes on whatever method was answered.
MethodSentUnchecked ==
  /\ Runs({"methodSent"})
  /\ Return
  /\ machine' = [machine EXCEPT ![Top.id] = "WaitForPassAuth"]
  /\ UNCHANGED <<procVars, ownVars, netVars, histVars, queued>>

\* The end of processGreetingMsg.
MethodSent ==
  /\ Runs({"methodSent"})
  /\ Return
  /\ IF Top.ok
     THEN /\ machine' = [machine EXCEPT ![Top.id] = "WaitForPassAuth"]
          /\ UNCHANGED ownVars
     ELSE ProtocolError(Top.id)
  /\ UNCHANGED <<procVars, netVars, histVars, queued>>

\* Fault: a failed authentication does not end the session.
NeverEnds ==
  /\ Runs({"authCompleted", "startFailed"})
  /\ Return
  /\ UNCHANGED <<procVars, ownVars, netVars, histVars, machine, queued>>

\* The end of InConnTracker::onAuthRequestCompleted, and of Session::onStartProxy
\* after a failure: the session that failed is destroyed.
EndIfFailed ==
  /\ Runs({"authCompleted", "startFailed"})
  /\ Return
  /\ IF Top.ok THEN UNCHANGED ownVars ELSE DestroySelf(Top.id)
  /\ UNCHANGED <<procVars, netVars, histVars, machine, queued>>

\* processStartProxyResult up to the answer.
ProxyStartResult ==
  /\ Runs({"proxyStarted"})
  /\ IF machine[Top.id] = "WaitForProxyStart"
     THEN /\ SendMsg(Top.id, IF Top.ok THEN "RequestGranted" ELSE "refusal",
                     [todo EXCEPT ![1] = Frame("responseSent", Top.id, Top.ok)])
          /\ UNCHANGED machine
     ELSE /\ ProtocolError(Top.id)
          /\ Return
          /\ UNCHANGED <<queued, sendFailed>>
  /\ UNCHANGED <<procVars, netVars, stale, presented>>

\* The end of processStartProxyResult.
ResponseSent ==
  /\ Runs({"responseSent"})
  /\ Return
  /\ machine' = [machine EXCEPT ![Top.id] =
                   IF Top.ok THEN "ProxyStarted" ELSE "ProxyStartFailed"]
  /\ UNCHANGED <<procVars, netVars, histVars, ownVars, queued>>

\* The end of Session::onConnected: the proxy takes both sockets over.
MakeProxy ==
  /\ Runs({"makeProxy"})
  /\ Return
  /\ proxy' = [proxy EXCEPT ![Top.id] = TRUE]
  /\ user' = [user EXCEPT ![In(Top.id)] = "proxy", ![Out(Top.id)] = "proxy"]
  /\ UNCHANGED <<procVars, netVars, histVars, live, conns, sock, machine, queued>>

\* The frame belongs to a session already deleted. Code that touches it is
\* undefined: it crashes, or runs on without an effect on what still exists.
ResumeDestroyed ==
  /\ status = "running" /\ todo # <<>>
  /\ Top.id \notin live
  /\ IF Touches(Top)
     THEN /\ stale' = stale \cup {Top.id}
          /\ \/ Return /\ UNCHANGED status
             \/ status' = "crashed" /\ UNCHANGED todo
     ELSE Return /\ UNCHANGED <<stale, status>>
  /\ UNCHANGED <<currentId, addrOf, ownVars, netVars, machine, queued, sendFailed,
                 presented>>

Resume ==
  \/ MethodSent
  \/ EndIfFailed
  \/ ProxyStartResult
  \/ ResponseSent
  \/ MakeProxy
  \/ ResumeDestroyed

-----------------------------------------------------------------------------
(* The peers, the kernel, and the end of the process *)

\* The peer closes or resets the connection.
PeerHangsUp(e) ==
  /\ status = "running"
  /\ sock[e] = "open" /\ e \notin hungUp
  /\ hungUp' = hungUp \cup {e}
  /\ UNCHANGED <<procVars, ownVars, flushed, rcvd, histVars, machine, queued, todo>>

\* libevent writes some of a socket's output.
Flush(e) ==
  /\ Idle
  /\ sock[e] = "open"
  /\ \E k \in flushed[e] + 1 .. Len(queued[e]) : flushed' = [flushed EXCEPT ![e] = k]
  /\ UNCHANGED <<procVars, ownVars, rcvd, hungUp, histVars, machine, queued, todo>>

\* SessionMng::onSignalOccured(SIGINT): event_base_loopbreak.
OnSignal ==
  /\ Idle
  /\ status' = "stopping"
  /\ UNCHANGED <<currentId, addrOf, ownVars, netVars, histVars, machine, queued,
                 todo>>

\* run() has returned: ~SessionMng deletes the sessions, then the server's map.
Exit ==
  /\ status = "stopping"
  /\ status' = "ended"
  /\ live' = {}
  /\ proxy' = [i \in Ids |-> FALSE]
  /\ user' = [e \in Ends |-> IF proxy[e[1]] THEN "none" ELSE user[e]]
  /\ conns' = [a \in Addrs |-> Absent]
  /\ sock' = [e \in Ends |-> IF sock[e] = "none" THEN "none" ELSE "freed"]
  /\ UNCHANGED <<currentId, addrOf, netVars, histVars, machine, queued, todo>>

-----------------------------------------------------------------------------

Connects(i) == OnConnected(i) \/ OnConnectedReset(i) \/ OnConnectError(i)

Next ==
  \/ OnAcceptConnection
  \/ \E i \in Ids : OnReceive(i)
  \/ \E i \in Ids : Connects(i)
  \/ \E i \in Ids, s \in Sides : OnDataReceived(i, s)
  \/ \E i \in Ids, s \in Sides : OnConnectionClosed(i, s)
  \/ Resume
  \/ \E e \in Ends : PeerHangsUp(e)
  \/ \E e \in Ends : Flush(e)
  \/ OnSignal
  \/ Exit

Spec == Init /\ [][Next]_vars

\* A callback that has begun goes on; libevent dispatches every event that stays
\* active; a connect always ends, if only by the kernel's timeout; a peer that
\* is there takes output. Reads, hang-ups and signals owe nothing.
Fairness ==
  /\ WF_vars(Resume)
  /\ \A i \in Ids : WF_vars(Connects(i))
  /\ \A i \in Ids, s \in Sides : WF_vars(OnConnectionClosed(i, s))
  /\ \A e \in Ends : WF_vars(Flush(e))

FairSpec == Spec /\ Fairness
=============================================================================
