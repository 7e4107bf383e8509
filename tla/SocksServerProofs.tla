-------------------------- MODULE SocksServerProofs --------------------------
(* Proofs about SocksServer, for every value of its constants. *)
EXTENDS SocksServerRefines, TLAPS

-----------------------------------------------------------------------------
(* The inductive invariant behind the safety properties that are proved *)

\* Live sessions are at addresses of their own.
AddressesDiffer ==
  \A i \in live :
    /\ addrOf[i] \in Addrs
    /\ \A j \in live : addrOf[i] = addrOf[j] => i = j

\* Sessions, sockets and connections point to one another as they should.
Structure == UsersAreAlive /\ ConnectionsOfTheLiving /\ AddressesDiffer

\* The stack of a callback: at most two frames, of one session; only the result of
\* a start has its caller below it; and the session is where the frame on top
\* left it when it made its call.
FramesMeetTheirState ==
  /\ status \in {"stopping", "ended"} => todo = <<>>
  /\ Len(todo) <= 2
  /\ Len(todo) = 2 => /\ todo[1].op \in {"proxyStarted", "responseSent"}
                      /\ todo[2].op \in {"startFailed", "makeProxy"}
                      /\ todo[2].id = todo[1].id
  /\ \A k \in 1 .. Len(todo) :
       /\ todo[k].op = "methodSent" => machine[todo[k].id] = "WaitForGreeting"
       /\ todo[k].op \in {"proxyStarted", "responseSent"} =>
            /\ machine[todo[k].id] = "WaitForProxyStart"
            /\ sock[Out(todo[k].id)] # "connecting"

\* A frame that will touch a deleted session is there because a send failed.
StaleFramesHaveFailed ==
  \A k \in 1 .. Len(todo) :
    Touches(todo[k]) /\ todo[k].id \notin live => todo[k].id \in sendFailed

\* Before the command there is no outgoing socket; the machine waits while one
\* connects; after the authentication the client's credentials are an account's.
HandshakeProgress ==
  \A i \in Ids :
    /\ machine[i] \in {"WaitForGreeting", "WaitForPassAuth", "WaitForCommand"} =>
         sock[Out(i)] = "none"
    /\ sock[Out(i)] = "connecting" => machine[i] = "WaitForProxyStart"
    /\ machine[i] \in {"WaitForCommand", "WaitForProxyStart", "ProxyStarted",
                       "ProxyStartFailed"} => presented[i] \in Accounts

Callbacks ==
  /\ FramesMeetTheirState
  /\ StaleFramesHaveFailed
  /\ HandshakeProgress
  /\ AuthenticatedBeforeConnect
  /\ StaleOnlyAfterFailedSend

\* Nothing of session i is on the stack, or its frame for op is on top.
AtRest(i) == todo = <<>> \/ todo[1].id # i
Interrupted(i, op) == todo # <<>> /\ todo[1].id = i /\ todo[1].op = op

\* There is no proxy, and no outgoing socket was asked for.
NoRemote(i) == ~proxy[i] /\ sock[Out(i)] = "none"

\* Where a live session can be, machine, sockets, proxy, stack and client's stream
\* together: each line is a place where a callback ends or makes a call.
Phase(i) ==
  LET sent == Len(queued[In(i)])
      out == sock[Out(i)]
      granting == Len(todo) = 2 /\ todo[1].ok /\ todo[2].op = "makeProxy"
  IN  \/ /\ machine[i] = "WaitForGreeting" /\ NoRemote(i) /\ presented[i] = NoLogin
         /\ \/ AtRest(i) /\ sent = 0
            \/ Interrupted(i, "methodSent") /\ sent = 1
      \/ /\ machine[i] = "WaitForPassAuth" /\ NoRemote(i) /\ presented[i] = NoLogin
         /\ AtRest(i) /\ sent = 1
      \/ /\ machine[i] = "WaitForPassAuthResult" /\ NoRemote(i)
         /\ Interrupted(i, "authCompleted") /\ ~todo[1].ok /\ sent = 2
      \/ /\ machine[i] = "WaitForCommand" /\ NoRemote(i) /\ sent = 2
         /\ AtRest(i) \/ (Interrupted(i, "authCompleted") /\ todo[1].ok)
      \/ /\ machine[i] = "WaitForProxyStart" /\ ~proxy[i]
         /\ \/ AtRest(i) /\ sent = 2 /\ out \in {"connecting", "failed"}
            \/ Interrupted(i, "proxyStarted") /\ sent = 2 /\ ~todo[1].ok /\ out = "none"
            \/ Interrupted(i, "proxyStarted") /\ sent = 2 /\ granting /\ out = "open"
            \/ Interrupted(i, "responseSent") /\ sent = 3 /\ granting /\ out = "open"
      \/ /\ machine[i] = "ProxyStarted" /\ sent >= 3 /\ out = "open"
         /\ IF proxy[i] THEN AtRest(i) ELSE Interrupted(i, "makeProxy")

\* A number no client has had yet.
Fresh(i) ==
  /\ machine[i] = "WaitForGreeting" /\ NoRemote(i) /\ presented[i] = NoLogin
  /\ \A s \in Sides : queued[<<i, s>>] = <<>>

\* The client's socket is open and reports to the tracker, or to the proxy if there is one.
Attended(i) ==
  sock[In(i)] = "open" /\ user[In(i)] = IF proxy[i] THEN "proxy" ELSE "tracker"

\* Every session is somewhere in its life.
Phases ==
  /\ \A i \in live : Phase(i) /\ Attended(i)
  /\ \A i \in Ids : i >= currentId => Fresh(i)

\* The client of session i has been sent the script so far, or is being refused.
OnScript(i) ==
  \A k \in 1 .. HandshakeLength :
    k <= Len(queued[In(i)]) => queued[In(i)][k].kind = Script[k]
Refused(i) ==
  ~todo[1].ok /\ (Interrupted(i, "methodSent") \/ Interrupted(i, "authCompleted"))

\* Only what was queued is written; a refusal is the last of a stream whose session
\* ends before anything else is written; and the streams are as promised.
Streams ==
  /\ \A e \in Ends : flushed[e] <= Len(queued[e])
  /\ \A i \in live : OnScript(i) \/ Refused(i)
  /\ ClientStreamInOrder
  /\ RefusalsNeverDelivered
  /\ RelayedInOrder

-----------------------------------------------------------------------------
(* Lemmas about the stack and about the end of a session *)

\* Returning from a frame leaves the frames below it.
LEMMA TailOfFrames ==
  ASSUME NEW s \in Seq(Frames), s # <<>>
  PROVE  /\ Head(s) \in Frames /\ Head(s) = s[1]
         /\ Tail(s) \in Seq(Frames) /\ Len(s) \in Nat \ {0}
         /\ Len(Tail(s)) = Len(s) - 1
         /\ \A k \in 1 .. Len(Tail(s)) : Tail(s)[k] = s[k + 1]
  OBVIOUS

\* A frame that makes a call is replaced by what is left of it.
LEMMA ReplaceTop ==
  ASSUME NEW s \in Seq(Frames), s # <<>>, NEW f \in Frames
  PROVE  /\ [s EXCEPT ![1] = f] \in Seq(Frames)
         /\ Len([s EXCEPT ![1] = f]) = Len(s)
         /\ [s EXCEPT ![1] = f][1] = f
         /\ \A k \in 2 .. Len(s) : [s EXCEPT ![1] = f][k] = s[k]
  OBVIOUS

\* What is added to an output buffer keeps the buffers sequences of items.
LEMMA AppendToBuffer ==
  ASSUME NEW q \in [Ends -> Seq(Items)], NEW e \in Ends, NEW x \in Items
  PROVE  [q EXCEPT ![e] = Append(@, x)] \in [Ends -> Seq(Items)]
<1>1. Append(q[e], x) \in Seq(Items)
  OBVIOUS
<1>2. QED
  BY <1>1

\* What destroySelf does to the variables it writes.
LEMMA DestroyKeepsTypes ==
  ASSUME TypeOK, NEW i \in Ids, DestroySelf(i)
  PROVE  /\ live' \subseteq live
         /\ live' = live \ {i}
         /\ proxy' \in [Ids -> BOOLEAN]
         /\ conns' \in [Addrs -> Ids \cup {Absent, Null}]
         /\ sock' \in [Ends -> {"none", "connecting", "open", "failed", "freed"}]
         /\ \A e \in Ends : sock'[e] = "none" <=> sock[e] = "none"
         /\ user' \in [Ends -> {"none", "tracker", "session", "proxy"}]
  BY DEF TypeOK, DestroySelf, CloseConnection, ReleaseSockets, Ends, Sides

\* SendMsg sends or destroys, and leaves rest to run.
LEMMA SendKeepsTypes ==
  ASSUME TypeOK, NEW i \in Ids, NEW r \in Replies, NEW rest \in Seq(Frames),
         SendMsg(i, r, rest)
  PROVE  /\ todo' = rest
         /\ live' \subseteq live
         /\ proxy' \in [Ids -> BOOLEAN]
         /\ conns' \in [Addrs -> Ids \cup {Absent, Null}]
         /\ sock' \in [Ends -> {"none", "connecting", "open", "failed", "freed"}]
         /\ \A e \in Ends : sock'[e] = "none" <=> sock[e] = "none"
         /\ user' \in [Ends -> {"none", "tracker", "session", "proxy"}]
         /\ queued' \in [Ends -> Seq(Items)]
         /\ sendFailed \subseteq sendFailed' /\ sendFailed' \subseteq Ids
         /\ live' = live \/ (live' = live \ {i} /\ i \in sendFailed')
<1>1. CASE UNCHANGED <<ownVars, sendFailed>> /\ Encodable(r)
           /\ queued' = [queued EXCEPT ![In(i)] = Append(@, Reply(r))]
  <2>1. Reply(r) \in Items
    BY BoundsAssumption DEF Reply, Items
  <2>2. In(i) \in Ends
    BY DEF In, Ends, Sides
  <2>3. queued' \in [Ends -> Seq(Items)]
    BY <1>1, <2>1, <2>2, AppendToBuffer DEF TypeOK
  <2>4. QED
    BY <1>1, <2>3 DEF TypeOK, SendMsg, ownVars
<1>2. CASE DestroySelf(i) /\ sendFailed' = sendFailed \cup {i} /\ UNCHANGED queued
  BY <1>2, DestroyKeepsTypes DEF TypeOK, SendMsg
<1>3. QED
  BY <1>1, <1>2 DEF SendMsg

-----------------------------------------------------------------------------
(* Type correctness *)

\* Every step keeps every variable to its values.
LEMMA TypeStep == TypeOK /\ [Next]_vars => TypeOK'
<1> SUFFICES ASSUME TypeOK, [Next]_vars PROVE TypeOK'
  OBVIOUS
<1> USE BoundsAssumption
<1>1. CASE OnAcceptConnection
  <2>1. currentId \in Ids /\ In(currentId) \in Ends
    BY <1>1 DEF OnAcceptConnection, TypeOK, Ids, In, Ends, Sides
  <2>2. live' \subseteq 0 .. currentId' - 1 /\ currentId' \in 0 .. MaxSessions
    BY <1>1 DEF OnAcceptConnection, TypeOK
  <2>3. addrOf' \in [Ids -> Addrs \cup {NoAddr}]
    BY <1>1, <2>1 DEF OnAcceptConnection, TypeOK
  <2>4. /\ sock' \in [Ends -> {"none", "connecting", "open", "failed", "freed"}]
        /\ user' \in [Ends -> {"none", "tracker", "session", "proxy"}]
    BY <1>1, <2>1 DEF OnAcceptConnection, TypeOK
  <2>5. QED
    BY <1>1, <2>2, <2>3, <2>4 DEF OnAcceptConnection, TypeOK, netVars, histVars
<1>2. ASSUME NEW i \in Ids, OnReceive(i) PROVE TypeOK'
  <2>1. PICK buf \in Buffers : \/ ReadGreeting(i, buf) \/ ReadPassAuth(i, buf)
                              \/ ReadCommand(i, buf) \/ ReadUnexpected(i, buf)
    BY <1>2 DEF OnReceive
  <2>2. CASE ReadGreeting(i, buf)
    <3>1. buf.login \in BOOLEAN
      BY <2>2 DEF ReadGreeting, Buffers
    <3> DEFINE r == IF buf.login THEN "AuthLoginPass" ELSE "NoAvailableMethod"
               rest == <<Frame("methodSent", i, buf.login)>>
    <3>2. r \in Replies /\ rest \in Seq(Frames) /\ SendMsg(i, r, rest)
      BY <2>2, <3>1 DEF ReadGreeting, Replies, Frame, Frames, Ops
    <3> HIDE DEF r, rest
    <3>3. QED
      BY <2>2, <3>2, SendKeepsTypes
      DEF ReadGreeting, TypeOK, procVars, netVars
  <2>3. CASE ReadPassAuth(i, buf)
    <3> DEFINE success == AuthUserPassword(buf.creds)
               r == IF success THEN "authOk" ELSE "authFailed"
               rest == <<Frame("authCompleted", i, success)>>
    <3>1. success \in BOOLEAN
      BY DEF AuthUserPassword
    <3>2. r \in Replies /\ rest \in Seq(Frames)
      BY <3>1 DEF Replies, Frame, Frames, Ops
    <3>3. SendMsg(i, r, rest) /\ buf.creds \in Logins
      BY <2>3 DEF ReadPassAuth, Buffers
    <3>4. machine' \in [Ids -> States]
      BY <2>3 DEF ReadPassAuth, TypeOK, States
    <3>5. presented' \in [Ids -> Logins \cup {NoLogin}]
      BY <2>3, <3>3 DEF ReadPassAuth, TypeOK
    <3> HIDE DEF success, r, rest
    <3>6. /\ todo' \in Seq(Frames) /\ live' \subseteq live
          /\ proxy' \in [Ids -> BOOLEAN]
          /\ conns' \in [Addrs -> Ids \cup {Absent, Null}]
          /\ sock' \in [Ends -> {"none", "connecting", "open", "failed", "freed"}]
          /\ user' \in [Ends -> {"none", "tracker", "session", "proxy"}]
          /\ queued' \in [Ends -> Seq(Items)] /\ sendFailed' \subseteq Ids
      BY <3>2, <3>3, SendKeepsTypes
    <3>7. QED
      BY <2>3, <3>4, <3>5, <3>6 DEF ReadPassAuth, TypeOK, procVars, netVars
  <2>4. CASE ReadCommand(i, buf)
    <3>1. CASE AddConnection(i) /\ UNCHANGED todo
      BY <2>4, <3>1 DEF ReadCommand, AddConnection, TypeOK, States, Ends, Sides,
         Out, procVars, netVars, histVars
    <3>2. CASE todo' = <<Frame("proxyStarted", i, FALSE),
                         Frame("startFailed", i, FALSE)>>
               /\ UNCHANGED <<sock, user, conns>>
      <4>1. todo' \in Seq(Frames)
        BY <3>2 DEF Frame, Frames, Ops
      <4>2. QED
        BY <2>4, <3>2, <4>1 DEF ReadCommand, TypeOK, States, procVars, netVars,
           histVars
    <3>3. QED
      BY <2>4, <3>1, <3>2 DEF ReadCommand
  <2>5. CASE ReadUnexpected(i, buf)
    BY <2>5, DestroyKeepsTypes DEF ReadUnexpected, ProtocolError, TypeOK, States,
       procVars, netVars, histVars
  <2>6. QED
    BY <2>1, <2>2, <2>3, <2>4, <2>5
<1>3. ASSUME NEW i \in Ids, Connects(i) PROVE TypeOK'
  <2>1. CASE OnConnected(i)
    <3>1. todo' \in Seq(Frames)
      BY <2>1 DEF OnConnected, Frame, Frames, Ops
    <3>2. QED
      BY <2>1, <3>1 DEF OnConnected, TypeOK, procVars, netVars, histVars
  <2>2. CASE OnConnectedReset(i)
    BY <2>2 DEF OnConnectedReset, TypeOK, ownVars, netVars, histVars
  <2>3. CASE OnConnectError(i)
    BY <2>3 DEF OnConnectError, TypeOK, procVars, netVars, histVars
  <2>4. QED
    BY <1>3, <2>1, <2>2, <2>3 DEF Connects
<1>4. ASSUME NEW i \in Ids, NEW s \in Sides, OnDataReceived(i, s) PROVE TypeOK'
  <2>1. <<i, s>> \in Ends /\ <<i, Other(s)>> \in Ends
    BY DEF Ends, Sides, Other
  <2>2. rcvd' \in [Ends -> 0 .. MaxChunks]
    BY <1>4, <2>1 DEF OnDataReceived, TypeOK
  <2>3. Data(rcvd'[<<i, s>>]) \in Items
    BY <2>1, <2>2 DEF Data, Items
  <2> DEFINE x == Data(rcvd'[<<i, s>>])
             to == <<i, Other(s)>>
  <2>4. queued' \in [Ends -> Seq(Items)]
    <3>1. [queued EXCEPT ![to] = Append(@, x)] \in [Ends -> Seq(Items)]
      BY <2>1, <2>3, AppendToBuffer DEF TypeOK
    <3>2. \/ queued' = [queued EXCEPT ![to] = Append(@, x)]
          \/ UNCHANGED queued
      BY <1>4 DEF OnDataReceived
    <3>3. QED
      BY <3>1, <3>2 DEF TypeOK
  <2>5. QED
    BY <1>4, <2>2, <2>4 DEF OnDataReceived, TypeOK, procVars, ownVars
<1>5. ASSUME NEW i \in Ids, NEW s \in Sides, OnConnectionClosed(i, s) PROVE TypeOK'
  BY <1>5, DestroyKeepsTypes DEF OnConnectionClosed, TypeOK, procVars, netVars,
     histVars
<1>6. CASE Resume
  <2>1. /\ todo # <<>> /\ Top \in Frames /\ Tail(todo) \in Seq(Frames)
        /\ Top.id \in Ids /\ Top.ok \in BOOLEAN
    <3>1. todo # <<>>
      BY <1>6 DEF Resume, MethodSent, EndIfFailed, ProxyStartResult, ResponseSent,
         MakeProxy, ResumeDestroyed, Runs
    <3>2. QED
      BY <3>1, TailOfFrames DEF TypeOK, Top, Frames
  <2>2. CASE MethodSent
    BY <2>1, <2>2, DestroyKeepsTypes DEF MethodSent, ProtocolError, Return, TypeOK,
       States, procVars, ownVars, netVars, histVars
  <2>3. CASE EndIfFailed
    BY <2>1, <2>3, DestroyKeepsTypes DEF EndIfFailed, Return, TypeOK, procVars,
       ownVars, netVars, histVars
  <2>4. CASE ProxyStartResult
    <3>1. CASE machine[Top.id] = "WaitForProxyStart"
      <4> DEFINE r == IF Top.ok THEN "RequestGranted" ELSE "refusal"
                 f == Frame("responseSent", Top.id, Top.ok)
                 rest == [todo EXCEPT ![1] = f]
      <4>1. r \in Replies /\ f \in Frames
        BY <2>1 DEF Replies, Frame, Frames, Ops
      <4>2. rest \in Seq(Frames)
        BY <2>1, <4>1, ReplaceTop DEF TypeOK
      <4>3. SendMsg(Top.id, r, rest)
        BY <2>4, <3>1 DEF ProxyStartResult
      <4> HIDE DEF r, f, rest
      <4>4. /\ todo' \in Seq(Frames) /\ live' \subseteq live
            /\ proxy' \in [Ids -> BOOLEAN]
            /\ conns' \in [Addrs -> Ids \cup {Absent, Null}]
            /\ sock' \in [Ends -> {"none", "connecting", "open", "failed", "freed"}]
            /\ user' \in [Ends -> {"none", "tracker", "session", "proxy"}]
            /\ queued' \in [Ends -> Seq(Items)] /\ sendFailed' \subseteq Ids
        BY <2>1, <4>1, <4>2, <4>3, SendKeepsTypes
      <4>5. UNCHANGED <<procVars, netVars, machine, stale, presented>>
        BY <2>4, <3>1 DEF ProxyStartResult
      <4>6. QED
        BY <4>4, <4>5 DEF TypeOK, procVars, netVars
    <3>2. CASE machine[Top.id] # "WaitForProxyStart"
      BY <2>1, <2>4, <3>2, DestroyKeepsTypes DEF ProxyStartResult, ProtocolError,
         Return, TypeOK, States, procVars, netVars
    <3>3. QED
      BY <3>1, <3>2
  <2>5. CASE ResponseSent
    BY <2>1, <2>5 DEF ResponseSent, Return, TypeOK, States, procVars, ownVars,
       netVars, histVars
  <2>6. CASE MakeProxy
    BY <2>1, <2>6 DEF MakeProxy, Return, TypeOK, procVars, netVars, histVars
  <2>7. CASE ResumeDestroyed
    BY <2>1, <2>7 DEF ResumeDestroyed, Return, TypeOK, ownVars, netVars
  <2>8. QED
    BY <1>6, <2>2, <2>3, <2>4, <2>5, <2>6, <2>7 DEF Resume
<1>7. ASSUME NEW e \in Ends, PeerHangsUp(e) PROVE TypeOK'
  BY <1>7 DEF PeerHangsUp, TypeOK, procVars, ownVars, histVars
<1>8. ASSUME NEW e \in Ends, Flush(e) PROVE TypeOK'
  BY <1>8 DEF Flush, TypeOK, procVars, ownVars, histVars
<1>9. CASE OnSignal
  BY <1>9 DEF OnSignal, TypeOK, ownVars, netVars, histVars
<1>10. CASE Exit
  BY <1>10 DEF Exit, TypeOK, netVars, histVars
<1>11. CASE UNCHANGED vars
  BY <1>11 DEF TypeOK, vars, procVars, ownVars, netVars, histVars
<1>12. QED
  BY <1>1, <1>2, <1>3, <1>4, <1>5, <1>6, <1>7, <1>8, <1>9, <1>10, <1>11 DEF Next

\* Type correctness: in every state every variable has a value of its type, however
\* many clients connect and whatever they send.
THEOREM TypeCorrect == Spec => []TypeOK
<1>1. Init => TypeOK
  BY BoundsAssumption DEF Init, TypeOK, States
<1>2. QED
  BY <1>1, TypeStep, PTL DEF Spec

-----------------------------------------------------------------------------
(* The structure of sessions, sockets and connections *)

\* Ends are told apart by session and side.
LEMMA EndsDiffer ==
  ASSUME NEW i \in Ids
  PROVE  /\ In(i) \in Ends /\ Out(i) \in Ends
         /\ In(i)[1] = i /\ Out(i)[1] = i /\ Out(i)[2] = "out" /\ In(i)[2] = "in"
         /\ \A j \in Ids : In(i) # Out(j) /\ (Out(i) = Out(j) => i = j)
  BY DEF In, Out, Ends, Sides

\* The end of a session frees both its sockets and touches no other session's.
LEMMA DestroyFrees ==
  ASSUME TypeOK, Structure, NEW i \in Ids, DestroySelf(i)
  PROVE  /\ \A a \in Addrs : conns'[a] # i /\ (conns'[a] \in Ids => conns'[a] = conns[a])
         /\ \A e \in Ends : e[1] = i => sock'[e] \in {"none", "freed"}
         /\ \A e \in Ends : e[1] # i => sock'[e] = sock[e] /\ user'[e] = user[e]
         /\ \A j \in Ids : j # i => proxy'[j] = proxy[j]
<1>1. \A a \in Addrs : conns[a] = i => addrOf[i] = a
  BY DEF Structure, ConnectionsOfTheLiving
<1>2. conns' = [conns EXCEPT ![addrOf[i]] = IF @ = Absent THEN Absent ELSE Null]
  BY DEF DestroySelf, CloseConnection
<1>3. \A a \in Addrs : conns'[a] # i /\ (conns'[a] \in Ids => conns'[a] = conns[a])
  BY <1>1, <1>2 DEF TypeOK, Ids, Absent, Null
<1>4. sock' = [e \in Ends |-> IF e[1] = i /\ sock[e] # "none" THEN "freed" ELSE sock[e]]
  BY <1>3 DEF DestroySelf, ReleaseSockets
<1>5. QED
  BY <1>3, <1>4 DEF DestroySelf, TypeOK

\* It leaves the structure of the others as it was.
LEMMA DestroyKeepsStructure ==
  ASSUME TypeOK, Structure, NEW i \in Ids, DestroySelf(i), UNCHANGED addrOf
  PROVE  Structure'
<1>1. live' = live \ {i}
  BY DEF DestroySelf
<1>2. live \subseteq Ids
  BY BoundsAssumption DEF TypeOK, Ids
<1>3. UsersAreAlive'
  BY <1>1, <1>2, DestroyFrees DEF Structure, UsersAreAlive, Alive
<1>4. ASSUME NEW a \in Addrs, conns'[a] \in Ids
      PROVE  /\ conns'[a] \in live' /\ addrOf'[conns'[a]] = a
             /\ sock'[Out(conns'[a])] \in {"connecting", "open", "failed"}
  <2>1. conns'[a] = conns[a] /\ conns[a] # i /\ conns[a] \in Ids
    BY <1>4, DestroyFrees
  <2>2. conns[a] \in live /\ addrOf[conns[a]] = a /\ Alive(Out(conns[a]))
    BY <2>1 DEF Structure, ConnectionsOfTheLiving
  <2>3. sock'[Out(conns[a])] = sock[Out(conns[a])]
    BY <2>1, DestroyFrees, EndsDiffer
  <2>4. QED
    BY <1>1, <2>1, <2>2, <2>3 DEF Alive
<1>5. ConnectionsOfTheLiving'
  BY <1>4 DEF ConnectionsOfTheLiving, Alive, Out
<1>6. AddressesDiffer'
  BY <1>1 DEF Structure, AddressesDiffer
<1>7. QED
  BY <1>3, <1>5, <1>6 DEF Structure

\* Nothing of it changes, or a session ends.
LEMMA SendKeepsStructure ==
  ASSUME TypeOK, Structure, NEW i \in Ids, NEW r, NEW rest, SendMsg(i, r, rest),
         UNCHANGED addrOf
  PROVE  Structure'
<1>1. CASE UNCHANGED ownVars
  BY <1>1 DEF ownVars, Structure, UsersAreAlive, ConnectionsOfTheLiving,
     AddressesDiffer, Alive
<1>2. CASE DestroySelf(i)
  BY <1>2, DestroyKeepsStructure
<1>3. QED
  BY <1>1, <1>2 DEF SendMsg

\* A connect gives the session a second socket, known at the session's address.
LEMMA ConnectKeepsStructure ==
  ASSUME TypeOK, Structure, NEW i \in live, i \in Ids, AddConnection(i),
         UNCHANGED <<live, proxy, addrOf>>
  PROVE  Structure'
<1>1. \A e \in Ends : /\ e # Out(i) => sock'[e] = sock[e] /\ user'[e] = user[e]
                      /\ e = Out(i) => sock'[e] = "connecting" /\ user'[e] = "session"
  BY DEF AddConnection, TypeOK
<1>2. UsersAreAlive'
  <2>1. ASSUME NEW e \in Ends, Alive(e)'
        PROVE  e[1] \in live' /\ (user'[e] = "proxy" => proxy'[e[1]]) /\ user'[e] # "none"
    <3>1. CASE e = Out(i)
      BY <1>1, <3>1 DEF Out
    <3>2. CASE e # Out(i)
      BY <1>1, <2>1, <3>2 DEF Structure, UsersAreAlive, Alive
    <3>3. QED
      BY <3>1, <3>2
  <2>2. QED
    BY <2>1 DEF UsersAreAlive, Alive
<1>3. \A a \in Addrs : conns'[a] = conns[a] \/ (conns'[a] = i /\ addrOf[i] = a)
  BY DEF AddConnection, TypeOK
<1>4. \A j \in Ids : Alive(Out(j)) => Alive(Out(j))'
  BY <1>1 DEF Alive, Out, Ends, Sides
<1>5. Alive(Out(i))'
  BY <1>1 DEF Alive, Out, Ends, Sides
<1>6. ConnectionsOfTheLiving'
  BY <1>3, <1>4, <1>5 DEF Structure, ConnectionsOfTheLiving
<1>7. QED
  BY <1>2, <1>6 DEF Structure, AddressesDiffer

\* The two results a connect may have.
LEMMA ConnectedKeepsStructure ==
  ASSUME TypeOK, Structure, NEW i \in Ids, sock[Out(i)] = "connecting",
         NEW v \in {"open", "failed"}, sock' = [sock EXCEPT ![Out(i)] = v],
         UNCHANGED <<live, proxy, conns, user, addrOf>>
  PROVE  Structure'
<1>1. \A e \in Ends : Alive(e)' <=> Alive(e)
  BY EndsDiffer DEF TypeOK, Alive
<1>2. QED
  BY <1>1, EndsDiffer DEF Structure, UsersAreAlive, ConnectionsOfTheLiving,
     AddressesDiffer

\* The proxy becomes the user of both sockets of its session.
LEMMA ProxyKeepsStructure ==
  ASSUME TypeOK, Structure, NEW i \in Ids,
         proxy' = [proxy EXCEPT ![i] = TRUE],
         user' = [user EXCEPT ![In(i)] = "proxy", ![Out(i)] = "proxy"],
         UNCHANGED <<live, conns, sock, addrOf>>
  PROVE  Structure'
<1>1. \A e \in Ends : /\ user'[e] = user[e] \/ (user'[e] = "proxy" /\ e[1] = i)
                      /\ e[1] \in Ids
  BY EndsDiffer, SMTT(30) DEF TypeOK, Ends
<1>2. UsersAreAlive'
  BY <1>1 DEF Structure, UsersAreAlive, Alive, TypeOK
<1>3. QED
  BY <1>2 DEF Structure, ConnectionsOfTheLiving, AddressesDiffer, Alive

\* A new session has an address no other has, and a socket.
LEMMA AcceptKeepsStructure ==
  ASSUME TypeOK, Structure, OnAcceptConnection
  PROVE  Structure'
<1> DEFINE i == currentId
<1>1. /\ i \in Ids /\ i \notin live /\ live \subseteq Ids
      /\ live' = live \cup {i} /\ UNCHANGED <<proxy, conns>>
  BY BoundsAssumption DEF OnAcceptConnection, TypeOK, Ids
<1>2. PICK a \in Addrs : /\ a \notin {addrOf[j] : j \in live}
                         /\ addrOf' = [addrOf EXCEPT ![i] = a]
  BY DEF OnAcceptConnection
<1>3. addrOf'[i] = a /\ \A j \in live : addrOf'[j] = addrOf[j] /\ addrOf[j] # a
  BY <1>1, <1>2 DEF TypeOK
<1>4. \A e \in Ends : /\ e # In(i) => sock'[e] = sock[e] /\ user'[e] = user[e]
                      /\ e = In(i) => sock'[e] = "open" /\ user'[e] = "tracker"
  BY <1>1, EndsDiffer DEF OnAcceptConnection, TypeOK
<1>5. UsersAreAlive'
  <2>1. ASSUME NEW e \in Ends, Alive(e)'
        PROVE  e[1] \in live' /\ (user'[e] = "proxy" => proxy'[e[1]]) /\ user'[e] # "none"
    <3>1. CASE e = In(i)
      BY <1>1, <1>4, <3>1 DEF In
    <3>2. CASE e # In(i)
      BY <1>1, <1>4, <2>1, <3>2 DEF Structure, UsersAreAlive, Alive
    <3>3. QED
      BY <3>1, <3>2
  <2>2. QED
    BY <2>1 DEF UsersAreAlive, Alive
<1>6. ConnectionsOfTheLiving'
  <2>1. \A j \in Ids : sock'[Out(j)] = sock[Out(j)]
    BY <1>4 DEF In, Out, Ends, Sides
  <2>2. QED
    BY <1>1, <1>3, <2>1 DEF Out, Structure, ConnectionsOfTheLiving, Alive
<1>7. AddressesDiffer'
  BY <1>1, <1>3 DEF Structure, AddressesDiffer
<1>8. QED
  BY <1>5, <1>6, <1>7 DEF Structure

\* A session that a client's bytes or a frame reaches is alive.
LEMMA StructureStep == TypeOK /\ Structure /\ [Next]_vars => Structure'
<1> SUFFICES ASSUME TypeOK, Structure, [Next]_vars PROVE Structure'
  OBVIOUS
<1>1. ASSUME UNCHANGED <<ownVars, addrOf>> PROVE Structure'
  BY <1>1 DEF ownVars, Structure, UsersAreAlive, ConnectionsOfTheLiving,
     AddressesDiffer, Alive
<1>2. ASSUME NEW i \in Ids, OnReceive(i) PROVE Structure'
  <2>1. PICK buf \in Buffers : \/ ReadGreeting(i, buf) \/ ReadPassAuth(i, buf)
                              \/ ReadCommand(i, buf) \/ ReadUnexpected(i, buf)
    BY <1>2 DEF OnReceive
  <2>2. CASE ReadGreeting(i, buf)
    BY <2>2, SendKeepsStructure DEF ReadGreeting, procVars
  <2>3. CASE ReadPassAuth(i, buf)
    BY <2>3, SendKeepsStructure DEF ReadPassAuth, procVars
  <2>4. CASE ReadCommand(i, buf)
    <3>1. i \in live
      BY <2>4, EndsDiffer DEF ReadCommand, Receives, Readable, Structure,
         UsersAreAlive, Alive
    <3>2. CASE AddConnection(i)
      BY <2>4, <3>1, <3>2, ConnectKeepsStructure DEF ReadCommand, procVars
    <3>3. CASE UNCHANGED <<sock, user, conns>>
      BY <1>1, <2>4, <3>3 DEF ReadCommand, procVars, ownVars
    <3>4. QED
      BY <2>4, <3>2, <3>3 DEF ReadCommand
  <2>5. CASE ReadUnexpected(i, buf)
    BY <2>5, DestroyKeepsStructure DEF ReadUnexpected, ProtocolError, procVars
  <2>6. QED
    BY <2>1, <2>2, <2>3, <2>4, <2>5
<1>3. ASSUME NEW i \in Ids, Connects(i) PROVE Structure'
  <2>1. CASE OnConnected(i)
    BY <2>1, ConnectedKeepsStructure DEF OnConnected, procVars
  <2>2. CASE OnConnectedReset(i)
    BY <1>1, <2>2 DEF OnConnectedReset
  <2>3. CASE OnConnectError(i)
    BY <2>3, ConnectedKeepsStructure DEF OnConnectError, procVars
  <2>4. QED
    BY <1>3, <2>1, <2>2, <2>3 DEF Connects
<1>4. ASSUME NEW i \in Ids, NEW s \in Sides, OnDataReceived(i, s) PROVE Structure'
  BY <1>1, <1>4 DEF OnDataReceived, procVars
<1>5. ASSUME NEW i \in Ids, NEW s \in Sides, OnConnectionClosed(i, s)
      PROVE  Structure'
  BY <1>5, DestroyKeepsStructure DEF OnConnectionClosed, procVars
<1>6. CASE Resume
  <2>1. todo # <<>>
    BY <1>6 DEF Resume, MethodSent, EndIfFailed, ProxyStartResult, ResponseSent,
       MakeProxy, ResumeDestroyed, Runs
  <2>2. Top.id \in Ids
    BY <2>1, TailOfFrames DEF TypeOK, Top, Frames
  <2>3. CASE MethodSent
    BY <1>1, <2>2, <2>3, DestroyKeepsStructure DEF MethodSent, ProtocolError,
       procVars
  <2>4. CASE EndIfFailed
    BY <1>1, <2>2, <2>4, DestroyKeepsStructure DEF EndIfFailed, procVars
  <2>5. CASE ProxyStartResult
    BY <2>2, <2>5, SendKeepsStructure, DestroyKeepsStructure
    DEF ProxyStartResult, ProtocolError, procVars
  <2>6. CASE ResponseSent
    BY <1>1, <2>6 DEF ResponseSent, procVars
  <2>7. CASE MakeProxy
    BY <2>2, <2>7, ProxyKeepsStructure DEF MakeProxy, procVars
  <2>8. CASE ResumeDestroyed
    BY <1>1, <2>8 DEF ResumeDestroyed
  <2>9. QED
    BY <1>6, <2>3, <2>4, <2>5, <2>6, <2>7, <2>8 DEF Resume
<1>7. ASSUME NEW e \in Ends, PeerHangsUp(e) \/ Flush(e) PROVE Structure'
  BY <1>1, <1>7 DEF PeerHangsUp, Flush, procVars
<1>8. CASE OnSignal
  BY <1>1, <1>8 DEF OnSignal
<1>9. CASE Exit
  <2>1. \A e \in Ends : ~Alive(e)'
    BY <1>9 DEF Exit, Alive
  <2>2. \A a \in Addrs : conns'[a] \notin Ids
    BY <1>9 DEF Exit, Ids, Absent
  <2>3. live' = {}
    BY <1>9 DEF Exit
  <2>4. QED
    BY <2>1, <2>2, <2>3 DEF Structure, UsersAreAlive, ConnectionsOfTheLiving,
       AddressesDiffer
<1>10. CASE UNCHANGED vars
  BY <1>1, <1>10 DEF vars, procVars
<1>11. QED
  BY <1>2, <1>3, <1>4, <1>5, <1>6, <1>7, <1>8, <1>9, <1>10, AcceptKeepsStructure
  DEF Next

LEMMA StructureHolds == Spec => []Structure
<1>1. Init => Structure
  BY DEF Init, Structure, UsersAreAlive, ConnectionsOfTheLiving, AddressesDiffer,
     Alive, Ids, Absent
<1>2. QED
  BY <1>1, StructureStep, TypeCorrect, PTL DEF Spec

\* No event reaches a deleted object, whatever is accepted, refused or closed.
THEOREM UsersStayAlive == Spec => []UsersAreAlive
<1>1. Structure => UsersAreAlive
  BY DEF Structure
<1>2. QED
  BY <1>1, StructureHolds, PTL

\* A pointer in the server's map is to the socket of the session that lives at its
\* address now, whichever addresses are used again.
THEOREM ConnectionsHold == Spec => []ConnectionsOfTheLiving
<1>1. Structure => ConnectionsOfTheLiving
  BY DEF Structure
<1>2. QED
  BY <1>1, StructureHolds, PTL

-----------------------------------------------------------------------------
(* What a callback finds when it goes on *)

\* No outgoing socket appears, goes back to none, or starts to connect.
OutKept ==
  \A j \in Ids :
    /\ sock'[Out(j)] = "none" <=> sock[Out(j)] = "none"
    /\ sock'[Out(j)] = "connecting" => sock[Out(j)] = "connecting"

\* A session that ends has no socket connecting, and OutKept.
LEMMA DestroyKeepsOut ==
  ASSUME TypeOK, Structure, NEW i \in Ids, DestroySelf(i)
  PROVE  OutKept /\ sock'[Out(i)] # "connecting"
<1>1. ASSUME NEW j \in Ids
      PROVE  /\ sock'[Out(j)] = "none" <=> sock[Out(j)] = "none"
             /\ sock'[Out(j)] = "connecting" => sock[Out(j)] = "connecting" /\ j # i
  BY EndsDiffer, DestroyFrees, DestroyKeepsTypes
<1>2. QED
  BY <1>1 DEF OutKept

\* SendMsg too, and it keeps the live session or records the failure.
LEMMA SendKeepsOut ==
  ASSUME TypeOK, Structure, NEW i \in Ids, NEW r, NEW rest, SendMsg(i, r, rest)
  PROVE  /\ OutKept /\ todo' = rest /\ sendFailed \subseteq sendFailed'
         /\ live' = live \/ (live' = live \ {i} /\ i \in sendFailed')
<1>1. CASE UNCHANGED <<ownVars, sendFailed>>
  BY <1>1 DEF SendMsg, ownVars, OutKept
<1>2. CASE DestroySelf(i) /\ sendFailed' = sendFailed \cup {i}
  BY <1>2, DestroyKeepsOut DEF SendMsg, DestroySelf
<1>3. QED
  BY <1>1, <1>2 DEF SendMsg

\* Steps that leave machines, credentials and outgoing sockets where they were
\* leave the handshakes where they were.
LEMMA HandshakeKept ==
  ASSUME Callbacks, OutKept, UNCHANGED <<machine, presented>>
  PROVE  HandshakeProgress' /\ AuthenticatedBeforeConnect'
  BY DEF Callbacks, OutKept, HandshakeProgress, AuthenticatedBeforeConnect, Out

\* One machine may move on to the command, when the credentials are an account's,
\* to the end of the handshake, or to where no property asks anything of it.
LEMMA HandshakeMoves ==
  ASSUME TypeOK, Callbacks, OutKept, UNCHANGED presented, NEW i \in Ids, NEW m,
         machine' = [machine EXCEPT ![i] = m],
         \/ m = "ProtocolError" /\ sock'[Out(i)] # "connecting"
         \/ m = "WaitForPassAuth" /\ machine[i] = "WaitForGreeting"
         \/ m \in {"ProxyStarted", "ProxyStartFailed"}
            /\ machine[i] = "WaitForProxyStart" /\ sock'[Out(i)] # "connecting"
  PROVE  HandshakeProgress' /\ AuthenticatedBeforeConnect'
<1>1. AuthenticatedBeforeConnect'
  BY DEF Callbacks, OutKept, AuthenticatedBeforeConnect, Out
<1>2. ASSUME NEW j \in Ids
      PROVE  /\ machine'[j] \in {"WaitForGreeting", "WaitForPassAuth",
                                "WaitForCommand"} => sock'[Out(j)] = "none"
             /\ sock'[Out(j)] = "connecting" => machine'[j] = "WaitForProxyStart"
             /\ machine'[j] \in {"WaitForCommand", "WaitForProxyStart",
                                "ProxyStarted", "ProxyStartFailed"} =>
                  presented'[j] \in Accounts
  <2>1. CASE j = i
    BY <2>1 DEF TypeOK, Callbacks, OutKept, HandshakeProgress
  <2>2. CASE j # i
    BY <2>2 DEF TypeOK, Callbacks, OutKept, HandshakeProgress
  <2>3. QED
    BY <2>1, <2>2
<1>3. QED
  BY <1>1, <1>2 DEF HandshakeProgress, Out

\* The frames of the stack are frames of sessions.
LEMMA FrameOfStack ==
  ASSUME TypeOK
  PROVE  \A k \in 1 .. Len(todo) : todo[k] \in Frames /\ todo[k].id \in Ids
<1>1. \A k \in 1 .. Len(todo) : todo[k] \in Frames
  BY DEF TypeOK
<1>2. QED
  BY <1>1 DEF Frames

\* Steps that leave the stack alone, and delete sessions between callbacks only.
LEMMA StackKept ==
  ASSUME Callbacks, OutKept, TypeOK,
         UNCHANGED <<todo, machine, presented, stale>>,
         sendFailed \subseteq sendFailed',
         live \subseteq live' \/ todo = <<>>,
         status' \in {"stopping", "ended"} => todo = <<>>
  PROVE  Callbacks'
<1>1. \A k \in 1 .. Len(todo) : todo[k].id \in Ids
  BY FrameOfStack
<1>2. FramesMeetTheirState'
  BY <1>1 DEF Callbacks, OutKept, FramesMeetTheirState, Out
<1>3. StaleFramesHaveFailed'
  BY DEF Callbacks, StaleFramesHaveFailed, Touches
<1>4. QED
  BY <1>2, <1>3, HandshakeKept DEF Callbacks, StaleOnlyAfterFailedSend

\* The stack after a return: one frame, or none.
LEMMA StackPopped ==
  ASSUME TypeOK, FramesMeetTheirState, todo # <<>>
  PROVE  /\ Top = todo[1] /\ Top \in Frames /\ Top.id \in Ids
         /\ Len(todo) \in 1 .. 2
         /\ Len(Tail(todo)) = Len(todo) - 1
         /\ \A k \in 1 .. Len(Tail(todo)) :
              /\ k = 1 /\ Tail(todo)[k] = todo[2] /\ Len(todo) = 2
              /\ Tail(todo)[k].id = Top.id
              /\ Tail(todo)[k].op \in {"startFailed", "makeProxy"}
<1>1. todo \in Seq(Frames)
  BY DEF TypeOK
<1>2. /\ Top = todo[1] /\ Top \in Frames /\ Len(todo) \in Nat \ {0}
      /\ Len(Tail(todo)) = Len(todo) - 1
      /\ \A k \in 1 .. Len(Tail(todo)) : Tail(todo)[k] = todo[k + 1]
  BY <1>1, TailOfFrames DEF Top
<1>3. Len(todo) \in 1 .. 2
  BY <1>2 DEF FramesMeetTheirState
<1>4. Top.id \in Ids
  BY <1>2 DEF Frames
<1>5. ASSUME NEW k \in 1 .. Len(Tail(todo))
      PROVE  /\ k = 1 /\ Tail(todo)[k] = todo[2] /\ Len(todo) = 2
             /\ Tail(todo)[k].id = Top.id
             /\ Tail(todo)[k].op \in {"startFailed", "makeProxy"}
  <2>1. k = 1 /\ Len(todo) = 2
    BY <1>2, <1>3
  <2>2. Tail(todo)[k] = todo[2]
    BY <1>2, <2>1
  <2>3. QED
    BY <1>2, <2>1, <2>2 DEF FramesMeetTheirState
<1>6. QED
  BY <1>2, <1>3, <1>4, <1>5

\* A return: what is left below belongs to the same session, which is live or
\* has had a send refused.
LEMMA ReturnKeepsCallbacks ==
  ASSUME TypeOK, Callbacks, todo # <<>>, todo' = Tail(todo),
         status' \notin {"stopping", "ended"},
         HandshakeProgress' /\ AuthenticatedBeforeConnect',
         stale' \subseteq sendFailed',
         Len(todo) = 2 => Top.id \in live' \/ Top.id \in sendFailed'
  PROVE  Callbacks'
<1>1. FramesMeetTheirState
  BY DEF Callbacks
<1> DEFINE t == Tail(todo)
<1>2. /\ Len(todo) \in 1 .. 2 /\ Len(t) = Len(todo) - 1
      /\ \A k \in 1 .. Len(t) :
           /\ Len(todo) = 2 /\ t[k].id = Top.id
           /\ t[k].op \in {"startFailed", "makeProxy"}
  BY <1>1, StackPopped
<1>3. todo' = t
  OBVIOUS
<1> HIDE DEF t
<1>4. FramesMeetTheirState'
  BY <1>2, <1>3 DEF FramesMeetTheirState
<1>5. StaleFramesHaveFailed'
  BY <1>2, <1>3 DEF StaleFramesHaveFailed
<1>6. QED
  BY <1>4, <1>5 DEF Callbacks, StaleOnlyAfterFailedSend

\* A stack of one frame that a read left behind after its answer.
LEMMA AnswerKeepsCallbacks ==
  ASSUME TypeOK, Structure, Callbacks, NEW i \in Ids, NEW r, NEW f,
         SendMsg(i, r, <<f>>), f.id = i, i \in live,
         \/ f.op = "methodSent" /\ machine'[i] = "WaitForGreeting"
         \/ f.op = "authCompleted",
         status' = "running", stale' = stale,
         HandshakeProgress' /\ AuthenticatedBeforeConnect'
  PROVE  Callbacks'
<1>1. /\ todo' = <<f>> /\ sendFailed \subseteq sendFailed'
      /\ i \in live' \/ i \in sendFailed'
  BY SendKeepsOut
<1>2. Len(todo') = 1 /\ todo'[1] = f
  BY <1>1
<1>3. FramesMeetTheirState'
  BY <1>2 DEF FramesMeetTheirState
<1>4. StaleFramesHaveFailed'
  BY <1>1, <1>2 DEF StaleFramesHaveFailed
<1>5. QED
  BY <1>1, <1>3, <1>4 DEF Callbacks, StaleOnlyAfterFailedSend

\* The two frames under which the result of a start is reported.
LEMMA StartKeepsCallbacks ==
  ASSUME TypeOK, Callbacks, NEW i \in live, NEW ok, NEW caller,
         caller \in {"startFailed", "makeProxy"},
         todo' = <<Frame("proxyStarted", i, ok), Frame(caller, i, ok)>>,
         machine'[i] = "WaitForProxyStart", sock'[Out(i)] # "connecting",
         status' = "running", UNCHANGED <<live, stale, sendFailed>>,
         HandshakeProgress' /\ AuthenticatedBeforeConnect'
  PROVE  Callbacks'
<1>1. /\ Len(todo') = 2
      /\ todo'[1].op = "proxyStarted" /\ todo'[1].id = i
      /\ todo'[2].op = caller /\ todo'[2].id = i
  BY DEF Frame
<1>2. FramesMeetTheirState'
  BY <1>1 DEF FramesMeetTheirState, Out
<1>3. StaleFramesHaveFailed'
  BY <1>1 DEF StaleFramesHaveFailed
<1>4. QED
  BY <1>2, <1>3 DEF Callbacks, StaleOnlyAfterFailedSend

\* A client's socket that is read belongs to a live session.
LEMMA ReadByTheLiving ==
  ASSUME TypeOK, Structure, NEW i \in Ids, Receives(i)
  PROVE  i \in live /\ todo = <<>> /\ status = "running"
  BY EndsDiffer DEF Receives, Readable, Idle, Structure, UsersAreAlive, Alive

\* What onReceive does with each message.
LEMMA ReadKeepsCallbacks ==
  ASSUME TypeOK, Structure, Callbacks, NEW i \in Ids, OnReceive(i)
  PROVE  Callbacks'
<1>1. PICK buf \in Buffers : \/ ReadGreeting(i, buf) \/ ReadPassAuth(i, buf)
                            \/ ReadCommand(i, buf) \/ ReadUnexpected(i, buf)
  BY DEF OnReceive
<1>2. i \in live /\ todo = <<>> /\ status = "running"
  BY <1>1, ReadByTheLiving DEF ReadGreeting, ReadPassAuth, ReadCommand,
     ReadUnexpected
<1>3. CASE ReadGreeting(i, buf)
  <2> DEFINE r == IF buf.login THEN "AuthLoginPass" ELSE "NoAvailableMethod"
             f == Frame("methodSent", i, buf.login)
  <2>1. SendMsg(i, r, <<f>>) /\ f.op = "methodSent" /\ f.id = i
    BY <1>3 DEF ReadGreeting, Frame
  <2> HIDE DEF r, f
  <2>2. HandshakeProgress' /\ AuthenticatedBeforeConnect'
    BY <1>3, <2>1, SendKeepsOut, HandshakeKept DEF ReadGreeting
  <2>3. QED
    BY <1>2, <1>3, <2>1, <2>2, AnswerKeepsCallbacks DEF ReadGreeting, procVars
<1>4. CASE ReadPassAuth(i, buf)
  <2> DEFINE success == AuthUserPassword(buf.creds)
             r == IF success THEN "authOk" ELSE "authFailed"
             f == Frame("authCompleted", i, success)
  <2>1. SendMsg(i, r, <<f>>) /\ f.op = "authCompleted" /\ f.id = i
    BY <1>4 DEF ReadPassAuth, Frame
  <2>2. OutKept
    BY <2>1, SendKeepsOut
  <2>3. presented' = [presented EXCEPT ![i] = buf.creds]
        /\ machine' = [machine EXCEPT ![i] =
             IF success THEN "WaitForCommand" ELSE "WaitForPassAuthResult"]
    BY <1>4 DEF ReadPassAuth
  <2>4. success => buf.creds \in Accounts
    BY DEF AuthUserPassword
  <2> HIDE DEF success, r, f
  <2>5. HandshakeProgress /\ AuthenticatedBeforeConnect
    BY DEF Callbacks
  <2>6. sock[Out(i)] = "none" \/ machine[i] # "WaitForPassAuth"
    BY <2>5 DEF HandshakeProgress
  <2>7. machine[i] = "WaitForPassAuth"
    BY <1>4 DEF ReadPassAuth
  <2>8. ASSUME NEW j \in Ids
        PROVE  /\ machine'[j] \in {"WaitForGreeting", "WaitForPassAuth",
                                  "WaitForCommand"} => sock'[Out(j)] = "none"
               /\ sock'[Out(j)] = "connecting" => machine'[j] = "WaitForProxyStart"
               /\ machine'[j] \in {"WaitForCommand", "WaitForProxyStart",
                                  "ProxyStarted", "ProxyStartFailed"} =>
                    presented'[j] \in Accounts
               /\ sock'[Out(j)] # "none" => presented'[j] \in Accounts
    <3>1. CASE j = i
      BY <2>2, <2>3, <2>4, <2>6, <2>7, <3>1 DEF TypeOK, OutKept
    <3>2. CASE j # i
      BY <2>2, <2>3, <2>5, <3>2 DEF TypeOK, OutKept, HandshakeProgress,
         AuthenticatedBeforeConnect
    <3>3. QED
      BY <3>1, <3>2
  <2>9. HandshakeProgress' /\ AuthenticatedBeforeConnect'
    BY <2>8 DEF HandshakeProgress, AuthenticatedBeforeConnect, Out
  <2>10. QED
    BY <1>2, <1>4, <2>1, <2>9, AnswerKeepsCallbacks DEF ReadPassAuth, procVars
<1>5. CASE ReadCommand(i, buf)
  <2>1. /\ machine[i] = "WaitForCommand"
        /\ machine' = [machine EXCEPT ![i] = "WaitForProxyStart"]
        /\ UNCHANGED <<presented, stale, sendFailed, live>> /\ status' = "running"
    BY <1>2, <1>5 DEF ReadCommand, procVars, histVars
  <2>2. sock[Out(i)] = "none" /\ presented[i] \in Accounts
    BY <2>1 DEF Callbacks, HandshakeProgress
  <2>3. \A j \in Ids \ {i} : sock'[Out(j)] = sock[Out(j)]
    <3>1. \A j \in Ids \ {i} : Out(j) \in Ends /\ Out(j) # Out(i)
      BY EndsDiffer
    <3>2. \A e \in Ends : e # Out(i) => sock'[e] = sock[e]
      BY <1>5 DEF ReadCommand, AddConnection, TypeOK
    <3>3. QED
      BY <3>1, <3>2
  <2>4. ASSUME NEW j \in Ids
        PROVE  /\ machine'[j] \in {"WaitForGreeting", "WaitForPassAuth",
                                  "WaitForCommand"} => sock'[Out(j)] = "none"
               /\ sock'[Out(j)] = "connecting" => machine'[j] = "WaitForProxyStart"
               /\ machine'[j] \in {"WaitForCommand", "WaitForProxyStart",
                                  "ProxyStarted", "ProxyStartFailed"} =>
                    presented'[j] \in Accounts
               /\ sock'[Out(j)] # "none" => presented'[j] \in Accounts
    BY <2>1, <2>2, <2>3 DEF TypeOK, Callbacks, HandshakeProgress,
       AuthenticatedBeforeConnect
  <2>5. HandshakeProgress' /\ AuthenticatedBeforeConnect'
    BY <2>4 DEF HandshakeProgress, AuthenticatedBeforeConnect, Out
  <2>6. CASE UNCHANGED todo
    BY <1>2, <2>1, <2>5, <2>6 DEF Callbacks, FramesMeetTheirState,
       StaleFramesHaveFailed, StaleOnlyAfterFailedSend
  <2>7. CASE /\ todo' = <<Frame("proxyStarted", i, FALSE),
                          Frame("startFailed", i, FALSE)>>
             /\ UNCHANGED sock
    <3>1. machine'[i] = "WaitForProxyStart" /\ sock'[Out(i)] # "connecting"
      BY <2>1, <2>2, <2>7 DEF TypeOK
    <3>2. QED
      BY <1>2, <2>1, <2>5, <2>7, <3>1, StartKeepsCallbacks
  <2>8. QED
    BY <1>5, <2>6, <2>7 DEF ReadCommand
<1>6. CASE ReadUnexpected(i, buf)
  <2>1. /\ machine' = [machine EXCEPT ![i] = "ProtocolError"] /\ DestroySelf(i)
        /\ UNCHANGED <<presented, stale, sendFailed, todo, status>>
    BY <1>6 DEF ReadUnexpected, ProtocolError, procVars, histVars
  <2>2. OutKept /\ sock'[Out(i)] # "connecting"
    BY <2>1, DestroyKeepsOut
  <2>3. HandshakeProgress' /\ AuthenticatedBeforeConnect'
    BY <2>1, <2>2, HandshakeMoves
  <2>4. QED
    BY <1>2, <2>1, <2>3 DEF Callbacks, FramesMeetTheirState,
       StaleFramesHaveFailed, StaleOnlyAfterFailedSend
<1>7. QED
  BY <1>1, <1>3, <1>4, <1>5, <1>6

\* What the rest of a callback does, on a live session or a deleted one.
LEMMA ResumeKeepsCallbacks ==
  ASSUME TypeOK, Structure, Callbacks, Resume
  PROVE  Callbacks'
<1>1. status = "running" /\ todo # <<>>
  BY DEF Resume, MethodSent, EndIfFailed, ProxyStartResult, ResponseSent, MakeProxy,
     ResumeDestroyed, Runs
<1>2. /\ Top = todo[1] /\ Top \in Frames /\ Top.id \in Ids
      /\ Len(todo) \in 1 .. 2
      /\ Len(todo) = 2 => /\ Top.op \in {"proxyStarted", "responseSent"}
                          /\ todo[2].op \in {"startFailed", "makeProxy"}
                          /\ todo[2].id = Top.id
      /\ Top.op = "methodSent" => machine[Top.id] = "WaitForGreeting"
      /\ Top.op \in {"proxyStarted", "responseSent"} =>
           machine[Top.id] = "WaitForProxyStart" /\ sock[Out(Top.id)] # "connecting"
      /\ Touches(Top) /\ Top.id \notin live => Top.id \in sendFailed
  <2>1. FramesMeetTheirState /\ StaleFramesHaveFailed
    BY DEF Callbacks
  <2>2. /\ Top = todo[1] /\ Top \in Frames /\ Top.id \in Ids /\ Len(todo) \in 1 .. 2
    BY <1>1, <2>1, StackPopped
  <2>3. QED
    BY <2>1, <2>2 DEF FramesMeetTheirState, StaleFramesHaveFailed
<1>3. stale \subseteq sendFailed
  BY DEF Callbacks, StaleOnlyAfterFailedSend
<1>4. CASE MethodSent
  <2>1. /\ Top.op = "methodSent" /\ todo' = Tail(todo)
        /\ UNCHANGED <<status, presented, stale, sendFailed>>
    BY <1>4 DEF MethodSent, Runs, Return, procVars, histVars
  <2>2. CASE machine' = [machine EXCEPT ![Top.id] = "WaitForPassAuth"]
             /\ UNCHANGED ownVars
    <3>1. OutKept
      BY <2>2 DEF OutKept, ownVars
    <3>2. HandshakeProgress' /\ AuthenticatedBeforeConnect'
      BY <1>2, <2>1, <2>2, <3>1, HandshakeMoves
    <3>3. QED
      BY <1>1, <1>2, <1>3, <2>1, <3>2, ReturnKeepsCallbacks
  <2>3. CASE ProtocolError(Top.id)
    <3>1. OutKept /\ sock'[Out(Top.id)] # "connecting"
      BY <1>2, <2>3, DestroyKeepsOut DEF ProtocolError
    <3>2. HandshakeProgress' /\ AuthenticatedBeforeConnect'
      BY <1>2, <2>1, <2>3, <3>1, HandshakeMoves DEF ProtocolError
    <3>3. QED
      BY <1>1, <1>2, <1>3, <2>1, <3>2, ReturnKeepsCallbacks
  <2>4. QED
    BY <1>4, <2>2, <2>3 DEF MethodSent
<1>5. CASE EndIfFailed
  <2>1. /\ Top.op \in {"authCompleted", "startFailed"} /\ todo' = Tail(todo)
        /\ UNCHANGED <<status, machine, presented, stale, sendFailed>>
    BY <1>5 DEF EndIfFailed, Runs, Return, procVars, histVars
  <2>2. OutKept
    BY <1>2, <1>5, DestroyKeepsOut DEF EndIfFailed, OutKept, ownVars
  <2>3. QED
    BY <1>1, <1>2, <1>3, <2>1, <2>2, HandshakeKept, ReturnKeepsCallbacks
<1>6. CASE ProxyStartResult
  <2> DEFINE r == IF Top.ok THEN "RequestGranted" ELSE "refusal"
             f == Frame("responseSent", Top.id, Top.ok)
             rest == [todo EXCEPT ![1] = f]
  <2>1. Top.op = "proxyStarted" /\ Top.id \in live
    BY <1>6 DEF ProxyStartResult, Runs
  <2>2. SendMsg(Top.id, r, rest) /\ UNCHANGED <<status, machine, presented, stale>>
    BY <1>2, <1>6, <2>1 DEF ProxyStartResult, procVars
  <2>3. f \in Frames /\ f.op = "responseSent" /\ f.id = Top.id
    BY <1>2 DEF Frame, Frames, Ops
  <2>4. Len(rest) = Len(todo) /\ rest[1] = f /\ \A k \in 2 .. Len(todo) : rest[k] = todo[k]
    BY <1>1, <2>3, ReplaceTop DEF TypeOK
  <2> HIDE DEF r, f, rest
  <2>5. /\ OutKept /\ todo' = rest /\ sendFailed \subseteq sendFailed'
        /\ Top.id \in live' \/ Top.id \in sendFailed'
    BY <1>2, <2>1, <2>2, SendKeepsOut
  <2>6. HandshakeProgress' /\ AuthenticatedBeforeConnect'
    BY <2>2, <2>5, HandshakeKept
  <2>7. \A k \in 1 .. Len(rest) :
          /\ rest[k].id = Top.id
          /\ k = 1 => rest[k].op = "responseSent"
          /\ k = 2 => rest[k].op \in {"startFailed", "makeProxy"}
    BY <1>2, <2>3, <2>4
  <2>8. machine'[Top.id] = "WaitForProxyStart" /\ sock'[Out(Top.id)] # "connecting"
    BY <1>2, <2>1, <2>2, <2>5 DEF OutKept
  <2>9. FramesMeetTheirState'
    BY <1>1, <1>2, <2>2, <2>4, <2>5, <2>7, <2>8 DEF FramesMeetTheirState, Out
  <2>10. StaleFramesHaveFailed'
    BY <2>5, <2>7 DEF StaleFramesHaveFailed
  <2>11. QED
    BY <1>3, <2>2, <2>5, <2>6, <2>9, <2>10 DEF Callbacks, StaleOnlyAfterFailedSend
<1>7. CASE ResponseSent
  <2>1. /\ Top.op = "responseSent" /\ Top.id \in live /\ todo' = Tail(todo)
        /\ UNCHANGED <<status, sock, live, presented, stale, sendFailed>>
        /\ machine' = [machine EXCEPT ![Top.id] =
                         IF Top.ok THEN "ProxyStarted" ELSE "ProxyStartFailed"]
    BY <1>7 DEF ResponseSent, Runs, Return, procVars, histVars, ownVars
  <2>2. OutKept
    BY <2>1 DEF OutKept
  <2>3. HandshakeProgress' /\ AuthenticatedBeforeConnect'
    BY <1>2, <2>1, <2>2, HandshakeMoves
  <2>4. QED
    BY <1>1, <1>3, <2>1, <2>3, ReturnKeepsCallbacks
<1>8. CASE MakeProxy
  <2>1. /\ Top.op = "makeProxy" /\ todo' = Tail(todo)
        /\ UNCHANGED <<status, sock, machine, presented, stale, sendFailed>>
    BY <1>8 DEF MakeProxy, Runs, Return, procVars, histVars
  <2>2. OutKept
    BY <2>1 DEF OutKept
  <2>3. QED
    BY <1>1, <1>2, <1>3, <2>1, <2>2, HandshakeKept, ReturnKeepsCallbacks
<1>9. CASE ResumeDestroyed
  <2>1. /\ Top.id \notin live
        /\ UNCHANGED <<sock, live, machine, presented, sendFailed>>
        /\ stale' = (IF Touches(Top) THEN stale \cup {Top.id} ELSE stale)
    BY <1>9 DEF ResumeDestroyed, ownVars
  <2>2. OutKept
    BY <2>1 DEF OutKept
  <2>3. HandshakeProgress' /\ AuthenticatedBeforeConnect'
    BY <2>1, <2>2, HandshakeKept
  <2>4. stale' \subseteq sendFailed'
    BY <1>2, <1>3, <2>1
  <2>5. CASE todo' = Tail(todo) /\ status' = status
    <3>1. Len(todo) = 2 => Top.id \in sendFailed'
      BY <1>2, <2>1 DEF Touches
    <3>2. QED
      BY <1>1, <2>3, <2>4, <2>5, <3>1, ReturnKeepsCallbacks
  <2>6. CASE status' = "crashed" /\ UNCHANGED todo
    <3>1. FramesMeetTheirState' /\ StaleFramesHaveFailed'
      BY <2>1, <2>6 DEF Callbacks, FramesMeetTheirState, StaleFramesHaveFailed
    <3>2. QED
      BY <2>3, <2>4, <3>1 DEF Callbacks, StaleOnlyAfterFailedSend
  <2>7. QED
    BY <1>9, <2>5, <2>6 DEF ResumeDestroyed, Return
<1>10. QED
  BY <1>4, <1>5, <1>6, <1>7, <1>8, <1>9 DEF Resume

\* Every step keeps Callbacks.
LEMMA CallbacksStep ==
  TypeOK /\ Structure /\ Callbacks /\ [Next]_vars => Callbacks'
<1> SUFFICES ASSUME TypeOK, Structure, Callbacks, [Next]_vars PROVE Callbacks'
  OBVIOUS
<1>1. CASE OnAcceptConnection
  <2>1. currentId \in Ids
    BY <1>1, BoundsAssumption DEF OnAcceptConnection, TypeOK, Ids
  <2>2. OutKept
    BY <1>1, <2>1, EndsDiffer DEF OnAcceptConnection, OutKept, TypeOK
  <2>3. QED
    BY <1>1, <2>2, StackKept DEF OnAcceptConnection, histVars, Idle
<1>2. ASSUME NEW i \in Ids, OnReceive(i) PROVE Callbacks'
  BY <1>2, ReadKeepsCallbacks
<1>3. ASSUME NEW i \in Ids, Connects(i) PROVE Callbacks'
  <2>1. sock[Out(i)] = "connecting" /\ Out(i) \in Ends /\ Idle
    BY <1>3, EndsDiffer DEF Connects, OnConnected, OnConnectedReset, OnConnectError
  <2>2. ASSUME NEW x, x \in {"open", "failed"}, sock' = [sock EXCEPT ![Out(i)] = x]
        PROVE  OutKept /\ sock'[Out(i)] # "connecting"
    BY <2>1, <2>2, EndsDiffer DEF OutKept, TypeOK
  <2>3. CASE OnConnected(i)
    <3>1. /\ OutKept /\ sock'[Out(i)] # "connecting"
          /\ UNCHANGED <<machine, presented, live, stale, sendFailed, status>>
      BY <2>2, <2>3 DEF OnConnected, procVars, histVars
    <3>2. HandshakeProgress' /\ AuthenticatedBeforeConnect'
      BY <3>1, HandshakeKept
    <3>3. machine'[i] = "WaitForProxyStart" /\ status' = "running"
      BY <2>1, <3>1 DEF Callbacks, HandshakeProgress, Idle
    <3>4. i \in live
      BY <2>1, EndsDiffer DEF Structure, UsersAreAlive, Alive
    <3>5. QED
      BY <2>3, <3>1, <3>2, <3>3, <3>4, StartKeepsCallbacks DEF OnConnected
  <2>4. CASE OnConnectedReset(i)
    <3>1. OutKept /\ status' = "aborted"
      BY <2>4 DEF OnConnectedReset, OutKept, ownVars
    <3>2. QED
      BY <2>4, <3>1, StackKept DEF OnConnectedReset, ownVars, histVars
  <2>5. CASE OnConnectError(i)
    <3>1. OutKept
      BY <2>2, <2>5 DEF OnConnectError
    <3>2. QED
      BY <2>1, <2>5, <3>1, StackKept DEF OnConnectError, procVars, histVars, Idle
  <2>6. QED
    BY <1>3, <2>3, <2>4, <2>5 DEF Connects
<1>4. ASSUME NEW i \in Ids, NEW s \in Sides, OnDataReceived(i, s) PROVE Callbacks'
  <2>1. OutKept
    BY <1>4 DEF OnDataReceived, OutKept, ownVars
  <2>2. QED
    BY <1>4, <2>1, StackKept DEF OnDataReceived, ownVars, procVars, Readable, Idle
<1>5. ASSUME NEW i \in Ids, NEW s \in Sides, OnConnectionClosed(i, s)
      PROVE  Callbacks'
  <2>1. OutKept
    BY <1>5, DestroyKeepsOut DEF OnConnectionClosed
  <2>2. QED
    BY <1>5, <2>1, StackKept DEF OnConnectionClosed, procVars, histVars, Idle
<1>6. CASE Resume
  BY <1>6, ResumeKeepsCallbacks
<1>7. ASSUME NEW e \in Ends, PeerHangsUp(e) \/ Flush(e) PROVE Callbacks'
  <2>1. OutKept
    BY <1>7 DEF PeerHangsUp, Flush, OutKept, ownVars
  <2>2. QED
    BY <1>7, <2>1, StackKept DEF PeerHangsUp, Flush, ownVars, procVars, histVars,
       Idle
<1>8. CASE OnSignal
  <2>1. OutKept
    BY <1>8 DEF OnSignal, OutKept, ownVars
  <2>2. QED
    BY <1>8, <2>1, StackKept DEF OnSignal, ownVars, histVars, Idle
<1>9. CASE Exit
  <2>1. todo = <<>>
    BY <1>9 DEF Exit, Callbacks, FramesMeetTheirState
  <2>2. \A j \in Ids : sock'[Out(j)] =
                         IF sock[Out(j)] = "none" THEN "none" ELSE "freed"
    BY <1>9, EndsDiffer DEF Exit
  <2>3. OutKept
    BY <2>2 DEF OutKept
  <2>4. QED
    BY <1>9, <2>1, <2>3, StackKept DEF Exit, histVars
<1>10. CASE UNCHANGED vars
  <2>1. OutKept
    BY <1>10 DEF vars, OutKept, ownVars
  <2>2. QED
    BY <1>10, <2>1, StackKept DEF vars, ownVars, procVars, histVars, Callbacks,
       FramesMeetTheirState
<1>11. QED
  BY <1>1, <1>2, <1>3, <1>4, <1>5, <1>6, <1>7, <1>8, <1>9, <1>10 DEF Next

LEMMA CallbacksHold == Spec => []Callbacks
<1>1. Init => Callbacks
  BY EndsDiffer DEF Init, Callbacks, FramesMeetTheirState, StaleFramesHaveFailed,
     HandshakeProgress, AuthenticatedBeforeConnect, StaleOnlyAfterFailedSend
<1>2. QED
  BY <1>1, StructureHolds, CallbacksStep, TypeCorrect, PTL DEF Spec

\* A connection is started for authenticated clients only.
THEOREM ConnectsAuthenticated == Spec => []AuthenticatedBeforeConnect
<1>1. Callbacks => AuthenticatedBeforeConnect
  BY DEF Callbacks
<1>2. QED
  BY <1>1, CallbacksHold, PTL

\* Code runs on in a deleted session only when a send of that session was refused.
THEOREM StaleAfterFailure == Spec => []StaleOnlyAfterFailedSend
<1>1. Callbacks => StaleOnlyAfterFailedSend
  BY DEF Callbacks
<1>2. QED
  BY <1>1, CallbacksHold, PTL

-----------------------------------------------------------------------------
(* One session moves at a time *)

\* What a phase is about is as it was, for one session.
Same(j) ==
  /\ machine'[j] = machine[j] /\ presented'[j] = presented[j] /\ proxy'[j] = proxy[j]
  /\ \A e \in {In(j), Out(j)} :
       sock'[e] = sock[e] /\ user'[e] = user[e] /\ queued'[e] = queued[e]

\* The sockets of another session are others.
LEMMA OthersEnds ==
  ASSUME NEW i \in Ids, NEW j \in Ids \ {i}, NEW e \in {In(j), Out(j)}
  PROVE  e \in Ends /\ e[1] = j /\ e \notin {In(i), Out(i)}
  BY DEF In, Out, Ends, Sides

\* A session whose grant was sent, before it has its proxy.
LEMMA PhaseOfGrant ==
  ASSUME NEW i \in Ids, machine'[i] = "ProxyStarted", ~proxy'[i], Len(queued'[In(i)]) >= 3,
         sock'[Out(i)] = "open", Interrupted(i, "makeProxy")'
  PROVE  Phase(i)'
  BY DEF Phase

\* A session at rest stays in its phase while the others move.
LEMMA PhaseKept ==
  ASSUME NEW j \in Ids, Same(j), AtRest(j), AtRest(j)', Phase(j) /\ Attended(j)
  PROVE  (Phase(j) /\ Attended(j))'
<1>1. /\ machine'[j] = machine[j] /\ presented'[j] = presented[j] /\ proxy'[j] = proxy[j]
      /\ sock'[Out(j)] = sock[Out(j)] /\ queued'[In(j)] = queued[In(j)]
      /\ sock'[In(j)] = sock[In(j)] /\ user'[In(j)] = user[In(j)]
  BY DEF Same
<1>2. Attended(j)'
  BY <1>1 DEF Attended, In
<1>3. Phase(j)'
  BY <1>1 DEF Phase, NoRemote, AtRest, Interrupted, In, Out
<1>4. QED
  BY <1>2, <1>3

\* No step has frames of two sessions before and after it: session i moves, and
\* the others stay where they are.
LEMMA OneSessionMoves ==
  ASSUME TypeOK, Phases, NEW i \in Ids, i < currentId, currentId' = currentId,
         \A j \in Ids \ {i} : Same(j) /\ AtRest(j) /\ AtRest(j)',
         live' \subseteq live \cup {i},
         i \in live' => (Phase(i) /\ Attended(i))'
  PROVE  Phases'
<1>1. live \subseteq Ids /\ currentId \in Nat
  BY BoundsAssumption DEF TypeOK, Ids
<1>2. \A j \in live' : (Phase(j) /\ Attended(j))'
  BY <1>1, PhaseKept DEF Phases
<1>3. ASSUME NEW j \in Ids, j >= currentId
      PROVE  Fresh(j)'
  <2>1. Fresh(j) /\ Same(j)
    BY <1>1, <1>3 DEF Phases, Ids
  <2>2. queued'[In(j)] = <<>> /\ queued'[Out(j)] = <<>>
    BY <2>1 DEF Fresh, Same, In, Out, Sides
  <2>3. QED
    BY <2>1, <2>2 DEF Fresh, Same, NoRemote, In, Out, Sides
<1>4. QED
  BY <1>2, <1>3 DEF Phases

\* Steps that move no session.
LEMMA NoSessionMoves ==
  ASSUME Phases,
         UNCHANGED <<currentId, live, machine, presented, proxy, sock, user, queued, todo>>
  PROVE  Phases'
  BY DEF Phases, Phase, Attended, NoRemote, AtRest, Interrupted, Fresh, In, Out

\* The end of a session between callbacks, or by the frame on top.
LEMMA DestroyedMoves ==
  ASSUME TypeOK, Structure, Phases, NEW i \in live, i \in Ids, DestroySelf(i),
         UNCHANGED <<currentId, presented>>,
         \A j \in Ids \ {i} : machine'[j] = machine[j] /\ AtRest(j) /\ AtRest(j)',
         UNCHANGED queued
  PROVE  Phases'
<1>1. live' = live \ {i} /\ i < currentId
  BY BoundsAssumption DEF DestroySelf, TypeOK
<1>2. \A j \in Ids \ {i} : Same(j)
  BY DestroyFrees, EndsDiffer DEF Same
<1>3. QED
  BY <1>1, <1>2, OneSessionMoves

\* One more item in an output buffer.
Appended(e, x) == queued' = [queued EXCEPT ![e] = Append(@, x)]

\* The two outcomes of SendMsg.
Answered(i, r) == UNCHANGED <<ownVars, sendFailed>> /\ Appended(In(i), Reply(r))

\* A reply is queued for a client, or its session is destroyed.
LEMMA SendMoves ==
  ASSUME TypeOK, Structure, Phases, NEW i \in live, i \in Ids,
         NEW r, NEW rest, SendMsg(i, r, rest),
         UNCHANGED currentId,
         \A j \in Ids \ {i} : /\ machine'[j] = machine[j] /\ presented'[j] = presented[j]
                              /\ AtRest(j) /\ AtRest(j)',
         Encodable(r) /\ Answered(i, r) => (Phase(i) /\ Attended(i))'
  PROVE  Phases'
<1>1. i < currentId
  BY BoundsAssumption DEF TypeOK
<1>2. CASE Encodable(r) /\ Answered(i, r)
  <2>1. \A e \in Ends \ {In(i)} : queued'[e] = queued[e]
    BY <1>2 DEF Answered, Appended, TypeOK
  <2>2. \A j \in Ids \ {i} : Same(j)
    BY <1>2, <2>1, OthersEnds DEF Answered, Same, ownVars
  <2>3. QED
    BY <1>1, <1>2, <2>2, OneSessionMoves DEF Answered, ownVars
<1>3. CASE DestroySelf(i) /\ UNCHANGED queued
  <2>1. \A j \in Ids \ {i} : Same(j)
    BY <1>3, DestroyFrees, EndsDiffer DEF Same
  <2>2. live' = live \ {i}
    BY <1>3 DEF DestroySelf
  <2>3. QED
    BY <1>1, <2>1, <2>2, OneSessionMoves
<1>4. QED
  BY <1>2, <1>3 DEF SendMsg, Answered, Appended

\* How long a client's stream is after a reply.
LEMMA OneMore ==
  ASSUME TypeOK, NEW e \in Ends, NEW x \in Items, Appended(e, x)
  PROVE  /\ Len(queued[e]) \in Nat /\ Len(queued'[e]) = Len(queued[e]) + 1
         /\ queued'[e][Len(queued[e]) + 1] = x
         /\ \A k \in 1 .. Len(queued[e]) : queued'[e][k] = queued[e][k]
         /\ \A d \in Ends \ {e} : queued'[d] = queued[d]
<1>1. queued[e] \in Seq(Items) /\ queued'[e] = Append(queued[e], x)
  BY DEF Appended, TypeOK
<1>2. \A d \in Ends \ {e} : queued'[d] = queued[d]
  BY DEF Appended, TypeOK
<1>3. QED
  BY <1>1, <1>2

LEMMA RepliesAreItems ==
  /\ \A r \in Replies : Reply(r) \in Items /\ Reply(r).kind = r
  /\ \A n \in 0 .. MaxChunks : Data(n) \in Items /\ Data(n).kind = "data" /\ Data(n).n = n
  BY BoundsAssumption DEF Items, Reply, Data

-----------------------------------------------------------------------------
(* The phases, step by step *)

\* A client message takes its session to the next phase, or out of its life.
LEMMA ReadMoves ==
  ASSUME TypeOK, Structure, Phases, NEW i \in Ids, OnReceive(i)
  PROVE  Phases'
<1>1. PICK buf \in Buffers : \/ ReadGreeting(i, buf) \/ ReadPassAuth(i, buf)
                            \/ ReadCommand(i, buf) \/ ReadUnexpected(i, buf)
  BY DEF OnReceive
<1>2. i \in live /\ todo = <<>> /\ AtRest(i)
  BY <1>1, ReadByTheLiving DEF ReadGreeting, ReadPassAuth, ReadCommand,
     ReadUnexpected, AtRest
<1>3. Phase(i) /\ Attended(i)
  BY <1>2 DEF Phases
<1>4. \A j \in Ids : AtRest(j)
  BY <1>2 DEF AtRest
<1>5. i < currentId /\ machine \in [Ids -> States] /\ presented \in [Ids -> Logins \cup {NoLogin}]
  BY <1>2, BoundsAssumption DEF TypeOK
<1>6. In(i) \in Ends /\ Out(i) \in Ends
  BY EndsDiffer
<1>7. CASE ReadGreeting(i, buf)
  <2> DEFINE r == IF buf.login THEN "AuthLoginPass" ELSE "NoAvailableMethod"
             f == Frame("methodSent", i, buf.login)
  <2>1. SendMsg(i, r, <<f>>) /\ f.op = "methodSent" /\ f.id = i /\ Reply(r) \in Items
    BY <1>7, RepliesAreItems DEF ReadGreeting, Frame, Replies
  <2> HIDE DEF r, f
  <2>2. todo' = <<f>> /\ UNCHANGED <<currentId, machine, presented>>
    BY <1>7, <2>1 DEF ReadGreeting, SendMsg, procVars
  <2>3. \A j \in Ids \ {i} : AtRest(j)'
    BY <2>1, <2>2 DEF AtRest
  <2>4. machine[i] = "WaitForGreeting"
    BY <1>7 DEF ReadGreeting
  <2>5. NoRemote(i) /\ presented[i] = NoLogin /\ Len(queued[In(i)]) = 0
    BY <1>2, <1>3, <2>4 DEF Phase, Interrupted
  <2>6. ASSUME Answered(i, r) PROVE (Phase(i) /\ Attended(i))'
    <3>0. Appended(In(i), Reply(r))
      BY <2>6 DEF Answered
    <3>1. Len(queued'[In(i)]) = Len(queued[In(i)]) + 1
      BY <1>6, <2>1, <3>0, OneMore
    <3>2. Interrupted(i, "methodSent")'
      BY <2>1, <2>2 DEF Interrupted
    <3>3. NoRemote(i)' /\ Attended(i)'
      BY <1>3, <2>5, <2>6 DEF Answered, NoRemote, Attended, ownVars, In, Out
    <3>4. QED
      BY <2>2, <2>4, <2>5, <3>1, <3>2, <3>3 DEF Phase, In
  <2>7. QED
    BY <1>2, <1>4, <2>1, <2>2, <2>3, <2>6, SendMoves
<1>8. CASE ReadPassAuth(i, buf)
  <2> DEFINE success == AuthUserPassword(buf.creds)
             r == IF success THEN "authOk" ELSE "authFailed"
             f == Frame("authCompleted", i, success)
  <2>1. /\ SendMsg(i, r, <<f>>) /\ Reply(r) \in Items
        /\ f.op = "authCompleted" /\ f.id = i /\ f.ok = success
    BY <1>8, RepliesAreItems DEF ReadPassAuth, Frame, Replies
  <2>2. /\ machine[i] = "WaitForPassAuth"
        /\ machine' = [machine EXCEPT ![i] =
             IF success THEN "WaitForCommand" ELSE "WaitForPassAuthResult"]
        /\ presented' = [presented EXCEPT ![i] = buf.creds] /\ UNCHANGED currentId
    BY <1>8 DEF ReadPassAuth, procVars
  <2> HIDE DEF success, r, f
  <2>3. todo' = <<f>>
    BY <2>1 DEF SendMsg
  <2>4. \A j \in Ids \ {i} : /\ machine'[j] = machine[j] /\ presented'[j] = presented[j]
                             /\ AtRest(j)'
    BY <1>5, <2>1, <2>2, <2>3 DEF AtRest
  <2>5. NoRemote(i) /\ Len(queued[In(i)]) = 1
    BY <1>2, <1>3, <2>2 DEF Phase, Interrupted
  <2>6. ASSUME Answered(i, r) PROVE (Phase(i) /\ Attended(i))'
    <3>0. Appended(In(i), Reply(r))
      BY <2>6 DEF Answered
    <3>1. Len(queued'[In(i)]) = Len(queued[In(i)]) + 1
      BY <1>6, <2>1, <3>0, OneMore
    <3>2. Interrupted(i, "authCompleted")' /\ todo'[1].ok = success
      BY <2>1, <2>3 DEF Interrupted
    <3>3. NoRemote(i)' /\ Attended(i)'
      BY <1>3, <2>5, <2>6 DEF Answered, NoRemote, Attended, ownVars, In, Out
    <3>4. machine'[i] = IF success THEN "WaitForCommand" ELSE "WaitForPassAuthResult"
      BY <1>5, <2>2
    <3>5. QED
      BY <2>5, <3>1, <3>2, <3>3, <3>4 DEF Phase, In
  <2>7. QED
    BY <1>2, <1>4, <2>1, <2>2, <2>4, <2>6, SendMoves
<1>9. CASE ReadCommand(i, buf)
  <2>1. /\ machine[i] = "WaitForCommand" /\ machine'[i] = "WaitForProxyStart"
        /\ \A j \in Ids \ {i} : machine'[j] = machine[j]
        /\ UNCHANGED <<currentId, live, proxy, queued, presented>>
    BY <1>5, <1>9 DEF ReadCommand, procVars, histVars
  <2>2. NoRemote(i) /\ Len(queued[In(i)]) = 2
    BY <1>2, <1>3, <2>1 DEF Phase, Interrupted
  <2>3. CASE AddConnection(i) /\ UNCHANGED todo
    <3>1. /\ sock'[Out(i)] = "connecting"
          /\ \A e \in Ends \ {Out(i)} : sock'[e] = sock[e] /\ user'[e] = user[e]
      BY <1>6, <2>3 DEF AddConnection, TypeOK
    <3>2. \A j \in Ids \ {i} : Same(j) /\ AtRest(j) /\ AtRest(j)'
      BY <1>4, <2>1, <2>3, <3>1, OthersEnds DEF Same, AtRest
    <3>3. Attended(i)'
      BY <1>3, <1>6, <2>1, <3>1, EndsDiffer DEF Attended, In
    <3>4. Phase(i)'
      BY <1>2, <2>1, <2>2, <2>3, <3>1 DEF Phase, NoRemote, AtRest, In, Out
    <3>5. QED
      BY <1>5, <2>1, <3>2, <3>3, <3>4, <1>2, OneSessionMoves
  <2>4. CASE /\ todo' = <<Frame("proxyStarted", i, FALSE), Frame("startFailed", i, FALSE)>>
             /\ UNCHANGED <<sock, user, conns>>
    <3>1. todo'[1].op = "proxyStarted" /\ todo'[1].id = i /\ ~todo'[1].ok /\ todo' # <<>>
      BY <2>4 DEF Frame
    <3>2. \A j \in Ids \ {i} : Same(j) /\ AtRest(j) /\ AtRest(j)'
      BY <1>4, <2>1, <2>4, <3>1 DEF Same, AtRest
    <3>3. Attended(i)' /\ Phase(i)'
      BY <1>3, <2>1, <2>2, <2>4, <3>1 DEF Attended, Phase, NoRemote, Interrupted, In, Out
    <3>4. QED
      BY <1>2, <1>5, <2>1, <3>2, <3>3, OneSessionMoves
  <2>5. QED
    BY <1>9, <2>3, <2>4 DEF ReadCommand
<1>10. CASE ReadUnexpected(i, buf)
  <2>1. /\ DestroySelf(i) /\ UNCHANGED <<currentId, presented, queued, todo>>
        /\ \A j \in Ids \ {i} : machine'[j] = machine[j]
    BY <1>5, <1>10 DEF ReadUnexpected, ProtocolError, procVars, histVars
  <2>2. \A j \in Ids : AtRest(j)'
    BY <1>2, <2>1 DEF AtRest
  <2>3. QED
    BY <1>2, <1>4, <2>1, <2>2, DestroyedMoves
<1>11. QED
  BY <1>1, <1>7, <1>8, <1>9, <1>10

\* The end of a connect: the callback that reports it begins, or nobody is told.
LEMMA ConnectMoves ==
  ASSUME TypeOK, Structure, Callbacks, Phases, NEW i \in Ids, Connects(i)
  PROVE  Phases'
<1>1. sock[Out(i)] = "connecting" /\ todo = <<>> /\ Out(i) \in Ends /\ In(i) \in Ends
  BY EndsDiffer DEF Connects, OnConnected, OnConnectedReset, OnConnectError, Idle
<1>2. i \in live /\ i < currentId
  <2>1. i \in live
    BY <1>1, EndsDiffer DEF Structure, UsersAreAlive, Alive
  <2>2. QED
    BY <2>1, BoundsAssumption DEF TypeOK
<1>3. machine[i] = "WaitForProxyStart"
  BY <1>1 DEF Callbacks, HandshakeProgress
<1>4. ~proxy[i] /\ Len(queued[In(i)]) = 2 /\ Attended(i)
  BY <1>1, <1>2, <1>3 DEF Phases, Phase, Interrupted
<1>5. ASSUME NEW v, sock' = [sock EXCEPT ![Out(i)] = v],
             UNCHANGED <<machine, presented, proxy, user, queued>>
      PROVE  /\ sock'[Out(i)] = v /\ Attended(i)'
             /\ \A j \in Ids \ {i} : Same(j) /\ AtRest(j)
  <2>1. sock'[Out(i)] = v /\ \A e \in Ends \ {Out(i)} : sock'[e] = sock[e]
    BY <1>1, <1>5 DEF TypeOK
  <2>2. Attended(i)'
    BY <1>1, <1>4, <1>5, <2>1, EndsDiffer DEF Attended, In
  <2>3. \A j \in Ids \ {i} : Same(j) /\ AtRest(j)
    BY <1>1, <1>5, <2>1, OthersEnds DEF Same, AtRest
  <2>4. QED
    BY <2>1, <2>2, <2>3
<1>6. CASE OnConnected(i)
  <2>1. /\ sock' = [sock EXCEPT ![Out(i)] = "open"]
        /\ todo' = <<Frame("proxyStarted", i, TRUE), Frame("makeProxy", i, TRUE)>>
        /\ UNCHANGED <<machine, presented, proxy, user, queued, live, currentId>>
    BY <1>6 DEF OnConnected, procVars, histVars
  <2>2. /\ Interrupted(i, "proxyStarted")' /\ todo'[1].ok
        /\ Len(todo') = 2 /\ todo'[2].op = "makeProxy" /\ todo'[1].id = i
    BY <2>1 DEF Interrupted, Frame
  <2>3. \A j \in Ids \ {i} : Same(j) /\ AtRest(j) /\ AtRest(j)'
    BY <1>5, <2>1, <2>2 DEF AtRest
  <2>4. Phase(i)' /\ Attended(i)'
    BY <1>3, <1>4, <1>5, <2>1, <2>2 DEF Phase, In, Out
  <2>5. QED
    BY <1>2, <2>1, <2>3, <2>4, OneSessionMoves
<1>7. CASE OnConnectedReset(i)
  BY <1>7, NoSessionMoves DEF OnConnectedReset, ownVars, histVars
<1>8. CASE OnConnectError(i)
  <2>1. /\ sock' = [sock EXCEPT ![Out(i)] = "failed"]
        /\ UNCHANGED <<todo, machine, presented, proxy, user, queued, live, currentId>>
    BY <1>8 DEF OnConnectError, procVars, histVars
  <2>2. \A j \in Ids \ {i} : Same(j) /\ AtRest(j) /\ AtRest(j)'
    BY <1>5, <2>1 DEF AtRest
  <2>3. Phase(i)' /\ Attended(i)'
    BY <1>1, <1>3, <1>4, <1>5, <2>1 DEF Phase, AtRest, In, Out
  <2>4. QED
    BY <1>2, <2>1, <2>2, <2>3, OneSessionMoves
<1>9. QED
  BY <1>6, <1>7, <1>8 DEF Connects

\* A relayed read is only ever in a session whose proxy has both sockets.
LEMMA RelayingPhase ==
  ASSUME TypeOK, Structure, Phases, NEW i \in Ids, NEW s \in Sides, OnDataReceived(i, s)
  PROVE  /\ i \in live /\ proxy[i] /\ machine[i] = "ProxyStarted" /\ todo = <<>>
         /\ sock[Out(i)] = "open" /\ Len(queued[In(i)]) >= 3 /\ Attended(i)
<1>1. <<i, s>> \in Ends /\ sock[<<i, s>>] = "open" /\ user[<<i, s>>] = "proxy" /\ todo = <<>>
  BY DEF OnDataReceived, Readable, Idle, Ends
<1>2. i \in live /\ proxy[i]
  BY <1>1 DEF Structure, UsersAreAlive, Alive
<1>3. Phase(i) /\ Attended(i)
  BY <1>2 DEF Phases
<1>4. QED
  BY <1>1, <1>2, <1>3 DEF Phase, NoRemote

\* Relayed data moves no session.
LEMMA RelayMoves ==
  ASSUME TypeOK, Structure, Phases, NEW i \in Ids, NEW s \in Sides, OnDataReceived(i, s)
  PROVE  Phases'
<1> DEFINE to == <<i, Other(s)>>
<1>1. to \in Ends /\ to \in {In(i), Out(i)}
  BY DEF Ends, Sides, Other, In, Out
<1>2. /\ i \in live /\ proxy[i] /\ machine[i] = "ProxyStarted" /\ todo = <<>>
      /\ sock[Out(i)] = "open" /\ Len(queued[In(i)]) >= 3 /\ Attended(i)
  BY RelayingPhase
<1>3. UNCHANGED <<machine, presented, proxy, sock, user, todo, live, currentId>>
  BY DEF OnDataReceived, ownVars, procVars
<1>4. /\ \A e \in Ends \ {to} : queued'[e] = queued[e]
      /\ Len(queued'[to]) >= Len(queued[to])
      /\ Len(queued[to]) \in Nat /\ Len(queued'[to]) \in Nat
  <2>1. queued[to] \in Seq(Items)
    BY <1>1 DEF TypeOK
  <2>2. CASE UNCHANGED queued
    BY <2>1, <2>2
  <2>3. CASE Appended(to, Data(rcvd'[<<i, s>>]))
    <3>1. queued'[to] = Append(queued[to], Data(rcvd'[<<i, s>>]))
      BY <1>1, <2>3 DEF Appended, TypeOK
    <3>2. \A e \in Ends \ {to} : queued'[e] = queued[e]
      BY <1>1, <2>3 DEF Appended, TypeOK
    <3>3. Len(Append(queued[to], Data(rcvd'[<<i, s>>]))) = Len(queued[to]) + 1
      BY <2>1
    <3>4. Len(queued[to]) \in Nat
      BY <2>1
    <3>5. QED
      BY <3>1, <3>2, <3>3, <3>4
  <2>4. QED
    BY <2>2, <2>3 DEF OnDataReceived, Appended
<1>5. \A j \in Ids \ {i} : Same(j) /\ AtRest(j) /\ AtRest(j)'
  <2>1. \A j \in Ids \ {i} : \A e \in {In(j), Out(j)} : queued'[e] = queued[e]
    BY <1>1, <1>4, OthersEnds
  <2>2. QED
    BY <1>2, <1>3, <2>1 DEF Same, AtRest
<1>6. Len(queued'[In(i)]) >= 3
  <2>1. CASE to = In(i)
    BY <1>2, <1>4, <2>1
  <2>2. CASE to # In(i)
    BY <1>2, <1>4, <2>2, EndsDiffer
  <2>3. QED
    BY <2>1, <2>2
<1>7. Phase(i)' /\ Attended(i)'
  BY <1>2, <1>3, <1>6 DEF Phase, Attended, AtRest, In, Out
<1>8. i < currentId
  BY <1>2, BoundsAssumption DEF TypeOK
<1>9. QED
  BY <1>3, <1>5, <1>7, <1>8, OneSessionMoves

\* A number becomes a client's.
LEMMA AcceptMoves ==
  ASSUME TypeOK, Structure, Phases, OnAcceptConnection
  PROVE  Phases'
<1>0. PICK i \in Ids : i = currentId
  BY BoundsAssumption DEF OnAcceptConnection, TypeOK, Ids
<1>1. /\ i \notin live /\ todo = <<>> /\ Fresh(i)
      /\ i \in Nat /\ currentId' = i + 1 /\ live' = live \cup {i}
  BY <1>0, BoundsAssumption DEF OnAcceptConnection, TypeOK, Ids, Idle, Phases
<1>2. UNCHANGED <<machine, presented, proxy, queued, todo>>
  BY DEF OnAcceptConnection, histVars
<1>3. /\ \A e \in Ends \ {In(i)} : sock'[e] = sock[e] /\ user'[e] = user[e]
      /\ sock'[In(i)] = "open" /\ user'[In(i)] = "tracker"
  BY <1>0, EndsDiffer DEF OnAcceptConnection, TypeOK
<1>4. \A j \in Ids : AtRest(j) /\ AtRest(j)'
  BY <1>1, <1>2 DEF AtRest
<1>5. \A j \in Ids \ {i} : Same(j)
  <2>1. \A j \in Ids \ {i} : \A e \in {In(j), Out(j)} : e \in Ends \ {In(i)}
    BY OthersEnds
  <2>2. QED
    BY <1>2, <1>3, <2>1 DEF Same
<1>6. Phase(i)' /\ Attended(i)'
  <2>1. queued[In(i)] = <<>> /\ NoRemote(i) /\ ~proxy[i]
    BY <1>1 DEF Fresh, Sides, In, NoRemote
  <2>2. Attended(i)'
    BY <1>2, <1>3, <2>1 DEF Attended, In
  <2>3. Len(queued'[In(i)]) = 0
    BY <1>2, <2>1
  <2>4. sock'[Out(i)] = "none"
    BY <1>1, <1>3, <2>1, EndsDiffer DEF NoRemote
  <2>5. Phase(i)'
    BY <1>1, <1>2, <1>4, <2>1, <2>3, <2>4 DEF Phase, Fresh, NoRemote, In, Out
  <2>6. QED
    BY <2>2, <2>5
<1>7. \A j \in live : (Phase(j) /\ Attended(j))'
  BY <1>1, <1>4, <1>5, PhaseKept, BoundsAssumption DEF Phases, TypeOK, Ids
<1>8. ASSUME NEW j \in Ids, j >= i + 1 PROVE Fresh(j)'
  <2>1. Fresh(j) /\ Same(j)
    BY <1>0, <1>5, <1>8 DEF Phases, Ids
  <2>2. queued'[In(j)] = <<>> /\ queued'[Out(j)] = <<>>
    BY <2>1 DEF Fresh, Same, In, Out, Sides
  <2>3. QED
    BY <2>1, <2>2 DEF Fresh, Same, NoRemote, In, Out, Sides
<1>9. QED
  BY <1>1, <1>6, <1>7, <1>8 DEF Phases

\* What the stack says of the session of the frame on top.
LEMMA TopPhase ==
  ASSUME TypeOK, Callbacks, Phases, NEW ops, Runs(ops)
  PROVE  /\ Top = todo[1] /\ Top \in Frames /\ Top.id \in Ids /\ Top.id \in live
         /\ Top.op \in ops /\ Top.id < currentId /\ status = "running" /\ todo # <<>>
         /\ Phase(Top.id) /\ Attended(Top.id)
         /\ \A op : Interrupted(Top.id, op) <=> op = Top.op
         /\ ~AtRest(Top.id)
         /\ \A j \in Ids \ {Top.id} : AtRest(j)
         /\ todo' = Tail(todo) => \A j \in Ids \ {Top.id} : AtRest(j)'
<1>1. todo # <<>> /\ Top.op \in ops /\ Top.id \in live /\ status = "running"
  BY DEF Runs
<1>2. FramesMeetTheirState
  BY DEF Callbacks
<1>3. /\ Top = todo[1] /\ Top \in Frames /\ Top.id \in Ids
      /\ \A k \in 1 .. Len(Tail(todo)) : Tail(todo)[k].id = Top.id
  BY <1>1, <1>2, StackPopped
<1>4. Top.id < currentId
  <2>1. live \subseteq 0 .. currentId - 1 /\ currentId \in Int
    BY BoundsAssumption DEF TypeOK
  <2>2. \A j \in live : j < currentId
    BY <2>1
  <2>3. QED
    BY <1>1, <2>2
<1>5. ASSUME todo' = Tail(todo), NEW j \in Ids \ {Top.id} PROVE AtRest(j)'
  <2>1. Tail(todo) \in Seq(Frames)
    BY <1>1, TailOfFrames DEF TypeOK
  <2>2. Tail(todo) # <<>> => Tail(todo)[1].id = Top.id
    BY <1>3, <2>1
  <2>3. QED
    BY <1>5, <2>2 DEF AtRest
<1>6. \A j \in Ids \ {Top.id} : AtRest(j)
  BY <1>3 DEF AtRest
<1>7. Phase(Top.id) /\ Attended(Top.id)
  BY <1>1 DEF Phases
<1>8. (\A op : Interrupted(Top.id, op) <=> op = Top.op) /\ ~AtRest(Top.id)
  BY <1>1, <1>3 DEF Interrupted, AtRest
<1>9. QED
  BY <1>1, <1>3, <1>4, <1>5, <1>6, <1>7, <1>8

\* The last frame returns.
LEMMA LastReturns ==
  ASSUME NEW t, t = Tail(todo), todo \in Seq(Frames), todo # <<>>
  PROVE  /\ Len(todo) = 1 => t = <<>>
         /\ Len(todo) = 2 => t # <<>> /\ t[1] = todo[2] /\ Len(t) = 1
<1>1. /\ t \in Seq(Frames) /\ Len(t) = Len(todo) - 1
      /\ \A k \in 1 .. Len(t) : t[k] = todo[k + 1]
  BY TailOfFrames
<1>2. QED
  BY <1>1, SMTT(30)

\* The rest of a callback takes its session to the next phase, or out of its life.
LEMMA ResumeMoves ==
  ASSUME TypeOK, Structure, Callbacks, Phases, Resume
  PROVE  Phases'
<1>1. machine \in [Ids -> States] /\ todo \in Seq(Frames)
  BY DEF TypeOK
<1>2. \A i \in Ids : In(i) \in Ends /\ Out(i) \in Ends
  BY EndsDiffer
<1>3. CASE MethodSent
  <2>1. PICK i : i = Top.id
    OBVIOUS
  <2>2. /\ i \in Ids /\ i \in live /\ i < currentId /\ Phase(i) /\ Attended(i)
        /\ Interrupted(i, "methodSent") /\ ~AtRest(i)
        /\ \A op : Interrupted(i, op) => op = "methodSent"
        /\ todo' = Tail(todo) /\ \A j \in Ids \ {i} : AtRest(j) /\ AtRest(j)'
    BY <1>3, <2>1, TopPhase DEF MethodSent, Runs, Return
  <2>3. UNCHANGED <<currentId, presented, queued>>
    BY <1>3 DEF MethodSent, procVars, histVars
  <2>4. machine[i] = "WaitForGreeting" /\ NoRemote(i) /\ presented[i] = NoLogin /\ Len(queued[In(i)]) = 1
    BY <2>2 DEF Phase
  <2>5. CASE machine' = [machine EXCEPT ![i] = "WaitForPassAuth"] /\ UNCHANGED ownVars
    <3>1. \A j \in Ids \ {i} : Same(j)
      BY <1>1, <2>3, <2>5 DEF Same, ownVars
    <3>2. todo' = <<>>
      <4>1. Len(todo) \in 1 .. 2 /\ Len(todo) # 2
        BY <2>2, StackPopped DEF Callbacks, FramesMeetTheirState, Interrupted
      <4>2. QED
        BY <1>1, <2>2, <4>1, LastReturns DEF Interrupted
    <3>3. Phase(i)' /\ Attended(i)'
      BY <1>1, <2>2, <2>3, <2>4, <2>5, <3>2 DEF Phase, Attended, NoRemote, AtRest, ownVars, In, Out
    <3>4. QED
      BY <2>2, <2>3, <2>5, <3>1, <3>3, OneSessionMoves DEF ownVars
  <2>6. CASE ProtocolError(i)
    <3>1. DestroySelf(i) /\ \A j \in Ids \ {i} : machine'[j] = machine[j]
      BY <1>1, <2>6 DEF ProtocolError
    <3>2. QED
      BY <2>2, <2>3, <3>1, DestroyedMoves
  <2>7. QED
    BY <1>3, <2>1, <2>5, <2>6 DEF MethodSent
<1>4. CASE EndIfFailed
  <2>1. PICK i : i = Top.id
    OBVIOUS
  <2>2. /\ i \in Ids /\ i \in live /\ i < currentId /\ Phase(i) /\ Attended(i)
        /\ Top = todo[1] /\ ~AtRest(i)
        /\ \A op : Interrupted(i, op) => op \in {"authCompleted", "startFailed"}
        /\ todo' = Tail(todo) /\ \A j \in Ids \ {i} : AtRest(j) /\ AtRest(j)'
    BY <1>4, <2>1, TopPhase DEF EndIfFailed, Runs, Return
  <2>3. UNCHANGED <<currentId, presented, queued, machine>>
    BY <1>4 DEF EndIfFailed, procVars, histVars
  <2>4. CASE Top.ok /\ UNCHANGED ownVars
    <3>1. \A j \in Ids \ {i} : Same(j)
      BY <2>3, <2>4 DEF Same, ownVars
    <3>2. /\ machine[i] = "WaitForCommand" /\ NoRemote(i) /\ Len(queued[In(i)]) = 2
          /\ Interrupted(i, "authCompleted")
      BY <2>2, <2>4 DEF Phase
    <3>3. todo' = <<>>
      <4>1. Len(todo) \in 1 .. 2 /\ Len(todo) # 2
        BY <3>2, StackPopped DEF Callbacks, FramesMeetTheirState, Interrupted
      <4>2. QED
        BY <1>1, <2>2, <3>2, <4>1, LastReturns DEF Interrupted
    <3>4. Phase(i)' /\ Attended(i)'
      BY <2>2, <2>3, <2>4, <3>2, <3>3 DEF Phase, Attended, NoRemote, AtRest, ownVars, In, Out
    <3>5. QED
      BY <2>2, <2>3, <2>4, <3>1, <3>4, OneSessionMoves DEF ownVars
  <2>5. CASE DestroySelf(i)
    BY <2>2, <2>3, <2>5, DestroyedMoves
  <2>6. QED
    BY <1>4, <2>1, <2>4, <2>5 DEF EndIfFailed
<1>5. CASE ProxyStartResult
  <2>1. PICK i : i = Top.id
    OBVIOUS
  <2>2. /\ i \in Ids /\ i \in live /\ i < currentId /\ Phase(i) /\ Attended(i)
        /\ Top = todo[1] /\ Top \in Frames /\ ~AtRest(i)
        /\ Interrupted(i, "proxyStarted") /\ \A op : Interrupted(i, op) => op = "proxyStarted"
        /\ \A j \in Ids \ {i} : AtRest(j)
    BY <1>5, <2>1, TopPhase DEF ProxyStartResult, Runs
  <2>3. /\ machine[i] = "WaitForProxyStart" /\ ~proxy[i] /\ Len(queued[In(i)]) = 2
        /\ Top.ok => /\ Len(todo) = 2 /\ todo[2].op = "makeProxy" /\ sock[Out(i)] = "open"
    BY <2>2 DEF Phase
  <2> DEFINE r == IF Top.ok THEN "RequestGranted" ELSE "refusal"
             f == Frame("responseSent", i, Top.ok)
             rest == [todo EXCEPT ![1] = f]
  <2>4. SendMsg(i, r, rest) /\ UNCHANGED <<currentId, machine, presented>>
    BY <1>5, <2>1, <2>3 DEF ProxyStartResult, procVars
  <2>5. /\ f \in Frames /\ f.op = "responseSent" /\ f.id = i /\ f.ok = Top.ok
        /\ Reply(r) \in Items /\ (Encodable(r) => Top.ok)
    BY <2>2, RepliesAreItems DEF Frame, Frames, Ops, Replies, Encodable
  <2>6. /\ rest # <<>> /\ rest[1] = f /\ Len(rest) = Len(todo)
        /\ Len(todo) = 2 => rest[2] = todo[2]
    BY <1>1, <2>2, <2>5, ReplaceTop DEF Interrupted
  <2> HIDE DEF r, f, rest
  <2>7. todo' = rest
    BY <2>4 DEF SendMsg
  <2>8. \A j \in Ids \ {i} : AtRest(j)'
    BY <2>5, <2>6, <2>7 DEF AtRest
  <2>9. ASSUME Encodable(r), Answered(i, r) PROVE (Phase(i) /\ Attended(i))'
    <3>1. Appended(In(i), Reply(r))
      BY <2>9 DEF Answered
    <3>2. Len(queued'[In(i)]) = Len(queued[In(i)]) + 1
      BY <1>2, <2>2, <2>5, <3>1, OneMore
    <3>3. Interrupted(i, "responseSent")' /\ todo'[1].ok /\ Len(todo') = 2 /\ todo'[2].op = "makeProxy"
      BY <2>3, <2>5, <2>6, <2>7, <2>9 DEF Interrupted
    <3>4. Attended(i)' /\ ~proxy'[i] /\ sock'[Out(i)] = "open"
      BY <2>2, <2>3, <2>5, <2>9 DEF Answered, Attended, ownVars, In
    <3>5. QED
      BY <2>3, <2>4, <3>2, <3>3, <3>4 DEF Phase, In, Out
  <2>10. QED
    BY <2>2, <2>4, <2>8, <2>9, SendMoves
<1>6. CASE ResponseSent
  <2>1. PICK i : i = Top.id
    OBVIOUS
  <2>2. /\ i \in Ids /\ i \in live /\ i < currentId /\ Phase(i) /\ Attended(i)
        /\ Top = todo[1] /\ todo # <<>> /\ ~AtRest(i)
        /\ \A op : Interrupted(i, op) => op = "responseSent"
        /\ todo' = Tail(todo) /\ \A j \in Ids \ {i} : AtRest(j) /\ AtRest(j)'
    BY <1>6, <2>1, TopPhase DEF ResponseSent, Runs, Return
  <2>3. /\ ~proxy[i] /\ Len(queued[In(i)]) = 3 /\ sock[Out(i)] = "open" /\ Top.ok
        /\ Len(todo) = 2 /\ todo[2].op = "makeProxy"
    BY <2>2 DEF Phase
  <2>4. /\ UNCHANGED <<currentId, live, presented, proxy, sock, user, queued>>
        /\ machine' = [machine EXCEPT ![i] = "ProxyStarted"]
    BY <1>6, <2>1, <2>3 DEF ResponseSent, procVars, histVars, ownVars
  <2>5. \A j \in Ids \ {i} : Same(j)
    BY <1>1, <2>4 DEF Same
  <2>6. Interrupted(i, "makeProxy")'
    <3>1. todo' # <<>> /\ todo'[1] = todo[2]
      BY <1>1, <2>2, <2>3, LastReturns
    <3>2. todo[2].id = i
      BY <2>1, <2>2, <2>3 DEF Callbacks, FramesMeetTheirState
    <3>3. QED
      BY <2>3, <3>1, <3>2 DEF Interrupted
  <2>7. Phase(i)' /\ Attended(i)'
    <3>1. machine'[i] = "ProxyStarted"
      BY <1>1, <2>2, <2>4
    <3>2. proxy' = proxy /\ queued' = queued /\ sock' = sock
      BY <2>4
    <3>3. Phase(i)'
      <4>1. ~proxy'[i] /\ Len(queued'[In(i)]) >= 3 /\ sock'[Out(i)] = "open"
        <5>1. \A k : k = 3 => k >= 3
          OBVIOUS
        <5>2. Len(queued'[In(i)]) = 3 /\ ~proxy'[i] /\ sock'[Out(i)] = "open"
          BY <2>3, <3>2, Zenon
        <5>3. QED
          BY <5>1, <5>2, Zenon
      <4>2. QED
        BY <2>2, <2>6, <3>1, <4>1, PhaseOfGrant
    <3>4. QED
      BY <2>2, <2>4, <3>3 DEF Attended, In
  <2>8. QED
    BY <2>2, <2>4, <2>5, <2>7, OneSessionMoves
<1>7. CASE MakeProxy
  <2>1. PICK i : i = Top.id
    OBVIOUS
  <2>2. /\ i \in Ids /\ i \in live /\ i < currentId /\ Phase(i) /\ Attended(i)
        /\ Interrupted(i, "makeProxy") /\ ~AtRest(i)
        /\ \A op : Interrupted(i, op) => op = "makeProxy"
        /\ todo' = Tail(todo) /\ \A j \in Ids \ {i} : AtRest(j) /\ AtRest(j)'
    BY <1>7, <2>1, TopPhase DEF MakeProxy, Runs, Return
  <2>3. machine[i] = "ProxyStarted" /\ Len(queued[In(i)]) >= 3 /\ sock[Out(i)] = "open"
    BY <2>2 DEF Phase
  <2>4. /\ UNCHANGED <<currentId, live, presented, sock, queued, machine>>
        /\ proxy' = [proxy EXCEPT ![i] = TRUE]
        /\ user' = [user EXCEPT ![In(i)] = "proxy", ![Out(i)] = "proxy"]
    BY <1>7, <2>1 DEF MakeProxy, procVars, histVars
  <2>5. /\ \A e \in Ends \ {In(i), Out(i)} : user'[e] = user[e]
        /\ user'[In(i)] = "proxy" /\ proxy'[i] /\ \A j \in Ids \ {i} : proxy'[j] = proxy[j]
    BY <2>2, <2>4, EndsDiffer DEF TypeOK
  <2>6. \A j \in Ids \ {i} : Same(j)
    <3>1. \A j \in Ids \ {i} : \A e \in {In(j), Out(j)} : e \in Ends \ {In(i), Out(i)}
      BY <2>2, OthersEnds
    <3>2. QED
      BY <2>4, <2>5, <3>1 DEF Same
  <2>7. todo' = <<>>
    <3>1. Len(todo) \in 1 .. 2 /\ Len(todo) # 2
      BY <2>2, StackPopped DEF Callbacks, FramesMeetTheirState, Interrupted
    <3>2. QED
      BY <1>1, <2>2, <3>1, LastReturns DEF Interrupted
  <2>8. Phase(i)' /\ Attended(i)'
    BY <2>2, <2>3, <2>4, <2>5, <2>7 DEF Phase, Attended, AtRest, In, Out
  <2>9. QED
    BY <2>2, <2>4, <2>6, <2>8, OneSessionMoves
<1>8. CASE ResumeDestroyed
  <2>1. /\ Top.id \notin live /\ status = "running" /\ todo # <<>>
        /\ UNCHANGED <<currentId, live, machine, presented, proxy, sock, user, queued>>
        /\ todo' = Tail(todo) \/ UNCHANGED todo
    BY <1>8 DEF ResumeDestroyed, Return, ownVars
  <2>2. CASE UNCHANGED todo
    BY <2>1, <2>2, NoSessionMoves
  <2>3. CASE todo' = Tail(todo)
    <3>1. /\ Top = todo[1]
          /\ \A k \in 1 .. Len(Tail(todo)) : Tail(todo)[k].id = Top.id
      BY <2>1, StackPopped DEF Callbacks
    <3>2. Tail(todo) \in Seq(Frames)
      BY <1>1, <2>1, TailOfFrames
    <3>3. \A j \in live : AtRest(j) /\ AtRest(j)'
      <4>1. Tail(todo) # <<>> => Tail(todo)[1].id = Top.id
        BY <3>1, <3>2
      <4>2. QED
        BY <2>1, <2>3, <3>1, <4>1 DEF AtRest
    <3>4. \A j \in live : j \in Ids /\ Same(j)
      BY <2>1, BoundsAssumption DEF Same, TypeOK, Ids
    <3>5. \A j \in live' : (Phase(j) /\ Attended(j))'
      BY <2>1, <3>3, <3>4, PhaseKept DEF Phases
    <3>6. QED
      BY <2>1, <3>5 DEF Phases, Fresh, NoRemote, In, Out
  <2>4. QED
    BY <2>1, <2>2, <2>3
<1>9. QED
  BY <1>3, <1>4, <1>5, <1>6, <1>7, <1>8 DEF Resume

\* Every step keeps the sessions in their phases.
LEMMA PhasesStep ==
  TypeOK /\ Structure /\ Callbacks /\ Phases /\ [Next]_vars => Phases'
<1> SUFFICES ASSUME TypeOK, Structure, Callbacks, Phases, [Next]_vars PROVE Phases'
  OBVIOUS
<1>1. CASE OnAcceptConnection
  BY <1>1, AcceptMoves
<1>2. ASSUME NEW i \in Ids, OnReceive(i) PROVE Phases'
  BY <1>2, ReadMoves
<1>3. ASSUME NEW i \in Ids, Connects(i) PROVE Phases'
  BY <1>3, ConnectMoves
<1>4. ASSUME NEW i \in Ids, NEW s \in Sides, OnDataReceived(i, s) PROVE Phases'
  BY <1>4, RelayMoves
<1>5. ASSUME NEW i \in Ids, NEW s \in Sides, OnConnectionClosed(i, s) PROVE Phases'
  <2>1. <<i, s>> \in Ends /\ Alive(<<i, s>>) /\ todo = <<>>
    BY <1>5 DEF OnConnectionClosed, Ends, Alive, Idle
  <2>2. i \in live
    BY <2>1 DEF Structure, UsersAreAlive
  <2>3. DestroySelf(i) /\ UNCHANGED <<currentId, presented, queued, machine, todo>>
    BY <1>5 DEF OnConnectionClosed, procVars, histVars
  <2>4. \A j \in Ids \ {i} : machine'[j] = machine[j] /\ AtRest(j) /\ AtRest(j)'
    BY <2>1, <2>3 DEF AtRest
  <2>5. QED
    BY <2>2, <2>3, <2>4, DestroyedMoves
<1>6. CASE Resume
  BY <1>6, ResumeMoves
<1>7. ASSUME NEW e \in Ends, PeerHangsUp(e) \/ Flush(e) PROVE Phases'
  BY <1>7, NoSessionMoves DEF PeerHangsUp, Flush, procVars, ownVars, histVars
<1>8. CASE OnSignal
  BY <1>8, NoSessionMoves DEF OnSignal, ownVars, histVars
<1>9. CASE Exit
  <2>1. /\ live' = {} /\ proxy' = [i \in Ids |-> FALSE]
        /\ \A e \in Ends : sock[e] = "none" => sock'[e] = "none"
        /\ UNCHANGED <<currentId, machine, presented, queued>>
    BY <1>9 DEF Exit, histVars
  <2>2. \A i \in Ids : Fresh(i) => Fresh(i)'
    BY <2>1, EndsDiffer DEF Fresh, NoRemote, Out
  <2>3. QED
    BY <2>1, <2>2 DEF Phases
<1>10. CASE UNCHANGED vars
  BY <1>10, NoSessionMoves DEF vars, procVars, ownVars, histVars
<1>11. QED
  BY <1>1, <1>2, <1>3, <1>4, <1>5, <1>6, <1>7, <1>8, <1>9, <1>10 DEF Next

-----------------------------------------------------------------------------
(* What the peers are sent *)

LEMMA TheScript ==
  /\ HandshakeLength = 3
  /\ Script[1] = "AuthLoginPass" /\ Script[2] = "authOk" /\ Script[3] = "RequestGranted"
  /\ Refusal[1] = "NoAvailableMethod" /\ Refusal[2] = "authFailed" /\ Refusal[3] = "refusal"
  BY DEF HandshakeLength, Script, Refusal

\* Items are read by their place.
LEMMA ItemsAreTyped ==
  ASSUME TypeOK, NEW e \in Ends
  PROVE  /\ queued[e] \in Seq(Items) /\ Len(queued[e]) \in Nat /\ flushed[e] \in Nat
         /\ \A k \in 1 .. Len(queued[e]) : queued[e][k] \in Items
                                           /\ queued[e][k].n \in 0 .. MaxChunks
<1>1. queued[e] \in Seq(Items) /\ flushed[e] \in Nat
  BY DEF TypeOK
<1>2. /\ Len(queued[e]) \in Nat
      /\ \A k \in 1 .. Len(queued[e]) : queued[e][k] \in Items
  BY <1>1
<1>3. QED
  BY <1>1, <1>2 DEF Items

\* Steps that write nothing to any buffer.
LEMMA StreamsKept ==
  ASSUME TypeOK, Streams, UNCHANGED <<queued, flushed, rcvd>>, sendFailed \subseteq sendFailed',
         \A i \in live' : \/ i \in live /\ (OnScript(i) \/ Refused(i)')
                          \/ i \in Ids /\ queued[In(i)] = <<>>
  PROVE  Streams'
<1>1. /\ \A e \in Ends : flushed'[e] <= Len(queued'[e])
      /\ ClientStreamInOrder' /\ RefusalsNeverDelivered' /\ RelayedInOrder'
  BY DEF Streams, ClientStreamInOrder, RefusalsNeverDelivered, RelayedInOrder, In
<1>2. \A i \in live' : OnScript(i)' \/ Refused(i)'
  <2>1. ASSUME NEW i \in live', queued[In(i)] = <<>> PROVE OnScript(i)
    BY <2>1, TheScript DEF OnScript
  <2>2. \A i : OnScript(i) => OnScript(i)'
    BY DEF OnScript, In
  <2>3. QED
    BY <2>1, <2>2
<1>3. QED
  BY <1>1, <1>2 DEF Streams

\* The stream of chunks after one more, and after a reply that is no chunk.
LEMMA ChunkAppended ==
  ASSUME NEW q \in Seq(Items), NEW p \in Nat, NEW n \in 0 .. MaxChunks - 1,
         NEW r, r = Append(q, Data(n + 1)), Len(q) >= p, Chunks(q, p, n)
  PROVE  /\ Chunks(r, p, n + 1)
         /\ AllChunks(q, p, n) => AllChunks(r, p, n + 1)
<1> DEFINE len == Len(q)
<1>1. /\ len \in Nat /\ n \in Nat /\ Data(n + 1).kind = "data" /\ Data(n + 1).n = n + 1
      /\ Data(n + 1) \in Items
  BY BoundsAssumption, RepliesAreItems
<1>2. /\ Len(r) = len + 1 /\ r[len + 1] = Data(n + 1)
      /\ \A k \in 1 .. len : r[k] = q[k]
  BY <1>1
<1>3. \A k \in p + 1 .. len : k \in 1 .. len /\ q[k].kind = "data" /\ q[k].n \in 1 .. n
  BY <1>1 DEF Chunks
<1>4. \A k \in p + 1 .. len + 1 : k \in p + 1 .. len \/ k = len + 1
  BY <1>1
<1> HIDE DEF len
<1>5. \A k \in p + 1 .. len + 1 : r[k].kind = "data" /\ r[k].n \in 1 .. n + 1
  BY <1>1, <1>2, <1>3, <1>4
<1>6. ASSUME NEW j \in p + 1 .. len + 1, NEW k \in p + 1 .. len + 1, j < k
      PROVE  r[j].n < r[k].n
  <2>1. j \in p + 1 .. len
    BY <1>1, <1>6
  <2>2. CASE k \in p + 1 .. len
    BY <1>2, <1>3, <1>6, <2>1, <2>2 DEF Chunks, len
  <2>3. CASE k = len + 1
    BY <1>1, <1>2, <1>3, <2>1, <2>3
  <2>4. QED
    BY <1>4, <2>2, <2>3
<1>7. Chunks(r, p, n + 1)
  BY <1>2, <1>5, <1>6 DEF Chunks
<1>8. AllChunks(q, p, n) => AllChunks(r, p, n + 1)
  BY <1>1, <1>2, SMTT(30) DEF AllChunks, len
<1>9. QED
  BY <1>7, <1>8

\* The reply after n others continues the script, or refuses the client of session i.
Continues(i, r, n) ==
  Len(queued[In(i)]) = n /\ (r = Script[n + 1] \/ (r = Refusal[n + 1] /\ Refused(i)'))

\* A reply continues the script of a client that was sent nothing else, or refuses it.
LEMMA ReplyKeepsStreams ==
  ASSUME TypeOK, Streams, NEW i \in Ids, NEW r \in Replies, Appended(In(i), Reply(r)),
         NEW n \in 0 .. 2, OnScript(i), Continues(i, r, n),
         UNCHANGED <<flushed, rcvd, sendFailed>>,
         live' \subseteq live, \A j \in live' \ {i} : j \in Ids /\ OnScript(j)
  PROVE  Streams'
<1> DEFINE q == queued[In(i)]
           new == queued'[In(i)]
<1>1. In(i) \in Ends /\ \A e \in Ends : Len(queued[e]) \in Nat /\ flushed[e] \in Nat
  BY EndsDiffer, ItemsAreTyped
<1>2. /\ Len(new) = n + 1 /\ new[n + 1].kind = r
      /\ \A k \in 1 .. n : new[k] = q[k]
      /\ \A e \in Ends \ {In(i)} : queued'[e] = queued[e]
  <2>1. Reply(r) \in Items /\ Reply(r).kind = r
    BY RepliesAreItems
  <2>2. Len(new) = Len(q) + 1 /\ new[Len(q) + 1] = Reply(r)
    BY <1>1, <2>1, OneMore
  <2>3. /\ \A k \in 1 .. Len(q) : new[k] = q[k]
        /\ \A e \in Ends \ {In(i)} : queued'[e] = queued[e]
    BY <1>1, <2>1, OneMore
  <2>4. Len(q) = n
    BY DEF Continues
  <2> HIDE DEF q, new
  <2>5. QED
    BY <2>1, <2>2, <2>3, <2>4
<1>3. \A k \in 1 .. n : q[k].kind = Script[k]
  BY TheScript DEF OnScript, Continues
<1> HIDE DEF q, new
<1>4. \A e \in Ends : flushed'[e] <= Len(queued'[e])
  <2>1. ASSUME NEW e \in Ends PROVE flushed'[e] <= Len(queued'[e])
    <3>1. flushed'[e] <= Len(queued[e])
      BY DEF Streams
    <3>2. CASE e = In(i)
      <4>1. flushed[In(i)] \in Nat /\ flushed[In(i)] <= n
        BY <1>1 DEF Streams, Continues
      <4>2. Len(new) = n + 1 /\ flushed'[e] = flushed[In(i)]
        BY <1>2, <3>2
      <4>3. QED
        BY <3>2, <4>1, <4>2 DEF new
    <3>3. CASE e # In(i)
      BY <1>2, <3>1, <3>3
    <3>4. QED
      BY <3>2, <3>3
  <2>2. QED
    BY <2>1
<1>5. \A j \in Ids \ {i} : queued'[In(j)] = queued[In(j)]
  BY <1>2, OthersEnds
<1>6. \A k \in 1 .. n + 1 : k \in 1 .. n \/ k = n + 1
  OBVIOUS
<1>7. ClientStreamInOrder'
  <2>1. InOrder(new)
    <3>1. ASSUME NEW k \in 1 .. n
          PROVE  ~(k > HandshakeLength) /\ new[k].kind = Script[k]
      <4>1. new[k].kind = Script[k]
        BY <1>2, <1>3
      <4>2. ~(k > HandshakeLength)
        BY TheScript
      <4>3. QED
        BY <4>1, <4>2
    <3>2. /\ ~(n + 1 > HandshakeLength)
          /\ new[n + 1].kind = Script[n + 1] \/ new[n + 1].kind = Refusal[n + 1]
      <4>1. new[n + 1].kind = Script[n + 1] \/ new[n + 1].kind = Refusal[n + 1]
        BY <1>2 DEF Continues
      <4>2. ~(n + 1 > HandshakeLength)
        BY TheScript
      <4>3. QED
        BY <4>1, <4>2
    <3>3. Len(new) = n + 1
      BY <1>2
    <3>4. QED
      BY <1>6, <3>1, <3>2, <3>3 DEF InOrder
  <2>2. ASSUME NEW j \in Ids PROVE InOrder(queued'[In(j)])
    BY <1>5, <2>1 DEF Streams, ClientStreamInOrder, new
  <2>3. QED
    BY <2>2 DEF ClientStreamInOrder, In
<1>8. RefusalsNeverDelivered'
  <2>1. ASSUME NEW j \in Ids, NEW k \in 1 .. HandshakeLength, k <= flushed[In(j)]
        PROVE  queued'[In(j)][k].kind = Script[k]
    <3>1. queued[In(j)][k].kind = Script[k]
      BY <2>1 DEF Streams, RefusalsNeverDelivered
    <3>2. CASE j = i
      <4>1. flushed[In(i)] <= n
        BY <1>1 DEF Streams, Continues
      <4>2. k \in 1 .. n
        BY <1>1, <2>1, <3>2, <4>1, TheScript
      <4>3. QED
        BY <1>2, <3>1, <3>2, <4>2 DEF new, q
    <3>3. QED
      BY <1>5, <3>1, <3>2
  <2>2. QED
    BY <2>1 DEF RefusalsNeverDelivered, In
<1>9. RelayedInOrder'
  <2>1. ASSUME NEW j \in Ids, NEW s \in Sides
        PROVE  LET x == queued'[<<j, Other(s)>>]
                   p == Preface(Other(s))
                   m == rcvd[<<j, s>>]
               IN  Chunks(x, p, m) /\ (j \notin sendFailed => AllChunks(x, p, m))
    <3>1. /\ Chunks(queued[<<j, Other(s)>>], Preface(Other(s)), rcvd[<<j, s>>])
          /\ j \notin sendFailed =>
               AllChunks(queued[<<j, Other(s)>>], Preface(Other(s)), rcvd[<<j, s>>])
      BY DEF Streams, RelayedInOrder
    <3>2. CASE <<j, Other(s)>> = In(i)
      <4>1. j = i /\ Other(s) = "in" /\ Preface(Other(s)) = 3 /\ rcvd[<<j, s>>] \in Nat
        BY <3>2, TheScript, BoundsAssumption DEF In, Preface, TypeOK, Ends
      <4>2. Chunks(new, 3, rcvd[<<j, s>>])
        <5>1. Len(new) = n + 1
          BY <1>2
        <5>2. \A k \in 3 + 1 .. n + 1 : FALSE
          OBVIOUS
        <5>3. QED
          BY <5>1, <5>2 DEF Chunks
      <4>3. AllChunks(q, 3, rcvd[<<j, s>>]) => AllChunks(new, 3, rcvd[<<j, s>>])
        BY <1>2, <4>1 DEF AllChunks, q, Continues
      <4>4. QED
        BY <3>1, <3>2, <4>1, <4>2, <4>3 DEF new, q
    <3>3. CASE <<j, Other(s)>> # In(i)
      <4>1. <<j, Other(s)>> \in Ends
        BY DEF Ends, Sides, Other
      <4>2. QED
        BY <1>2, <3>1, <3>3, <4>1
    <3>4. QED
      BY <3>2, <3>3
  <2>2. QED
    BY <2>1 DEF RelayedInOrder
<1>10. \A j \in live' : OnScript(j)' \/ Refused(j)'
  <2>1. ASSUME NEW j \in live', j # i PROVE OnScript(j)'
    BY <1>5, <2>1 DEF OnScript, In
  <2>2. ASSUME r = Script[n + 1] PROVE OnScript(i)'
    <3>1. \A k \in 1 .. HandshakeLength : k <= Len(new) => new[k].kind = Script[k]
      BY <1>2, <1>3, <1>6, <2>2, TheScript
    <3>2. QED
      BY <3>1 DEF OnScript, new, In
  <2>3. QED
    BY <2>1, <2>2 DEF Continues
<1>11. QED
  BY <1>4, <1>7, <1>8, <1>9, <1>10 DEF Streams

\* A refusal is on the stack or nowhere, and never between callbacks.
LEMMA NoneRefused ==
  ASSUME TypeOK, Streams, NEW i \in live,
         todo = <<>> \/ todo[1].op \notin {"methodSent", "authCompleted"} \/ todo[1].id # i
                     \/ todo[1].ok
  PROVE  OnScript(i)
  BY DEF Streams, Refused, Interrupted

\* More chunks may have been read than were sent.
LEMMA ChunksGrow ==
  ASSUME NEW q \in Seq(Items), NEW p \in Nat, NEW n \in Nat, Chunks(q, p, n)
  PROVE  Chunks(q, p, n + 1)
<1>1. \A m : m \in 1 .. n => m \in 1 .. n + 1
  OBVIOUS
<1>2. QED
  BY <1>1 DEF Chunks

\* A chunk more, read and sent or lost, keeps each side's stream what the other sent.
LEMMA RelayKeepsOrder ==
  ASSUME TypeOK, Streams, Phases, Structure, NEW i \in Ids, NEW s \in Sides,
         OnDataReceived(i, s)
  PROVE  RelayedInOrder'
<1> DEFINE from == <<i, s>>
           to == <<i, Other(s)>>
           n == rcvd[from]
           p == Preface(Other(s))
           q == queued[to]
<1>1. from \in Ends /\ to \in Ends /\ to \in {In(i), Out(i)}
  BY DEF Ends, Sides, Other, In, Out
<1>2. /\ n \in 0 .. MaxChunks - 1 /\ rcvd'[from] = n + 1
      /\ \A e \in Ends \ {from} : rcvd'[e] = rcvd[e]
  BY <1>1, BoundsAssumption DEF OnDataReceived, TypeOK
<1>3. Chunks(q, p, n) /\ (i \notin sendFailed => AllChunks(q, p, n))
  BY DEF Streams, RelayedInOrder
<1>4. q \in Seq(Items) /\ p \in Nat /\ Len(q) >= p
  <2>1. Len(queued[In(i)]) >= 3
    BY RelayingPhase
  <2>2. q \in Seq(Items) /\ Len(q) \in Nat
    BY <1>1, ItemsAreTyped
  <2>3. CASE Other(s) = "in"
    BY <2>1, <2>2, <2>3, TheScript DEF Preface, In
  <2>4. CASE Other(s) # "in"
    BY <2>2, <2>4 DEF Preface
  <2>5. QED
    BY <2>3, <2>4
<1>5. /\ Chunks(queued'[to], p, n + 1)
      /\ i \notin sendFailed' => AllChunks(queued'[to], p, n + 1)
      /\ \A e \in Ends \ {to} : queued'[e] = queued[e]
      /\ sendFailed \subseteq sendFailed'
  <2>1. CASE Appended(to, Data(n + 1)) /\ UNCHANGED sendFailed
    <3>1. queued'[to] = Append(q, Data(n + 1)) /\ \A e \in Ends \ {to} : queued'[e] = queued[e]
      BY <1>1, <2>1 DEF Appended, TypeOK
    <3> HIDE DEF n, p, q
    <3>2. /\ Chunks(queued'[to], p, n + 1)
          /\ AllChunks(q, p, n) => AllChunks(queued'[to], p, n + 1)
      BY <1>2, <1>3, <1>4, <3>1, ChunkAppended
    <3>3. QED
      BY <1>3, <2>1, <3>1, <3>2
  <2>2. CASE UNCHANGED queued /\ sendFailed' = sendFailed \cup {i}
    <3>1. Chunks(q, p, n + 1)
      <4>1. n \in Nat
        BY <1>2
      <4> HIDE DEF n, p, q
      <4>2. QED
        BY <1>3, <1>4, <4>1, ChunksGrow
    <3>2. QED
      BY <2>2, <3>1
  <2>3. QED
    BY <1>2, <2>1, <2>2 DEF OnDataReceived, Appended
<1>6. ASSUME NEW j \in Ids, NEW t \in Sides
      PROVE  LET x == queued'[<<j, Other(t)>>]
                 b == Preface(Other(t))
                 m == rcvd'[<<j, t>>]
             IN  Chunks(x, b, m) /\ (j \notin sendFailed' => AllChunks(x, b, m))
  <2>1. CASE j = i /\ t = s
    BY <1>2, <1>5, <2>1
  <2>2. CASE ~(j = i /\ t = s)
    <3>1. /\ <<j, t>> \in Ends \ {from} /\ <<j, Other(t)>> \in Ends \ {to}
      BY <2>2 DEF Ends, Sides, Other
    <3>2. rcvd'[<<j, t>>] = rcvd[<<j, t>>] /\ queued'[<<j, Other(t)>>] = queued[<<j, Other(t)>>]
      BY <1>2, <1>5, <3>1
    <3>3. QED
      BY <1>5, <3>2 DEF Streams, RelayedInOrder
  <2>3. QED
    BY <2>1, <2>2
<1>7. QED
  BY <1>6 DEF RelayedInOrder

\* Relayed data comes after the script.
LEMMA RelayKeepsStreams ==
  ASSUME TypeOK, Streams, Phases, Structure, NEW i \in Ids, NEW s \in Sides,
         OnDataReceived(i, s)
  PROVE  Streams'
<1> DEFINE to == <<i, Other(s)>>
<1>1. to \in Ends /\ to \in {In(i), Out(i)}
  BY DEF Ends, Sides, Other, In, Out
<1>2. i \in live /\ todo = <<>> /\ Len(queued[In(i)]) >= 3 /\ UNCHANGED <<live, flushed, todo>>
  BY RelayingPhase DEF OnDataReceived, ownVars
<1>3. live \subseteq Ids
  BY BoundsAssumption DEF TypeOK, Ids
<1>4. \A j \in live : OnScript(j)
  BY <1>2, NoneRefused
<1>5. /\ \A e \in Ends \ {to} : queued'[e] = queued[e]
      /\ Len(queued'[to]) \in Nat /\ Len(queued'[to]) >= Len(queued[to])
      /\ \A k \in 1 .. Len(queued[to]) : queued'[to][k] = queued[to][k]
      /\ \A k \in 1 .. Len(queued'[to]) : k > Len(queued[to]) => queued'[to][k].kind = "data"
  <2>1. queued[to] \in Seq(Items) /\ Len(queued[to]) \in Nat
    BY <1>1, ItemsAreTyped
  <2>2. CASE UNCHANGED queued
    BY <2>1, <2>2
  <2>3. CASE Appended(to, Data(rcvd'[<<i, s>>]))
    <3>1. PICK x : x = Data(rcvd'[<<i, s>>])
      OBVIOUS
    <3>2. x.kind = "data" /\ x \in Items
      <4>1. rcvd'[<<i, s>>] \in 0 .. MaxChunks
        <5>1. <<i, s>> \in Ends /\ rcvd[<<i, s>>] \in 0 .. MaxChunks
          BY DEF Ends, TypeOK
        <5>2. rcvd'[<<i, s>>] = rcvd[<<i, s>>] + 1 /\ rcvd[<<i, s>>] < MaxChunks
          BY <5>1 DEF OnDataReceived, TypeOK
        <5>3. QED
          BY <5>1, <5>2, BoundsAssumption
      <4>2. QED
        BY <3>1, <4>1, RepliesAreItems
    <3>3. Appended(to, x)
      BY <2>3, <3>1
    <3>4. /\ Len(queued'[to]) = Len(queued[to]) + 1
          /\ queued'[to][Len(queued[to]) + 1] = x
          /\ \A k \in 1 .. Len(queued[to]) : queued'[to][k] = queued[to][k]
          /\ \A e \in Ends \ {to} : queued'[e] = queued[e]
      BY <1>1, <3>2, <3>3, OneMore
    <3>5. \A k \in 1 .. Len(queued[to]) + 1 : k > Len(queued[to]) => k = Len(queued[to]) + 1
      BY <2>1
    <3>6. \A k \in 1 .. Len(queued'[to]) : k > Len(queued[to]) => queued'[to][k].kind = "data"
      BY <3>2, <3>4, <3>5
    <3>7. Len(queued'[to]) \in Nat /\ Len(queued'[to]) >= Len(queued[to])
      BY <2>1, <3>4
    <3>8. QED
      BY <3>4, <3>6, <3>7
  <2>4. QED
    BY <2>2, <2>3 DEF OnDataReceived, Appended
<1>6. \A e \in Ends : flushed'[e] <= Len(queued'[e])
  <2>1. ASSUME NEW e \in Ends PROVE flushed'[e] <= Len(queued'[e])
    <3>1. flushed[e] \in Nat /\ Len(queued[e]) \in Nat /\ flushed[e] <= Len(queued[e])
      BY ItemsAreTyped DEF Streams
    <3>2. CASE e = to
      BY <1>2, <1>5, <3>1, <3>2
    <3>3. CASE e # to
      BY <1>2, <1>5, <3>1, <3>3
    <3>4. QED
      BY <3>2, <3>3
  <2>2. QED
    BY <2>1
<1>7. /\ \A k \in 1 .. 3 : queued'[In(i)][k] = queued[In(i)][k]
      /\ Len(queued'[In(i)]) >= 3 /\ Len(queued'[In(i)]) \in Nat
      /\ \A j \in Ids \ {i} : queued'[In(j)] = queued[In(j)]
  <2>1. In(i) \in Ends /\ Len(queued[In(i)]) \in Nat
    BY EndsDiffer, ItemsAreTyped
  <2>2. \A k \in 1 .. 3 : k \in 1 .. Len(queued[In(i)])
    BY <1>2, <2>1
  <2>3. \A j \in Ids \ {i} : queued'[In(j)] = queued[In(j)]
    BY <1>1, <1>5, OthersEnds
  <2>4. CASE to = In(i)
    BY <1>2, <1>5, <2>1, <2>2, <2>3, <2>4
  <2>5. CASE to # In(i)
    BY <1>2, <1>5, <2>1, <2>3, <2>5
  <2>6. QED
    BY <2>4, <2>5
<1>8. \A k \in 1 .. 3 : queued[In(i)][k].kind = Script[k]
  BY <1>2, <1>4, EndsDiffer, ItemsAreTyped, TheScript DEF OnScript
<1>9. ClientStreamInOrder'
  <2>1. ASSUME NEW k \in 1 .. Len(queued'[In(i)])
        PROVE  IF k > HandshakeLength THEN queued'[In(i)][k].kind = "data"
               ELSE queued'[In(i)][k].kind = Script[k]
    <3>1. CASE k > HandshakeLength
      <4>1. CASE to = In(i) /\ k > Len(queued[In(i)])
        BY <1>5, <2>1, <3>1, <4>1
      <4>2. CASE k \in 1 .. Len(queued[In(i)])
        <5>1. queued[In(i)][k].kind = "data"
          BY <3>1, <4>2 DEF Streams, ClientStreamInOrder, InOrder
        <5>2. queued'[In(i)][k] = queued[In(i)][k]
          BY <1>5, <4>2, EndsDiffer, SMTT(30)
        <5>3. QED
          BY <3>1, <5>1, <5>2
      <4>3. k \in 1 .. Len(queued[In(i)]) \/ (k > Len(queued[In(i)]) /\ to = In(i))
        BY <1>5, EndsDiffer, ItemsAreTyped
      <4>4. QED
        BY <4>1, <4>2, <4>3
    <3>2. CASE ~(k > HandshakeLength)
      BY <1>7, <1>8, <3>2, TheScript
    <3>3. QED
      BY <3>1, <3>2
  <2>2. InOrder(queued'[In(i)])
    BY <2>1 DEF InOrder
  <2>3. ASSUME NEW j \in Ids PROVE InOrder(queued'[In(j)])
    BY <1>7, <2>2 DEF Streams, ClientStreamInOrder
  <2>4. QED
    BY <2>3 DEF ClientStreamInOrder, In
<1>10. RefusalsNeverDelivered'
  <2>1. ASSUME NEW j \in Ids, NEW k \in 1 .. HandshakeLength, k <= flushed[In(j)]
        PROVE  queued'[In(j)][k].kind = Script[k]
    BY <1>7, <2>1, TheScript DEF Streams, RefusalsNeverDelivered
  <2>2. QED
    BY <1>2, <2>1 DEF RefusalsNeverDelivered, In
<1>11. \A j \in live' : OnScript(j)'
  <2>1. \A k \in 1 .. HandshakeLength : queued'[In(i)][k].kind = Script[k]
    BY <1>7, <1>8, TheScript
  <2>2. OnScript(i)'
    BY <2>1 DEF OnScript, In
  <2>3. \A j \in Ids \ {i} : OnScript(j) => OnScript(j)'
    BY <1>7 DEF OnScript, In
  <2>4. QED
    BY <1>2, <1>3, <1>4, <2>2, <2>3
<1>12. QED
  BY <1>6, <1>9, <1>10, <1>11, RelayKeepsOrder DEF Streams

\* An answer is queued, or the session is gone and nothing else has changed.
LEMMA SendKeepsStreams ==
  ASSUME TypeOK, Streams, NEW i \in live, i \in Ids, NEW r \in Replies, NEW rest,
         SendMsg(i, r, rest), UNCHANGED <<flushed, rcvd>>, \A j \in live : OnScript(j),
         NEW n \in 0 .. 2, Encodable(r) => Continues(i, r, n)
  PROVE  Streams'
<1>1. live \subseteq Ids
  BY BoundsAssumption DEF TypeOK, Ids
<1>2. CASE Encodable(r) /\ Answered(i, r)
  <2>1. Appended(In(i), Reply(r)) /\ UNCHANGED <<live, sendFailed>>
    BY <1>2 DEF Answered, ownVars
  <2>2. QED
    BY <1>1, <1>2, <2>1, ReplyKeepsStreams
<1>3. CASE DestroySelf(i) /\ sendFailed' = sendFailed \cup {i} /\ UNCHANGED queued
  <2>1. live' \subseteq live
    BY <1>3 DEF DestroySelf
  <2>2. QED
    BY <1>3, <2>1, StreamsKept
<1>4. QED
  BY <1>2, <1>3 DEF SendMsg, Answered, Appended

\* A reply to what a client sent.
LEMMA ReadKeepsStreams ==
  ASSUME TypeOK, Structure, Phases, Streams, NEW i \in Ids, OnReceive(i)
  PROVE  Streams'
<1>1. PICK buf \in Buffers : \/ ReadGreeting(i, buf) \/ ReadPassAuth(i, buf)
                            \/ ReadCommand(i, buf) \/ ReadUnexpected(i, buf)
  BY DEF OnReceive
<1>2. i \in live /\ todo = <<>>
  BY <1>1, ReadByTheLiving DEF ReadGreeting, ReadPassAuth, ReadCommand, ReadUnexpected
<1>3. \A j \in live : OnScript(j)
  BY <1>2, NoneRefused
<1>4. Phase(i)
  BY <1>2 DEF Phases
<1>5. CASE ReadGreeting(i, buf)
  <2> DEFINE r == IF buf.login THEN "AuthLoginPass" ELSE "NoAvailableMethod"
             f == Frame("methodSent", i, buf.login)
  <2>1. SendMsg(i, r, <<f>>) /\ r \in Replies /\ UNCHANGED <<flushed, rcvd>>
    BY <1>5 DEF ReadGreeting, Replies, netVars
  <2>2. todo' = <<f>>
    BY <2>1 DEF SendMsg
  <2>3. r = Script[1] \/ (r = Refusal[1] /\ Refused(i)')
    BY <2>2, TheScript DEF Refused, Interrupted, Frame
  <2>4. Len(queued[In(i)]) = 0
    BY <1>2, <1>4, <1>5 DEF ReadGreeting, Phase, Interrupted
  <2>5. Continues(i, r, 0)
    BY <2>3, <2>4 DEF Continues
  <2> HIDE DEF r, f
  <2>6. QED
    BY <1>2, <1>3, <2>1, <2>5, SendKeepsStreams
<1>6. CASE ReadPassAuth(i, buf)
  <2> DEFINE success == AuthUserPassword(buf.creds)
             r == IF success THEN "authOk" ELSE "authFailed"
             f == Frame("authCompleted", i, success)
  <2>1. SendMsg(i, r, <<f>>) /\ r \in Replies /\ UNCHANGED <<flushed, rcvd>>
    BY <1>6 DEF ReadPassAuth, Replies, netVars
  <2>2. todo' = <<f>>
    BY <2>1 DEF SendMsg
  <2>3. r = Script[2] \/ (r = Refusal[2] /\ Refused(i)')
    BY <2>2, TheScript DEF Refused, Interrupted, Frame
  <2>4. Len(queued[In(i)]) = 1
    BY <1>2, <1>4, <1>6 DEF ReadPassAuth, Phase, Interrupted
  <2>5. Continues(i, r, 1)
    BY <2>3, <2>4 DEF Continues
  <2> HIDE DEF success, r, f
  <2>6. QED
    BY <1>2, <1>3, <2>1, <2>5, SendKeepsStreams
<1>7. CASE ReadCommand(i, buf)
  BY <1>3, <1>7, StreamsKept DEF ReadCommand, netVars, histVars
<1>8. CASE ReadUnexpected(i, buf)
  <2>1. UNCHANGED <<queued, flushed, rcvd, sendFailed>> /\ live' \subseteq live
    BY <1>8 DEF ReadUnexpected, ProtocolError, DestroySelf, netVars, histVars
  <2>2. QED
    BY <1>3, <2>1, StreamsKept
<1>9. QED
  BY <1>1, <1>5, <1>6, <1>7, <1>8

\* The rest of a callback sends the grant, or nothing.
LEMMA ResumeKeepsStreams ==
  ASSUME TypeOK, Structure, Callbacks, Phases, Streams, Resume
  PROVE  Streams'
<1>1. todo # <<>> /\ Top = todo[1] /\ live \subseteq Ids
  BY StackPopped, BoundsAssumption DEF Resume, MethodSent, EndIfFailed, ProxyStartResult,
     ResponseSent, MakeProxy, ResumeDestroyed, Runs, Callbacks, TypeOK, Ids
<1>2. ASSUME UNCHANGED <<queued, flushed, rcvd, sendFailed>>, live' \subseteq live,
             \A j \in live' : Top.ok \/ Top.id # j \/ Top.op \notin {"methodSent", "authCompleted"}
      PROVE  Streams'
  <2>1. \A j \in live' : j \in live /\ OnScript(j)
    BY <1>1, <1>2, NoneRefused
  <2>2. QED
    BY <1>2, <2>1, StreamsKept
<1>3. CASE MethodSent
  <2>1. UNCHANGED <<queued, flushed, rcvd, sendFailed>>
    BY <1>3 DEF MethodSent, netVars, histVars
  <2>2. live' \subseteq live /\ (~Top.ok => Top.id \notin live')
    BY <1>3 DEF MethodSent, ProtocolError, DestroySelf, ownVars
  <2>3. QED
    BY <1>2, <2>1, <2>2
<1>4. CASE EndIfFailed
  <2>1. UNCHANGED <<queued, flushed, rcvd, sendFailed>>
    BY <1>4 DEF EndIfFailed, netVars, histVars
  <2>2. live' \subseteq live /\ (~Top.ok => Top.id \notin live')
    BY <1>4 DEF EndIfFailed, DestroySelf, ownVars
  <2>3. QED
    BY <1>2, <2>1, <2>2
<1>5. CASE ProxyStartResult
  <2>1. PICK i : i = Top.id
    OBVIOUS
  <2>2. /\ i \in Ids /\ i \in live /\ Phase(i) /\ Top.op = "proxyStarted"
        /\ Interrupted(i, "proxyStarted") /\ \A op : Interrupted(i, op) => op = "proxyStarted"
        /\ ~AtRest(i)
    BY <1>5, <2>1, TopPhase DEF ProxyStartResult, Runs
  <2>3. machine[i] = "WaitForProxyStart" /\ Len(queued[In(i)]) = 2
    BY <2>2 DEF Phase
  <2>4. \A j \in live : OnScript(j)
    BY <1>1, <2>2, NoneRefused
  <2> DEFINE r == IF Top.ok THEN "RequestGranted" ELSE "refusal"
             rest == [todo EXCEPT ![1] = Frame("responseSent", i, Top.ok)]
  <2>5. SendMsg(i, r, rest) /\ UNCHANGED <<flushed, rcvd>> /\ r \in Replies
    BY <1>5, <2>1, <2>3 DEF ProxyStartResult, netVars, Replies
  <2>6. Encodable(r) => Continues(i, r, 2)
    BY <2>3, TheScript DEF Encodable, Continues
  <2> HIDE DEF r, rest
  <2>7. QED
    BY <2>2, <2>4, <2>5, <2>6, SendKeepsStreams
<1>6. CASE ResponseSent \/ MakeProxy
  <2>1. UNCHANGED <<queued, flushed, rcvd, sendFailed, live>>
    BY <1>6 DEF ResponseSent, MakeProxy, netVars, histVars, ownVars
  <2>2. Top.op \notin {"methodSent", "authCompleted"}
    BY <1>6 DEF ResponseSent, MakeProxy, Runs
  <2>3. QED
    BY <1>2, <2>1, <2>2
<1>7. CASE ResumeDestroyed
  <2>1. UNCHANGED <<queued, flushed, rcvd, sendFailed, live>> /\ Top.id \notin live
    BY <1>7 DEF ResumeDestroyed, netVars, ownVars
  <2>2. QED
    BY <1>2, <2>1
<1>8. QED
  BY <1>3, <1>4, <1>5, <1>6, <1>7 DEF Resume

\* Output is written between callbacks, of sockets whose sessions are live.
LEMMA FlushKeepsStreams ==
  ASSUME TypeOK, Structure, Streams, NEW e \in Ends, Flush(e)
  PROVE  Streams'
<1>1. todo = <<>> /\ sock[e] = "open" /\ UNCHANGED <<queued, rcvd, sendFailed, live, todo>>
  BY DEF Flush, Idle, ownVars, histVars
<1>2. e[1] \in live /\ live \subseteq Ids
  BY <1>1, BoundsAssumption DEF Structure, UsersAreAlive, Alive, TypeOK, Ids
<1>3. \A j \in live : OnScript(j)
  BY <1>1, NoneRefused
<1>4. PICK k \in flushed[e] + 1 .. Len(queued[e]) : flushed' = [flushed EXCEPT ![e] = k]
  BY DEF Flush
<1>5. flushed'[e] = k /\ k <= Len(queued[e]) /\ \A d \in Ends \ {e} : flushed'[d] = flushed[d]
  BY <1>4, ItemsAreTyped DEF TypeOK
<1>6. \A d \in Ends : flushed'[d] <= Len(queued'[d])
  BY <1>1, <1>5 DEF Streams
<1>7. ASSUME NEW j \in Ids, NEW m \in 1 .. HandshakeLength, m <= flushed'[In(j)]
      PROVE  queued[In(j)][m].kind = Script[m]
  <2>1. CASE In(j) = e
    <3>1. OnScript(j)
      BY <1>2, <1>3, <2>1, EndsDiffer
    <3>2. m <= Len(queued[In(j)])
      BY <1>4, <1>5, <1>7, <2>1, ItemsAreTyped, TheScript
    <3>3. QED
      BY <3>1, <3>2 DEF OnScript
  <2>2. CASE In(j) # e
    BY <1>5, <1>7, <2>2, EndsDiffer DEF Streams, RefusalsNeverDelivered
  <2>3. QED
    BY <2>1, <2>2
<1>8. RefusalsNeverDelivered'
  BY <1>1, <1>7 DEF RefusalsNeverDelivered, In
<1>9. ClientStreamInOrder' /\ RelayedInOrder'
  BY <1>1 DEF Streams, ClientStreamInOrder, RelayedInOrder, In
<1>10. \A j \in live' : OnScript(j)'
  BY <1>1, <1>3 DEF OnScript, In
<1>11. QED
  BY <1>6, <1>8, <1>9, <1>10 DEF Streams

\* Every step keeps the streams as promised.
LEMMA StreamsStep ==
  TypeOK /\ Structure /\ Callbacks /\ Phases /\ Streams /\ [Next]_vars => Streams'
<1> SUFFICES ASSUME TypeOK, Structure, Callbacks, Phases, Streams, [Next]_vars
             PROVE  Streams'
  OBVIOUS
<1>1. live \subseteq Ids /\ (todo = <<>> => \A j \in live : OnScript(j))
  BY NoneRefused, BoundsAssumption DEF TypeOK, Ids
<1>2. CASE OnAcceptConnection
  <2>1. PICK i \in Ids : i = currentId
    BY <1>2, BoundsAssumption DEF OnAcceptConnection, TypeOK, Ids
  <2>2. /\ live' = live \cup {i} /\ todo = <<>>
        /\ UNCHANGED <<queued, flushed, rcvd, sendFailed>>
    BY <1>2, <2>1 DEF OnAcceptConnection, Idle, netVars, histVars
  <2>3. Fresh(i)
    BY <2>1, BoundsAssumption DEF Phases, TypeOK, Ids
  <2>4. queued[In(i)] = <<>>
    BY <2>3 DEF Fresh, Sides, In
  <2>5. QED
    BY <1>1, <2>2, <2>4, StreamsKept
<1>3. ASSUME NEW i \in Ids, OnReceive(i) PROVE Streams'
  BY <1>3, ReadKeepsStreams
<1>4. ASSUME NEW i \in Ids, Connects(i) PROVE Streams'
  BY <1>1, <1>4, StreamsKept DEF Connects, OnConnected, OnConnectedReset, OnConnectError,
     Idle, netVars, histVars, ownVars
<1>5. ASSUME NEW i \in Ids, NEW s \in Sides, OnDataReceived(i, s) PROVE Streams'
  BY <1>5, RelayKeepsStreams
<1>6. ASSUME NEW i \in Ids, NEW s \in Sides, OnConnectionClosed(i, s) PROVE Streams'
  <2>1. todo = <<>> /\ live' \subseteq live /\ UNCHANGED <<queued, flushed, rcvd, sendFailed>>
    BY <1>6 DEF OnConnectionClosed, DestroySelf, Idle, netVars, histVars
  <2>2. QED
    BY <1>1, <2>1, StreamsKept
<1>7. CASE Resume
  BY <1>7, ResumeKeepsStreams
<1>8. ASSUME UNCHANGED <<queued, flushed, rcvd, sendFailed, live, todo>> PROVE Streams'
  <2>1. \A j : Refused(j)' <=> Refused(j)
    BY <1>8 DEF Refused, Interrupted
  <2>2. \A j \in live : OnScript(j) \/ Refused(j)
    BY DEF Streams
  <2>3. QED
    BY <1>8, <2>1, <2>2, StreamsKept
<1>9. ASSUME NEW e \in Ends, PeerHangsUp(e) PROVE Streams'
  BY <1>8, <1>9 DEF PeerHangsUp, ownVars, histVars
<1>10. ASSUME NEW e \in Ends, Flush(e) PROVE Streams'
  BY <1>10, FlushKeepsStreams
<1>11. CASE OnSignal
  BY <1>8, <1>11 DEF OnSignal, ownVars, netVars, histVars
<1>12. CASE Exit
  <2>1. live' = {} /\ UNCHANGED <<queued, flushed, rcvd, sendFailed>>
    BY <1>12 DEF Exit, netVars, histVars
  <2>2. QED
    BY <2>1, StreamsKept
<1>13. CASE UNCHANGED vars
  BY <1>8, <1>13 DEF vars, ownVars, netVars, histVars
<1>14. QED
  BY <1>2, <1>3, <1>4, <1>5, <1>6, <1>7, <1>9, <1>10, <1>11, <1>12, <1>13 DEF Next

-----------------------------------------------------------------------------
(* What holds in every state, and over every step *)

Inv == TypeOK /\ Structure /\ Callbacks /\ Phases /\ Streams

LEMMA InvInit == Init => Inv
<1> SUFFICES ASSUME Init PROVE Inv
  OBVIOUS
<1>1. TypeOK
  BY BoundsAssumption DEF Init, TypeOK, States
<1>2. Structure
  BY DEF Init, Structure, UsersAreAlive, ConnectionsOfTheLiving, AddressesDiffer,
     Alive, Ids, Absent
<1>3. Callbacks
  BY EndsDiffer DEF Init, Callbacks, FramesMeetTheirState, StaleFramesHaveFailed,
     HandshakeProgress, AuthenticatedBeforeConnect, StaleOnlyAfterFailedSend
<1>4. ASSUME NEW i \in Ids, NEW s \in Sides
      PROVE  /\ <<i, s>> \in Ends /\ Out(i) \in Ends /\ In(i) \in Ends
             /\ <<i, Other(s)>> \in Ends
  BY <1>4 DEF Ends, Out, In, Sides, Other
<1>5. Phases
  BY <1>4 DEF Init, Phases, Fresh, NoRemote, Sides
<1>6. ClientStreamInOrder /\ RefusalsNeverDelivered
  BY TheScript, EndsDiffer DEF Init, ClientStreamInOrder, InOrder, RefusalsNeverDelivered
<1>7. RelayedInOrder
  <2>1. ASSUME NEW p \in {0, 3}
        PROVE  Chunks(<<>>, p, 0) /\ AllChunks(<<>>, p, 0)
    BY DEF Chunks, AllChunks
  <2>2. ASSUME NEW i \in Ids, NEW s \in Sides
        PROVE  /\ queued[<<i, Other(s)>>] = <<>> /\ rcvd[<<i, s>>] = 0
               /\ Preface(Other(s)) \in {0, 3}
    BY <1>4, TheScript DEF Init, Preface
  <2>3. QED
    BY <2>1, <2>2 DEF RelayedInOrder
<1>8. Streams
  BY <1>6, <1>7 DEF Init, Streams
<1>9. QED
  BY <1>1, <1>2, <1>3, <1>5, <1>8 DEF Inv

LEMMA InvStep == Inv /\ [Next]_vars => Inv'
  BY TypeStep, StructureStep, CallbacksStep, PhasesStep, StreamsStep DEF Inv

\* Where every session is in its life, and what its peers were sent, at any time.
LEMMA Invariant == Spec => []Inv
  BY InvInit, InvStep, PTL DEF Spec

\* Between events every live session is where the next event is handled: what an
\* authorizer or a connect reports never meets a machine in another state.
THEOREM SessionsSettle == Spec => []SettledBetweenEvents
<1>1. Inv => SettledBetweenEvents
  <2> SUFFICES ASSUME Inv, Idle, NEW i \in live
               PROVE  /\ machine[i] \in {"WaitForGreeting", "WaitForPassAuth",
                           "WaitForCommand", "WaitForProxyStart", "ProxyStarted"}
                      /\ proxy[i] <=> machine[i] = "ProxyStarted"
                      /\ sock[Out(i)] \in {"connecting", "failed"}
                           <=> machine[i] = "WaitForProxyStart"
                      /\ sock[Out(i)] = "open" <=> machine[i] = "ProxyStarted"
                      /\ user[In(i)] = "proxy" <=> proxy[i]
    BY DEF SettledBetweenEvents
  <2>1. Phase(i) /\ Attended(i) /\ \A op : ~Interrupted(i, op)
    BY DEF Inv, Phases, Idle, Interrupted
  <2>2. QED
    BY <2>1 DEF Phase, Attended, NoRemote
<1>2. QED
  BY <1>1, Invariant, PTL

\* A client is sent the replies of the handshake in order, a refusal only as the
\* last thing, and relayed data after the grant.
THEOREM ClientStreams == Spec => []ClientStreamInOrder
<1>1. Inv => ClientStreamInOrder
  BY DEF Inv, Streams
<1>2. QED
  BY <1>1, Invariant, PTL

\* The refusals a callback queues are freed with the socket before they are written.
THEOREM Refusals == Spec => []RefusalsNeverDelivered
<1>1. Inv => RefusalsNeverDelivered
  BY DEF Inv, Streams
<1>2. QED
  BY <1>1, Invariant, PTL

\* Relayed data is in order, never doubled, and complete unless a send failed.
THEOREM Relays == Spec => []RelayedInOrder
<1>1. Inv => RelayedInOrder
  BY DEF Inv, Streams
<1>2. QED
  BY <1>1, Invariant, PTL

\* The order of a session's states.
LEMMA Ranks ==
  /\ Rank["WaitForGreeting"] = 0 /\ Rank["WaitForPassAuth"] = 1
  /\ Rank["WaitForPassAuthResult"] = 2 /\ Rank["WaitForCommand"] = 3
  /\ Rank["WaitForProxyStart"] = 4 /\ Rank["ProxyStarted"] = 5
  /\ Rank["ProxyStartFailed"] = 5 /\ Rank["ProtocolError"] = 5
  BY DEF Rank, States

\* Where the frame on top was called from.
LEMMA TopCalled ==
  ASSUME TypeOK, Callbacks, todo # <<>>
  PROVE  /\ Top.op = "methodSent" => machine[Top.id] = "WaitForGreeting"
         /\ Top.op \in {"proxyStarted", "responseSent"} =>
              machine[Top.id] = "WaitForProxyStart"
<1>1. FramesMeetTheirState
  BY DEF Callbacks
<1>2. Top = todo[1] /\ Len(todo) \in 1 .. 2
  BY <1>1, StackPopped
<1>3. QED
  BY <1>1, <1>2 DEF FramesMeetTheirState

\* One machine moves at a time, and where it is allows the move.
LEMMA MachinesForward ==
  ASSUME Inv, [Next]_vars, NEW i \in Ids, machine'[i] # machine[i]
  PROVE  Rank[machine'[i]] > Rank[machine[i]]
<1>1. machine \in [Ids -> States] /\ TypeOK /\ Callbacks /\ Phases /\ Structure
  BY DEF Inv, TypeOK
<1> DEFINE Moves(j, to) == machine' = [machine EXCEPT ![j] = to]
<1>2. ASSUME NEW j, NEW to, Moves(j, to) PROVE i = j /\ machine'[i] = to
  BY <1>1, <1>2
<1>3. CASE \E j \in Ids : OnReceive(j)
  <2>1. PICK j \in Ids, buf \in Buffers :
          \/ ReadGreeting(j, buf) \/ ReadPassAuth(j, buf)
          \/ ReadCommand(j, buf) \/ ReadUnexpected(j, buf)
    BY <1>3 DEF OnReceive
  <2>2. Phase(j) /\ Attended(j) /\ \A op : ~Interrupted(j, op)
    BY <1>1, <2>1, ReadByTheLiving DEF Phases, ReadGreeting, ReadPassAuth, ReadCommand,
       ReadUnexpected, Interrupted
  <2>3. CASE ReadGreeting(j, buf)
    BY <2>3 DEF ReadGreeting
  <2>4. CASE ReadPassAuth(j, buf)
    <3>1. machine[j] = "WaitForPassAuth"
          /\ \E to \in {"WaitForCommand", "WaitForPassAuthResult"} : Moves(j, to)
      BY <2>4 DEF ReadPassAuth
    <3>2. QED
      BY <1>2, <3>1, Ranks
  <2>5. CASE ReadCommand(j, buf)
    <3>1. machine[j] = "WaitForCommand" /\ Moves(j, "WaitForProxyStart")
      BY <2>5 DEF ReadCommand
    <3>2. QED
      BY <1>2, <3>1, Ranks
  <2>6. CASE ReadUnexpected(j, buf)
    <3>1. user[In(j)] = "tracker" /\ Moves(j, "ProtocolError")
      BY <2>6 DEF ReadUnexpected, Receives, ProtocolError
    <3>2. machine[j] \in {"WaitForGreeting", "WaitForPassAuth", "WaitForCommand",
                          "WaitForProxyStart"}
      BY <2>2, <3>1 DEF Phase, Attended
    <3>3. QED
      BY <1>2, <3>1, <3>2, Ranks
  <2>7. QED
    BY <2>1, <2>3, <2>4, <2>5, <2>6
<1>4. CASE Resume
  <2> DEFINE j == Top.id
  <2>1. CASE MethodSent
    <3>1. machine[j] = "WaitForGreeting"
      BY <1>1, <2>1, TopCalled DEF MethodSent, Runs
    <3>2. \E to \in {"WaitForPassAuth", "ProtocolError"} : Moves(j, to)
      BY <2>1 DEF MethodSent, ProtocolError
    <3>3. QED
      BY <1>2, <3>1, <3>2, Ranks
  <2>2. CASE ProxyStartResult
    BY <1>1, <2>2, TopCalled DEF ProxyStartResult, Runs
  <2>3. CASE ResponseSent
    <3>1. machine[j] = "WaitForProxyStart"
      BY <1>1, <2>3, TopCalled DEF ResponseSent, Runs
    <3>2. \E to \in {"ProxyStarted", "ProxyStartFailed"} : Moves(j, to)
      BY <2>3 DEF ResponseSent
    <3>3. QED
      BY <1>2, <3>1, <3>2, Ranks
  <2>4. QED
    BY <1>4, <2>1, <2>2, <2>3 DEF Resume, EndIfFailed, MakeProxy, ResumeDestroyed
<1>5. ASSUME \/ OnAcceptConnection \/ OnSignal \/ Exit \/ UNCHANGED vars
             \/ \E j \in Ids : Connects(j)
             \/ \E j \in Ids, s \in Sides : OnDataReceived(j, s) \/ OnConnectionClosed(j, s)
             \/ \E e \in Ends : PeerHangsUp(e) \/ Flush(e)
      PROVE  machine' = machine
  BY <1>5 DEF OnAcceptConnection, OnSignal, Exit, vars, Connects, OnConnected,
     OnConnectedReset, OnConnectError, OnDataReceived, OnConnectionClosed, PeerHangsUp, Flush
<1>6. QED
  BY <1>3, <1>4, <1>5 DEF Next

\* A session that was deleted stays so: the manager only adds the id it counted up to.
LEMMA NobodyReturns ==
  ASSUME Inv, [Next]_vars
  PROVE  live' \subseteq live \cup {currentId}
<1>1. \A i : DestroySelf(i) => live' \subseteq live
  BY DEF DestroySelf
<1>2. \A i, r, rest : SendMsg(i, r, rest) => live' \subseteq live
  BY <1>1 DEF SendMsg, ownVars
<1>3. CASE \E i \in Ids : OnReceive(i)
  <2>1. PICK i \in Ids, buf \in Buffers :
          \/ ReadGreeting(i, buf) \/ ReadPassAuth(i, buf)
          \/ ReadCommand(i, buf) \/ ReadUnexpected(i, buf)
    BY <1>3 DEF OnReceive
  <2>2. ReadGreeting(i, buf) \/ ReadPassAuth(i, buf) => live' \subseteq live
    BY <1>2 DEF ReadGreeting, ReadPassAuth
  <2>3. ReadCommand(i, buf) \/ ReadUnexpected(i, buf) => live' \subseteq live
    BY <1>1 DEF ReadCommand, ReadUnexpected, ProtocolError
  <2>4. QED
    BY <2>1, <2>2, <2>3
<1>4. CASE Resume
  <2>1. MethodSent \/ EndIfFailed => live' \subseteq live
    BY <1>1 DEF MethodSent, EndIfFailed, ProtocolError, ownVars
  <2>2. ProxyStartResult => live' \subseteq live
    BY <1>1, <1>2 DEF ProxyStartResult, ProtocolError
  <2>3. ResponseSent \/ MakeProxy \/ ResumeDestroyed => live' \subseteq live
    BY DEF ResponseSent, MakeProxy, ResumeDestroyed, ownVars
  <2>4. QED
    BY <1>4, <2>1, <2>2, <2>3 DEF Resume
<1>5. CASE \E i \in Ids, s \in Sides : OnConnectionClosed(i, s)
  BY <1>1, <1>5 DEF OnConnectionClosed
<1>6. CASE \E i \in Ids : Connects(i)
  BY <1>6 DEF Connects, OnConnected, OnConnectedReset, OnConnectError, ownVars
<1>7. CASE \E i \in Ids, s \in Sides : OnDataReceived(i, s)
  BY <1>7 DEF OnDataReceived, ownVars
<1>8. CASE \E e \in Ends : PeerHangsUp(e) \/ Flush(e)
  BY <1>8 DEF PeerHangsUp, Flush, ownVars
<1>9. CASE OnAcceptConnection \/ OnSignal \/ Exit \/ UNCHANGED vars
  BY <1>9 DEF OnAcceptConnection, OnSignal, Exit, vars, ownVars
<1>10. QED
  BY <1>3, <1>4, <1>5, <1>6, <1>7, <1>8, <1>9 DEF Next

\* Output is only ever added to a socket's buffer, one item at a time.
LEMMA QueuesGrow ==
  ASSUME Inv, [Next]_vars
  PROVE  queued' = queued \/ \E e \in Ends, x \in Items : Appended(e, x)
<1>1. TypeOK /\ Callbacks /\ Phases
  BY DEF Inv
<1>2. ASSUME NEW i \in Ids, NEW r \in Replies, NEW rest, SendMsg(i, r, rest)
      PROVE  queued' = queued \/ \E e \in Ends, x \in Items : Appended(e, x)
  <2>1. In(i) \in Ends /\ Reply(r) \in Items
    BY EndsDiffer, RepliesAreItems
  <2>2. QED
    BY <1>2, <2>1 DEF SendMsg, Appended
<1>3. CASE \E i \in Ids : OnReceive(i)
  <2>1. PICK i \in Ids, buf \in Buffers :
          \/ ReadGreeting(i, buf) \/ ReadPassAuth(i, buf)
          \/ ReadCommand(i, buf) \/ ReadUnexpected(i, buf)
    BY <1>3 DEF OnReceive
  <2>2. ReadGreeting(i, buf) \/ ReadPassAuth(i, buf) =>
          \E r \in Replies : \E rest : SendMsg(i, r, rest)
    BY DEF ReadGreeting, ReadPassAuth, Replies
  <2>3. ReadCommand(i, buf) \/ ReadUnexpected(i, buf) => queued' = queued
    BY DEF ReadCommand, ReadUnexpected
  <2>4. QED
    BY <1>2, <2>1, <2>2, <2>3
<1>4. CASE Resume
  <2>1. ASSUME ProxyStartResult, queued' # queued
        PROVE  Top.id \in Ids /\ \E r \in Replies : \E rest : SendMsg(Top.id, r, rest)
    <3>1. Top.id \in Ids
      BY <1>1, <2>1, TopPhase DEF ProxyStartResult
    <3>2. QED
      BY <2>1, <3>1 DEF ProxyStartResult, Replies
  <2>2. MethodSent \/ EndIfFailed \/ ResponseSent \/ MakeProxy \/ ResumeDestroyed =>
          queued' = queued
    BY DEF MethodSent, EndIfFailed, ResponseSent, MakeProxy, ResumeDestroyed
  <2>3. QED
    BY <1>2, <1>4, <2>1, <2>2 DEF Resume
<1>5. CASE \E i \in Ids, s \in Sides : OnDataReceived(i, s)
  <2>1. PICK i \in Ids, s \in Sides : OnDataReceived(i, s)
    BY <1>5
  <2>2. <<i, Other(s)>> \in Ends /\ <<i, s>> \in Ends
    BY DEF Ends, Sides, Other
  <2>3. rcvd'[<<i, s>>] \in 0 .. MaxChunks
    <3>1. /\ rcvd[<<i, s>>] \in 0 .. MaxChunks /\ rcvd[<<i, s>>] < MaxChunks
          /\ rcvd'[<<i, s>>] = rcvd[<<i, s>>] + 1
      BY <1>1, <2>1, <2>2 DEF OnDataReceived, TypeOK
    <3>2. QED
      BY <3>1, BoundsAssumption
  <2>4. Data(rcvd'[<<i, s>>]) \in Items
    BY <2>3, RepliesAreItems
  <2>5. QED
    BY <2>1, <2>2, <2>4 DEF OnDataReceived, Appended
<1>6. CASE \/ OnAcceptConnection \/ OnSignal \/ Exit \/ UNCHANGED vars
           \/ \E i \in Ids : Connects(i)
           \/ \E i \in Ids, s \in Sides : OnConnectionClosed(i, s)
           \/ \E e \in Ends : PeerHangsUp(e) \/ Flush(e)
  BY <1>6 DEF OnAcceptConnection, OnSignal, Exit, vars, Connects, OnConnected,
     OnConnectedReset, OnConnectError, OnConnectionClosed, PeerHangsUp, Flush
<1>7. QED
  BY <1>3, <1>4, <1>5, <1>6 DEF Next

\* What was written of an output buffer is still what it begins with.
LEMMA WrittenStays ==
  ASSUME Inv, [Next]_vars, NEW e \in Ends
  PROVE  /\ SubSeq(queued'[e], 1, flushed[e]) = SubSeq(queued[e], 1, flushed[e])
         /\ flushed[e] \in 0 .. Len(queued[e]) /\ Len(queued[e]) \in Nat
<1>1. /\ queued[e] \in Seq(Items) /\ flushed[e] \in Nat /\ flushed[e] <= Len(queued[e])
      /\ TypeOK
  BY DEF Inv, TypeOK, Streams
<1>2. CASE \E x \in Items : Appended(e, x)
  <2>1. PICK x \in Items : queued'[e] = Append(queued[e], x)
    BY <1>1, <1>2 DEF Appended, TypeOK
  <2>2. QED
    BY <1>1, <2>1
<1>3. CASE queued'[e] = queued[e]
  BY <1>1, <1>3
<1>4. QED
  BY <1>1, <1>2, <1>3, QueuesGrow DEF Appended, TypeOK

\* A session goes through the handshake once and forwards, one that was deleted never
\* comes back, and nothing written to a peer is taken back.
THEOREM OnlyForward == Spec => NeverBackwards
<1> DEFINE Forward ==
      /\ \A i \in Ids :
           /\ machine'[i] # machine[i] => Rank[machine'[i]] > Rank[machine[i]]
           /\ i < currentId /\ i \notin live => i \notin live'
      /\ \A e \in Ends :
           SubSeq(queued'[e], 1, flushed[e]) = SubSeq(queued[e], 1, flushed[e])
<1>1. Inv /\ [Next]_vars => Forward
  <2> SUFFICES ASSUME Inv, [Next]_vars PROVE Forward
    OBVIOUS
  <2>1. ASSUME NEW i \in Ids, i < currentId, i \notin live PROVE i \notin live'
    <3>1. currentId \in Nat
      BY DEF Inv, TypeOK
    <3>2. QED
      BY <2>1, <3>1, NobodyReturns DEF Ids
  <2>2. QED
    BY <2>1, MachinesForward, WrittenStays
<1>2. Inv /\ [Next]_vars => [Forward]_vars
  BY <1>1
<1>3. QED
  BY <1>2, Invariant, PTL DEF Spec, NeverBackwards

-----------------------------------------------------------------------------
(* The process implements SocksService *)

\* What SocksService sees of the process, by parts.
LEMMA Seen ==
  ASSUME NEW i \in Ids
  PROVE  /\ Service!Open(i) <=> i \in live
         /\ SessionOf(i) = "none" <=> i \notin live /\ ~(i < currentId)
  BY DEF Service!Open, SessionOf

\* What was given stays given when nothing is written.
LEMMA GivenKept ==
  ASSUME Inv, [Next]_vars, flushed' = flushed
  PROVE  [e \in Ends |-> GivenTo(e)]' = [e \in Ends |-> GivenTo(e)]
<1>1. \A e \in Ends : GivenTo(e)' = GivenTo(e)
  BY WrittenStays DEF GivenTo
<1>2. QED
  BY <1>1

\* A step SocksService does not see.
LEMMA Unseen ==
  ASSUME Inv, [Next]_vars, UNCHANGED <<live, currentId, presented, rcvd, flushed>>,
         \A j \in Ids : sock'[Out(j)] = sock[Out(j)]
  PROVE  UNCHANGED Service!vars
<1>1. \A j \in Ids : SessionOf(j)' = SessionOf(j)
  BY DEF SessionOf
<1>2. QED
  BY <1>1, GivenKept DEF Service!vars, GivenTo

\* The session of i ends, and with it the connection that was made for it.
LEMMA EndsAtOnce ==
  ASSUME Inv, NEW i \in live, i \in Ids, DestroySelf(i), currentId' = currentId
  PROVE  Service!EndSessions({i})
<1>1. TypeOK /\ Structure /\ currentId \in Nat /\ i < currentId
  BY BoundsAssumption DEF Inv, TypeOK
<1>2. ASSUME NEW j \in Ids
      PROVE  SessionOf(j)' = IF j \in {i} /\ Service!Open(j) THEN "over" ELSE SessionOf(j)
  BY <1>1, Seen DEF SessionOf, DestroySelf
<1>3. ASSUME NEW j \in Ids
      PROVE  sock'[Out(j)] = IF j \in {i} /\ sock[Out(j)] # "none" THEN "freed"
                             ELSE sock[Out(j)]
  <2>1. Out(j) \in Ends /\ Out(j)[1] = j
    BY EndsDiffer
  <2>2. CASE j = i
    <3>1. sock'[Out(i)] \in {"none", "freed"} /\ (sock'[Out(i)] = "none" <=> sock[Out(i)] = "none")
      BY <1>1, <2>1, <2>2, DestroyFrees, DestroyKeepsOut DEF OutKept
    <3>2. QED
      BY <2>2, <3>1
  <2>3. CASE j # i
    BY <1>1, <2>1, <2>3, DestroyFrees
  <2>4. QED
    BY <2>2, <2>3
<1>4. QED
  BY <1>2, <1>3 DEF Service!EndSessions, Service!Open

LEMMA EndsOne ==
  ASSUME Inv, [Next]_vars, NEW i \in live, i \in Ids, DestroySelf(i),
         UNCHANGED <<currentId, presented, rcvd, flushed>>
  PROVE  Service!Next
<1>1. Service!EndSessions({i})
  BY EndsAtOnce
<1>2. Service!Open(i)
  BY Seen
<1>3. Service!End({i})
  BY <1>1, <1>2, GivenKept DEF Service!End
<1>4. QED
  BY <1>3 DEF Service!Next

\* A reply is queued, which nobody sees yet, or the session ends.
LEMMA SendRefines ==
  ASSUME Inv, [Next]_vars, NEW i \in live, i \in Ids, NEW r, NEW rest, SendMsg(i, r, rest),
         UNCHANGED <<currentId, presented, rcvd, flushed>>
  PROVE  Service!Next \/ UNCHANGED Service!vars
<1>1. CASE UNCHANGED ownVars
  BY <1>1, Unseen DEF ownVars
<1>2. CASE DestroySelf(i)
  BY <1>2, EndsOne
<1>3. QED
  BY <1>1, <1>2 DEF SendMsg

\* A change of an outgoing socket, as the service sees it.
LEMMA OneRemote ==
  ASSUME TypeOK, NEW i \in Ids, NEW r, sock' = [sock EXCEPT ![Out(i)] = r]
  PROVE  [j \in Ids |-> sock[Out(j)]]' = [[j \in Ids |-> sock[Out(j)]] EXCEPT ![i] = r]
<1>1. DOMAIN sock = Ends
  BY DEF TypeOK
<1>2. \A j \in Ids : Out(j) \in Ends /\ (Out(j) = Out(i) => j = i)
  BY EndsDiffer
<1>3. ASSUME NEW j \in Ids PROVE sock'[Out(j)] = IF j = i THEN r ELSE sock[Out(j)]
  BY <1>1, <1>2
<1>4. QED
  BY <1>3

\* A client's message: its credentials are shown, a connect is started, the session
\* ends, or nothing is seen.
LEMMA ReadRefines ==
  ASSUME Inv, [Next]_vars, NEW i \in Ids, OnReceive(i)
  PROVE  Service!Next \/ UNCHANGED Service!vars
<1>0. TypeOK /\ Structure /\ Callbacks /\ Phases
  BY DEF Inv
<1>1. PICK buf \in Buffers : \/ ReadGreeting(i, buf) \/ ReadPassAuth(i, buf)
                            \/ ReadCommand(i, buf) \/ ReadUnexpected(i, buf)
  BY DEF OnReceive
<1>2. i \in live /\ Phase(i) /\ \A op : ~Interrupted(i, op)
  BY <1>0, <1>1, ReadByTheLiving DEF Phases, ReadGreeting, ReadPassAuth, ReadCommand,
     ReadUnexpected, Interrupted
<1>3. Service!Open(i) /\ Out(i) \in Ends
  BY <1>2, Seen, EndsDiffer
<1>4. CASE ReadGreeting(i, buf)
  <2>1. \E r, rest : SendMsg(i, r, rest)
    BY <1>4 DEF ReadGreeting
  <2>2. UNCHANGED <<currentId, presented, rcvd, flushed>>
    BY <1>4 DEF ReadGreeting, procVars, netVars
  <2>3. QED
    BY <1>2, <2>1, <2>2, SendRefines
<1>5. CASE ReadPassAuth(i, buf)
  <2>1. PICK r, rest : SendMsg(i, r, rest)
    BY <1>5 DEF ReadPassAuth
  <2>2. /\ machine[i] = "WaitForPassAuth" /\ buf.kind = "auth"
        /\ presented' = [presented EXCEPT ![i] = buf.creds]
        /\ UNCHANGED <<currentId, rcvd, flushed>>
    BY <1>5 DEF ReadPassAuth, procVars, netVars
  <2>3. presented[i] = NoLogin /\ sock[Out(i)] = "none"
    BY <1>2, <2>2 DEF Phase, NoRemote
  <2>4. buf.creds \in Logins
    BY <2>2 DEF Buffers
  <2>5. UNCHANGED [e \in Ends |-> GivenTo(e)]
    BY <2>2, GivenKept
  <2>6. CASE UNCHANGED ownVars
    <3>1. UNCHANGED <<[j \in Ids |-> SessionOf(j)], [j \in Ids |-> sock[Out(j)]]>>
      BY <2>2, <2>6 DEF ownVars, SessionOf
    <3>2. Service!ShowLogin(i)
      BY <1>3, <2>2, <2>3, <2>4, <2>5, <3>1 DEF Service!ShowLogin
    <3>3. QED
      BY <3>2 DEF Service!Next
  <2>7. CASE DestroySelf(i)
    <3>1. Service!EndSessions({i})
      BY <1>2, <2>2, <2>7, EndsAtOnce
    <3>2. Service!ShowLogin(i)
      BY <1>3, <2>2, <2>3, <2>4, <2>5, <3>1 DEF Service!ShowLogin
    <3>3. QED
      BY <3>2 DEF Service!Next
  <2>8. QED
    BY <2>1, <2>6, <2>7 DEF SendMsg
<1>6. CASE ReadCommand(i, buf)
  <2>1. machine[i] = "WaitForCommand" /\ UNCHANGED <<live, currentId, presented, rcvd, flushed>>
    BY <1>6 DEF ReadCommand, procVars, netVars, histVars
  <2>2. sock[Out(i)] = "none" /\ presented[i] \in Accounts
    BY <1>0, <1>2, <2>1 DEF Phase, NoRemote, Callbacks, HandshakeProgress
  <2>3. CASE AddConnection(i)
    <3>1. [j \in Ids |-> sock[Out(j)]]' = [[j \in Ids |-> sock[Out(j)]] EXCEPT ![i] = "connecting"]
      BY <1>0, <2>3, OneRemote DEF AddConnection
    <3>2. UNCHANGED <<[j \in Ids |-> SessionOf(j)], [e \in Ends |-> GivenTo(e)]>>
      BY <2>1, GivenKept DEF SessionOf
    <3>3. Service!StartConnect(i)
      BY <1>3, <2>1, <2>2, <3>1, <3>2 DEF Service!StartConnect
    <3>4. QED
      BY <3>3 DEF Service!Next
  <2>4. CASE UNCHANGED sock
    BY <2>1, <2>4, Unseen
  <2>5. QED
    BY <1>6, <2>3, <2>4 DEF ReadCommand
<1>7. CASE ReadUnexpected(i, buf)
  <2>1. DestroySelf(i) /\ UNCHANGED <<currentId, presented, rcvd, flushed>>
    BY <1>7 DEF ReadUnexpected, ProtocolError, procVars, netVars, histVars
  <2>2. QED
    BY <1>2, <2>1, EndsOne
<1>8. QED
  BY <1>1, <1>4, <1>5, <1>6, <1>7

\* The connect that was started ends, or the process does.
LEMMA ConnectRefines ==
  ASSUME Inv, [Next]_vars, NEW i \in Ids, Connects(i)
  PROVE  Service!Next \/ UNCHANGED Service!vars
<1>1. UNCHANGED <<live, currentId, presented, rcvd, flushed>>
  BY DEF Connects, OnConnected, OnConnectedReset, OnConnectError, procVars, netVars,
     histVars, ownVars
<1>2. TypeOK /\ Structure /\ sock[Out(i)] = "connecting" /\ Out(i) \in Ends /\ Out(i)[1] = i
  BY EndsDiffer DEF Inv, Connects, OnConnected, OnConnectedReset, OnConnectError
<1>3. i \in live
  BY <1>2 DEF Structure, UsersAreAlive, Alive
<1>4. CASE OnConnectedReset(i)
  BY <1>1, <1>4, Unseen DEF OnConnectedReset, ownVars
<1>5. ASSUME NEW r \in {"open", "failed"}, sock' = [sock EXCEPT ![Out(i)] = r]
      PROVE  Service!Next
  <2>1. [j \in Ids |-> sock[Out(j)]]' = [[j \in Ids |-> sock[Out(j)]] EXCEPT ![i] = r]
    BY <1>2, <1>3, <1>5, OneRemote
  <2>2. UNCHANGED <<[j \in Ids |-> SessionOf(j)], [e \in Ends |-> GivenTo(e)]>>
    BY <1>1, GivenKept DEF SessionOf
  <2>3. Service!Open(i)
    BY <1>3, Seen
  <2>4. Service!EndConnect(i)
    BY <1>1, <1>2, <2>1, <2>2, <2>3 DEF Service!EndConnect
  <2>5. QED
    BY <2>4 DEF Service!Next
<1>6. QED
  BY <1>4, <1>5 DEF Connects, OnConnected, OnConnectError

\* A chunk is taken from a peer whose session relays.
LEMMA RelayRefines ==
  ASSUME Inv, [Next]_vars, NEW i \in Ids, NEW s \in Sides, OnDataReceived(i, s)
  PROVE  Service!Next
<1>1. /\ UNCHANGED <<live, currentId, presented, flushed, sock>>
      /\ rcvd' = [rcvd EXCEPT ![<<i, s>>] = @ + 1]
  BY DEF OnDataReceived, procVars, ownVars
<1>2. i \in live /\ sock[Out(i)] = "open"
  BY RelayingPhase DEF Inv, Phases, Phase
<1>3. Service!Open(i)
  BY <1>2, Seen
<1>4. UNCHANGED <<[j \in Ids |-> SessionOf(j)], [e \in Ends |-> GivenTo(e)],
                  [j \in Ids |-> sock[Out(j)]]>>
  BY <1>1, GivenKept DEF SessionOf
<1>5. Service!Take(i, s)
  BY <1>1, <1>2, <1>3, <1>4 DEF Service!Take
<1>6. QED
  BY <1>5 DEF Service!Next, Service!Sides, Sides

\* The rest of a callback: what it did was seen when its session ended.
LEMMA ResumeRefines ==
  ASSUME Inv, [Next]_vars, Resume
  PROVE  Service!Next \/ UNCHANGED Service!vars
<1>1. TypeOK /\ Callbacks /\ Phases
  BY DEF Inv
<1>2. UNCHANGED <<currentId, presented, rcvd, flushed>>
  BY DEF Resume, MethodSent, EndIfFailed, ProxyStartResult, ResponseSent, MakeProxy,
     ResumeDestroyed, procVars, netVars, histVars
<1>3. CASE ResumeDestroyed
  BY <1>2, <1>3, Unseen DEF ResumeDestroyed, ownVars
<1>4. CASE ~ResumeDestroyed
  <2>1. PICK i : i = Top.id
    OBVIOUS
  <2>2. i \in live /\ i \in Ids
    <3>1. \A ops : Runs(ops) => Top.id \in live /\ Top.id \in Ids
      BY <1>1, TopPhase
    <3>2. QED
      BY <1>4, <2>1, <3>1 DEF Resume, MethodSent, EndIfFailed, ProxyStartResult,
         ResponseSent, MakeProxy
  <2>3. CASE MethodSent \/ EndIfFailed
    <3>1. UNCHANGED ownVars \/ DestroySelf(i)
      BY <2>1, <2>3 DEF MethodSent, EndIfFailed, ProtocolError
    <3>2. QED
      BY <1>2, <2>2, <3>1, Unseen, EndsOne DEF ownVars
  <2>4. CASE ProxyStartResult
    <3>1. DestroySelf(i) \/ \E r, rest : SendMsg(i, r, rest)
      BY <2>1, <2>4 DEF ProxyStartResult, ProtocolError
    <3>2. QED
      BY <1>2, <2>2, <3>1, SendRefines, EndsOne
  <2>5. CASE ResponseSent \/ MakeProxy
    BY <1>2, <2>5, Unseen DEF ResponseSent, MakeProxy, ownVars
  <2>6. QED
    BY <1>4, <2>3, <2>4, <2>5 DEF Resume
<1>5. QED
  BY <1>3, <1>4

\* A part of the chunks of a buffer is as ordered as the whole.
LEMMA PartInOrder ==
  ASSUME NEW q \in Seq(Items), NEW p \in Nat, NEW n \in Nat, Chunks(q, p, n),
         NEW w, NEW m \in Nat, p + m <= Len(q),
         DOMAIN w = 1 .. m, \A k \in 1 .. m : w[k] = q[p + k]
  PROVE  Service!InOrder(w, n)
<1>1. ASSUME NEW k \in 1 .. m PROVE w[k].kind = "data" /\ w[k].n \in 1 .. n
  BY p + k \in p + 1 .. Len(q) DEF Chunks
<1>2. ASSUME NEW j \in 1 .. m, NEW k \in 1 .. m, j < k PROVE w[j].n < w[k].n
  <2>1. p + j \in p + 1 .. Len(q) /\ p + k \in p + 1 .. Len(q) /\ p + j < p + k
    BY <1>2
  <2>2. q[p + j].n < q[p + k].n
    BY <2>1 DEF Chunks
  <2>3. QED
    BY <2>2
<1>3. QED
  BY <1>1, <1>2 DEF Service!InOrder

\* What has been written to a client between callbacks is what it may have been given.
LEMMA WrittenForClient ==
  ASSUME Inv, todo = <<>>, NEW i \in live, i \in Ids, NEW k \in Nat, k <= Len(queued[In(i)])
  PROVE  Service!ForClient(i, SubSeq(queued[In(i)], 1, k))
<1> DEFINE q == SubSeq(queued[In(i)], 1, k)
           w == SubSeq(q, 4, k)
<1>1. /\ TypeOK /\ Streams /\ Phases /\ Callbacks /\ In(i) \in Ends
      /\ queued[In(i)] \in Seq(Items) /\ Len(queued[In(i)]) \in Nat
  BY EndsDiffer, ItemsAreTyped DEF Inv
<1>2. q \in Seq(Items) /\ Len(q) = k /\ DOMAIN q = 1 .. k
      /\ \A m \in 1 .. k : q[m] = queued[In(i)][m]
  BY <1>1
<1>3. Phase(i) /\ \A op : ~Interrupted(i, op)
  BY <1>1 DEF Phases, Interrupted
<1>4. OnScript(i)
  BY <1>1, NoneRefused
<1>5. \A m \in 1 .. k : m <= 3 => q[m].kind = Script[m]
  BY <1>1, <1>2, <1>4, TheScript DEF OnScript
<1>6. PICK n \in Nat : n = Len(queued[In(i)]) /\ k <= n
  BY <1>1
<1>7. /\ k >= 2 => presented[i] \in Accounts
      /\ k >= 3 => sock[Out(i)] = "open"
  <2>1. \/ n = 0 \/ n = 1
        \/ n = 2 /\ machine[i] \in {"WaitForCommand", "WaitForProxyStart"}
        \/ machine[i] = "ProxyStarted" /\ sock[Out(i)] = "open"
    BY <1>3, <1>6 DEF Phase
  <2>2. machine[i] \in {"WaitForCommand", "WaitForProxyStart", "ProxyStarted"} =>
          presented[i] \in Accounts
    BY <1>1 DEF Callbacks, HandshakeProgress
  <2>3. n = 0 => k < 1
    BY <1>6
  <2>4. n = 1 => k < 2
    BY <1>6
  <2>5. n = 2 => k < 3
    BY <1>6
  <2>6. QED
    BY <2>1, <2>2, <2>3, <2>4, <2>5
<1>8. Service!InOrder(w, rcvd[<<i, "out">>])
  <2>1. Chunks(queued[In(i)], 3, rcvd[<<i, "out">>])
    BY <1>1, TheScript DEF Streams, RelayedInOrder, Sides, Other, Preface, In
  <2>2. rcvd[<<i, "out">>] \in Nat
    BY <1>1, BoundsAssumption DEF TypeOK, Ends, Sides
  <2>3. PICK m \in Nat : m = IF k > 3 THEN k - 3 ELSE 0
    OBVIOUS
  <2>4. CASE k > 3
    <3>1. DOMAIN w = 1 .. m /\ 3 + m <= Len(queued[In(i)])
      BY <1>1, <1>2, <2>3, <2>4
    <3>2. ASSUME NEW l \in 1 .. m PROVE w[l] = queued[In(i)][3 + l]
      BY <1>1, <1>2, <2>3, <2>4
    <3>3. QED
      BY <1>1, <2>1, <2>2, <3>1, <3>2, PartInOrder
  <2>5. CASE ~(k > 3)
    <3>1. DOMAIN w = {}
      BY <1>2, <2>5
    <3>2. QED
      BY <3>1 DEF Service!InOrder
  <2>6. QED
    BY <2>4, <2>5
<1>9. QED
  <2>1. Len(Script) = 3
    BY DEF Script
  <2>2. SubSeq(q, Len(Script) + 1, Len(q)) = w
    BY <1>2, <2>1
  <2>3. /\ \A m \in DOMAIN q : m <= Len(Script) => q[m].kind = Script[m]
        /\ Len(q) >= 2 => presented[i] \in Accounts
        /\ Len(q) >= 3 => sock[Out(i)] = "open"
        /\ Service!InOrder(SubSeq(q, Len(Script) + 1, Len(q)), rcvd[<<i, "out">>])
    BY <1>2, <1>5, <1>7, <1>8, <2>1, <2>2
  <2>4. QED
    BY <2>3 DEF Service!ForClient

\* Output is written: to the client only what is true, to the remote only chunks.
LEMMA FlushRefines ==
  ASSUME Inv, [Next]_vars, NEW e \in Ends, Flush(e)
  PROVE  Service!Next
<1>1. /\ TypeOK /\ Structure /\ Streams /\ todo = <<>> /\ sock[e] = "open"
      /\ UNCHANGED <<live, currentId, presented, rcvd, sock, queued>>
  BY DEF Inv, Flush, Idle, procVars, ownVars, histVars
<1>2. PICK i \in Ids, s \in Sides : e = <<i, s>>
  BY DEF Ends
<1>3. i \in live /\ Service!Open(i)
  <2>1. i \in live
    BY <1>1, <1>2 DEF Structure, UsersAreAlive, Alive
  <2>2. QED
    BY <2>1, Seen
<1>4. PICK k \in flushed[e] + 1 .. Len(queued[e]) : flushed' = [flushed EXCEPT ![e] = k]
  BY DEF Flush
<1>5. /\ queued[e] \in Seq(Items) /\ Len(queued[e]) \in Nat /\ flushed[e] \in Nat
      /\ k \in Nat /\ k <= Len(queued[e]) /\ flushed[e] < k
      /\ flushed'[e] = k /\ flushed \in [Ends -> Nat]
  BY <1>1, <1>4, ItemsAreTyped DEF TypeOK
<1> DEFINE given == [d \in Ends |-> GivenTo(d)]
           q == SubSeq(queued[e], 1, k)
<1>6. GivenTo(e)' = q /\ Len(q) = k /\ Len(GivenTo(e)) = flushed[e]
      /\ SubSeq(q, 1, Len(GivenTo(e))) = GivenTo(e)
  BY <1>1, <1>5 DEF GivenTo
<1>7. given' = [given EXCEPT ![e] = q]
  <2>1. \A d \in Ends : d # e => GivenTo(d)' = GivenTo(d)
    BY <1>1, <1>4, <1>5 DEF GivenTo
  <2>2. QED
    BY <1>6, <2>1
<1>8. IF s = "in" THEN Service!ForClient(i, q) ELSE Service!InOrder(q, rcvd[<<i, "in">>])
  <2>1. CASE s = "in"
    BY <1>1, <1>2, <1>3, <1>5, <2>1, WrittenForClient DEF In
  <2>2. CASE s = "out"
    <3>1. Chunks(queued[e], 0, rcvd[<<i, "in">>]) /\ rcvd[<<i, "in">>] \in Nat
      BY <1>1, <1>2, <2>2, BoundsAssumption
      DEF Streams, RelayedInOrder, Sides, Other, Preface, Ends, TypeOK
    <3>2. /\ DOMAIN q = 1 .. k /\ 0 + k <= Len(queued[e])
          /\ \A m \in 1 .. k : q[m] = queued[e][0 + m]
      BY <1>5
    <3> HIDE DEF q
    <3>3. QED
      BY <1>5, <2>2, <3>1, <3>2, PartInOrder
  <2>3. QED
    BY <2>1, <2>2 DEF Sides
<1>9. UNCHANGED <<[j \in Ids |-> SessionOf(j)], [j \in Ids |-> sock[Out(j)]]>>
  BY <1>1 DEF SessionOf
<1>10. Service!Give(i, s)
  <2>1. given'[<<i, s>>] = q /\ given[<<i, s>>] = GivenTo(e)
    BY <1>2, <1>6
  <2> HIDE DEF q
  <2>2. QED
    BY <1>1, <1>2, <1>3, <1>5, <1>6, <1>7, <1>8, <1>9, <2>1 DEF Service!Give
<1>11. QED
  BY <1>10 DEF Service!Next, Service!Sides, Sides

\* A client is accepted under an id no client had before.
LEMMA AcceptRefines ==
  ASSUME Inv, [Next]_vars, OnAcceptConnection
  PROVE  Service!Next
<1>1. TypeOK /\ currentId \in Ids /\ currentId \notin live /\ live \subseteq Ids
  BY BoundsAssumption DEF Inv, TypeOK, OnAcceptConnection, Ids
<1>2. PICK i \in Ids : i = currentId
  BY <1>1
<1>3. /\ live' = live \cup {i} /\ currentId' = i + 1
      /\ sock' = [sock EXCEPT ![In(i)] = "open"] /\ UNCHANGED <<presented, rcvd, flushed>>
  BY <1>2 DEF OnAcceptConnection, netVars, histVars
<1>4. \A j \in Ids : SessionOf(j)' = IF j = i THEN "open" ELSE SessionOf(j)
  BY <1>1, <1>2, <1>3 DEF SessionOf, Ids
<1>5. SessionOf(i) = "none"
  BY <1>1, <1>2 DEF SessionOf, Ids
<1>6. \A j \in Ids : sock'[Out(j)] = sock[Out(j)]
  BY <1>1, <1>3, EndsDiffer DEF TypeOK
<1>7. [j \in Ids |-> SessionOf(j)]' = [[j \in Ids |-> SessionOf(j)] EXCEPT ![i] = "open"]
  BY <1>4
<1>8. UNCHANGED <<[j \in Ids |-> sock[Out(j)]], [e \in Ends |-> GivenTo(e)]>>
  BY <1>3, <1>6, GivenKept
<1>9. Service!Accept(i)
  BY <1>3, <1>5, <1>7, <1>8 DEF Service!Accept
<1>10. QED
  BY <1>9 DEF Service!Next

\* The process ends, and every session with it.
LEMMA ExitRefines ==
  ASSUME Inv, [Next]_vars, Exit
  PROVE  Service!Next \/ UNCHANGED Service!vars
<1>1. /\ TypeOK /\ Structure /\ live \subseteq Ids /\ live' = {}
      /\ UNCHANGED <<currentId, presented, rcvd, flushed>>
      /\ sock' = [e \in Ends |-> IF sock[e] = "none" THEN "none" ELSE "freed"]
  BY BoundsAssumption DEF Inv, TypeOK, Exit, netVars, histVars, Ids
<1>2. ASSUME NEW j \in Ids
      PROVE  SessionOf(j)' = IF j \in live /\ Service!Open(j) THEN "over" ELSE SessionOf(j)
  <2>1. j \in live => j < currentId
    BY <1>1 DEF TypeOK
  <2>2. QED
    BY <1>1, <2>1, Seen DEF SessionOf
<1>3. ASSUME NEW j \in Ids
      PROVE  sock'[Out(j)] = IF j \in live /\ sock[Out(j)] # "none" THEN "freed"
                             ELSE sock[Out(j)]
  <2>1. Out(j) \in Ends /\ Out(j)[1] = j
    BY EndsDiffer
  <2>2. j \notin live => sock[Out(j)] \in {"none", "freed"}
    BY <1>1, <2>1 DEF TypeOK, Structure, UsersAreAlive, Alive
  <2>3. QED
    BY <1>1, <2>1, <2>2
<1>4. Service!EndSessions(live)
  BY <1>2, <1>3 DEF Service!EndSessions, Service!Open
<1>5. CASE live = {}
  BY <1>1, <1>3, <1>5, Unseen
<1>6. CASE live # {}
  <2>1. \A i \in live : Service!Open(i)
    BY <1>1, Seen
  <2>2. Service!End(live)
    BY <1>1, <1>4, <1>6, <2>1, GivenKept DEF Service!End
  <2>3. QED
    BY <1>1, <2>2 DEF Service!Next
<1>7. QED
  BY <1>5, <1>6

LEMMA StepRefines == Inv /\ [Next]_vars => [Service!Next]_(Service!vars)
<1> SUFFICES ASSUME Inv, [Next]_vars
             PROVE  Service!Next \/ UNCHANGED Service!vars
  OBVIOUS
<1>1. CASE \E i \in Ids : Connects(i) \/ OnReceive(i)
  BY <1>1, ConnectRefines, ReadRefines
<1>2. CASE \E i \in Ids, s \in Sides : OnDataReceived(i, s)
  BY <1>2, RelayRefines
<1>3. CASE \E i \in Ids, s \in Sides : OnConnectionClosed(i, s)
  <2>1. PICK i \in Ids, s \in Sides : OnConnectionClosed(i, s)
    BY <1>3
  <2>2. i \in live
    BY <2>1 DEF Inv, Structure, UsersAreAlive, Alive, OnConnectionClosed, Ends
  <2>3. DestroySelf(i) /\ UNCHANGED <<currentId, presented, rcvd, flushed>>
    BY <2>1 DEF OnConnectionClosed, procVars, netVars, histVars
  <2>4. QED
    BY <2>2, <2>3, EndsOne
<1>4. CASE \E e \in Ends : Flush(e)
  BY <1>4, FlushRefines
<1>5. CASE \/ OnSignal \/ UNCHANGED vars \/ \E e \in Ends : PeerHangsUp(e)
  <2>1. UNCHANGED <<live, currentId, presented, rcvd, flushed, sock>>
    BY <1>5 DEF OnSignal, PeerHangsUp, vars, procVars, ownVars, netVars, histVars
  <2>2. QED
    BY <2>1, Unseen
<1>6. QED
  BY <1>1, <1>2, <1>3, <1>4, <1>5, AcceptRefines, ResumeRefines, ExitRefines DEF Next

LEMMA InitRefines == Init => Service!Init
<1> SUFFICES ASSUME Init PROVE Service!Init
  OBVIOUS
<1>1. \A i \in Ids : SessionOf(i) = "none"
  BY BoundsAssumption DEF Init, SessionOf, Ids
<1>2. \A i \in Ids : sock[Out(i)] = "none"
  BY EndsDiffer DEF Init
<1>3. \A e \in Ends : GivenTo(e) = <<>>
  BY DEF Init, GivenTo
<1>4. presented = [i \in Ids |-> NoLogin] /\ rcvd = [e \in Ends |-> 0]
  BY DEF Init
<1>5. QED
  BY <1>1, <1>2, <1>3, <1>4 DEF Service!Init, Service!Ends, Service!Sides, Ends, Sides

\* The process, with its objects, sockets and interrupted callbacks, is an
\* implementation of SocksService: whatever the interleaving, its peers see no grant
\* without a connection that is up, no connection without an account, nothing out of
\* turn and nothing after the end of a session.
THEOREM Refinement == Spec => ImplementsService
<1>1. Inv /\ [Next]_vars => [Service!Next]_(Service!vars)
  BY StepRefines
<1>2. QED
  BY <1>1, InitRefines, Invariant, PTL DEF Spec, ImplementsService, Service!Spec
=============================================================================
