----------------------------- MODULE SessionIds -----------------------------
(* The session numbers of SessionMng when they wrap, and the outgoing sockets that a
   session replaced in mid-life leaves behind in EventTcpServer::_connections.

   _currentId has 32 bits and operator[] replaces whatever has the number: a session
   that has outlived 2^32 later ones is deleted without destroySelf. Sessions are
   reduced to what they do with the outgoing socket, and addresses are used again.
   Operators whose comment begins with Fault are not part of the model: each is a
   plausible slip in the operator below it. *)
EXTENDS Naturals

CONSTANTS
  IdMod,    \* how many numbers there are: 2^32 in the code
  Addrs,    \* the addresses at which sessions are made
  Socks,    \* the outgoing sockets
  None      \* no session, no socket

ASSUME IdModAssumption == IdMod \in Nat \ {0}
ASSUME NoneAssumption == None \notin Addrs /\ None \notin Socks

VARIABLES
  currentId,
  sessions,     \* SessionMng::_sessions: the address of each number's session, or None
  stage,        \* each address: free, or how far its session is
  number,       \* Session::_id
  outConn,      \* Session::_outConn
  connections,  \* EventTcpServer::_connections: the socket of each address, or None
  socket,       \* each socket: unborn, opening, up, over or deleted
  user,         \* EventSocketConnected::_user: a session, the proxy of one, or None
  crashed,
  orphans       \* history: sockets whose session was replaced while they opened

vars == <<currentId, sessions, stage, number, outConn, connections, socket, user, crashed,
          orphans>>

Ids == 0 .. IdMod - 1
Living == {a \in Addrs : stage[a] # "free"}

Init ==
  /\ currentId = 0
  /\ sessions = [id \in Ids |-> None]
  /\ stage = [a \in Addrs |-> "free"]
  /\ number = [a \in Addrs |-> 0]
  /\ outConn = [a \in Addrs |-> None]
  /\ connections = [a \in Addrs |-> None]
  /\ socket = [k \in Socks |-> "unborn"]
  /\ user = [k \in Socks |-> None]
  /\ crashed = FALSE
  /\ orphans = {}

\* A socket lives while the map or its session holds it; the proxy holds it with them.
Held(k, conns, outs) == \E a \in Addrs : conns[a] = k \/ outs[a] = k
LetGo(conns, outs, s) ==
  [k \in Socks |-> IF s[k] # "unborn" /\ ~Held(k, conns, outs) THEN "deleted" ELSE s[k]]

\* ~TcpStreamProxy, if there is one: it closes the socket and is its user no more.
Unproxied(a, s) == IF stage[a] = "relaying" THEN [s EXCEPT ![outConn[a]] = "over"] ELSE s
Unused(a) == [k \in Socks |-> IF stage[a] = "relaying" /\ outConn[a] = k THEN None ELSE user[k]]

-----------------------------------------------------------------------------
(* SessionMng *)

\* _currentId++ of 32 bits. The new session is made before the one it replaces is deleted.
OnNewConnection ==
  /\ ~crashed
  /\ \E a \in Addrs \ Living :
       LET old == sessions[currentId]
           outs == IF old = None THEN outConn ELSE [outConn EXCEPT ![old] = None]
       IN  /\ currentId' = (currentId + 1) % IdMod
           /\ sessions' = [sessions EXCEPT ![currentId] = a]
           /\ number' = [number EXCEPT ![a] = currentId]
           /\ stage' = [b \in Addrs |-> CASE b = a -> "asking" [] b = old -> "free" [] OTHER -> stage[b]]
           /\ outConn' = outs
           /\ socket' = LetGo(connections, outs, IF old = None THEN socket ELSE Unproxied(old, socket))
           /\ user' = IF old = None THEN user ELSE Unused(old)
           /\ orphans' = IF old # None /\ stage[old] = "connecting"
                         THEN orphans \cup {outConn[old]} ELSE orphans
  /\ UNCHANGED <<connections, crashed>>

\* Fault: emplace, which leaves what the map has.
EntryEmplaced(a, k) == IF connections[a] = None THEN [connections EXCEPT ![a] = k] ELSE connections
\* _connections[user] = ptr.
EntrySet(a, k) == [connections EXCEPT ![a] = k]

\* Session::onStartProxy and createNewConnection, where the socket can be made. What
\* the address's last session left in the map goes.
CreateNewConnection(a) ==
  /\ ~crashed /\ stage[a] = "asking"
  /\ \E k \in Socks :
       /\ socket[k] = "unborn"
       /\ connections' = EntrySet(a, k)
       /\ outConn' = [outConn EXCEPT ![a] = k]
       /\ socket' = LetGo(connections', outConn', [socket EXCEPT ![k] = "opening"])
       /\ user' = [user EXCEPT ![k] = a]
  /\ stage' = [stage EXCEPT ![a] = "connecting"]
  /\ UNCHANGED <<currentId, sessions, number, crashed, orphans>>

\* Fault: the socket is left to the map.
ClosedConnectionsKept(a) == connections
\* EventTcpServer::closeConnection.
ClosedConnections(a) == [connections EXCEPT ![a] = None]

\* Fault: the session that came last is erased.
TableAfterNewest(a) == [sessions EXCEPT ![(currentId + IdMod - 1) % IdMod] = None]
\* _sessions.erase(id).
TableAfter(a) == [sessions EXCEPT ![number[a]] = None]

\* Session::destroySelf, onConnectionDestroyed and onSessionEnd: the client goes, errs
\* or is refused, or a stream ends.
SessionEnds(a) ==
  /\ ~crashed /\ a \in Living
  /\ connections' = ClosedConnections(a)
  /\ outConn' = [outConn EXCEPT ![a] = None]
  /\ socket' = LetGo(connections', outConn', Unproxied(a, socket))
  /\ user' = Unused(a)
  /\ sessions' = TableAfter(a)
  /\ stage' = [stage EXCEPT ![a] = "free"]
  /\ UNCHANGED <<currentId, number, crashed, orphans>>

-----------------------------------------------------------------------------
(* Sockets *)

Reports(k) == ~crashed /\ socket[k] = "opening"

\* Session::onConnected: of its own socket, it becomes a proxy's.
Connected(k) ==
  /\ Reports(k) /\ user[k] \in Living /\ outConn[user[k]] = k
  /\ stage' = [stage EXCEPT ![user[k]] = "relaying"]
  /\ socket' = [socket EXCEPT ![k] = "up"]
  /\ UNCHANGED <<currentId, sessions, number, outConn, connections, user, crashed, orphans>>

\* The user is deleted, or a new session is at its address that has no socket to ask
\* for an address. What comes of it is undefined.
ConnectedWrong(k) ==
  /\ Reports(k)
  /\ user[k] \in Living => outConn[user[k]] # k
  /\ crashed' = TRUE
  /\ UNCHANGED <<currentId, sessions, stage, number, outConn, connections, socket, user, orphans>>

\* onEvent with an error: closeConnection does nothing and neither does the session,
\* unless it is deleted.
ConnectFails(k) ==
  /\ Reports(k)
  /\ socket' = [socket EXCEPT ![k] = "over"]
  /\ crashed' = (user[k] \notin Living)
  /\ UNCHANGED <<currentId, sessions, stage, number, outConn, connections, user, orphans>>

Next ==
  \/ OnNewConnection
  \/ \E a \in Addrs : CreateNewConnection(a) \/ SessionEnds(a)
  \/ \E k \in Socks : Connected(k) \/ ConnectedWrong(k) \/ ConnectFails(k)

Spec == Init /\ [][Next]_vars

-----------------------------------------------------------------------------
(* Properties *)

TypeOK ==
  /\ currentId \in Ids
  /\ sessions \in [Ids -> Addrs \cup {None}]
  /\ stage \in [Addrs -> {"free", "asking", "connecting", "relaying"}]
  /\ number \in [Addrs -> Ids]
  /\ outConn \in [Addrs -> Socks \cup {None}]
  /\ connections \in [Addrs -> Socks \cup {None}]
  /\ socket \in [Socks -> {"unborn", "opening", "up", "over", "deleted"}]
  /\ user \in [Socks -> Addrs \cup {None}]
  /\ orphans \subseteq Socks

\* The table has each living session under its own number, and nothing else: a session
\* that ends erases itself and not a younger one that has its number.
TableIsTheLiving ==
  \A a \in Addrs : a \in Living <=> \E id \in Ids : sessions[id] = a /\ number[a] = id

\* A socket that is still opening has the session that asked for it as its user, and is
\* that session's, unless the session was replaced under it.
OpeningHasItsSession ==
  \A k \in Socks :
    socket[k] = "opening" /\ k \notin orphans => user[k] \in Living /\ outConn[user[k]] = k

\* The program touches a deleted session, or calls one for a socket it never asked
\* for, only if a session was replaced while its socket opened.
WrongByReplacementOnly == crashed => orphans # {}

\* An orphan only ever reports to a session that has asked for nothing yet: from the
\* moment a session at its user's address asks for a socket, the orphan is gone.
OrphanMeetsTheAsking ==
  \A k \in Socks :
    socket[k] = "opening" /\ user[k] \in Living /\ outConn[user[k]] # k =>
      stage[user[k]] = "asking"

\* Between them: whom a socket that opens can report to, which is the session that
\* asked for it, or after a replacement one that has no socket of its own yet.
OpeningKnowsItsSession == OpeningHasItsSession /\ OrphanMeetsTheAsking
=============================================================================
