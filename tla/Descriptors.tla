---------------------------- MODULE Descriptors ----------------------------
(* The file descriptors of the process: who holds a number, and who closes it.

   The kernel gives the lowest free number. A socket's number is closed by
   EventSocketConnected::closeConnection, if the socket has connected, and again
   when its bufferevent is freed, since it is made with BEV_OPT_CLOSE_ON_FREE.
   libevent closes it then in a finalizer of the loop, which runs after the callback
   that freed the bufferevent and after callbacks that were already active.

   A callback is one step. A session is reduced to what matters to its sockets; what
   it reads and why it ends is in SocksServer. Operators whose comment begins with
   Fault are not part of the model: each is a plausible slip in the operator below
   it. *)
EXTENDS Integers, FiniteSets

CONSTANTS
  MaxSessions,  \* bound: clients accepted in a behaviour
  MaxFds        \* RLIMIT_NOFILE, less the descriptors that are open from the start

ASSUME LimitsAssumption == MaxSessions \in Nat /\ MaxFds \in Nat

Sessions == 1 .. MaxSessions
Fds == 1 .. MaxFds
Sockets == Sessions \X {"in", "out"}
InConn(s) == <<s, "in">>
OutConn(s) == <<s, "out">>
NoFd == 0
NoSocket == <<0, "none">>

VARIABLES
  stage,      \* where each session is
  file,       \* the kernel's table: the socket open under each number
  fd,         \* bufferevent_getfd of each socket
  bev,        \* each socket's bufferevent; freed is a free whose finalizer is queued
  connected,  \* EventSocketConnected::_connected
  reused      \* history: sockets whose number another bufferevent still had

vars == <<stage, file, fd, bev, connected, reused>>

Init ==
  /\ stage = [s \in Sessions |-> "unborn"]
  /\ file = [n \in Fds |-> NoSocket]
  /\ fd = [x \in Sockets |-> NoFd]
  /\ bev = [x \in Sockets |-> "none"]
  /\ connected = [x \in Sockets |-> FALSE]
  /\ reused = {}

Holders(n) == {x \in Sockets : fd[x] = n /\ bev[x] \in {"live", "freed"}}

LowestFree(n) ==
  /\ file[n] = NoSocket
  /\ \A m \in Fds : file[m] = NoSocket => n <= m

\* accept or socket gives x the number n, and x gets its bufferevent.
Opens(x, n) ==
  /\ LowestFree(n)
  /\ file' = [file EXCEPT ![n] = x]
  /\ fd' = [fd EXCEPT ![x] = n]
  /\ bev' = [bev EXCEPT ![x] = "live"]
  /\ reused' = IF Holders(n) = {} THEN reused ELSE reused \cup {x}

\* libevent dispatches by number: events of what is open there go to every live
\* bufferevent that has the number.
HasEvents(x) == bev[x] = "live" /\ file[fd[x]] # NoSocket

-----------------------------------------------------------------------------

\* The listener accepts while the process has a number to give.
Accept(s) ==
  /\ stage[s] = "unborn"
  /\ \A r \in Sessions : r < s => stage[r] # "unborn"
  /\ \E n \in Fds : Opens(InConn(s), n)
  /\ stage' = [stage EXCEPT ![s] = "handshake"]
  /\ UNCHANGED connected

\* Fault: the server's map keeps its reference to a connection in progress.
EndKeepsConnecting(s, closing) ==
  /\ file' = IF closing /\ connected[OutConn(s)]
             THEN [file EXCEPT ![fd[OutConn(s)]] = NoSocket] ELSE file
  /\ connected' = [connected EXCEPT ![OutConn(s)] = @ /\ ~closing]
  /\ bev' = [x \in Sockets |-> IF \/ x = InConn(s) /\ bev[x] = "live"
                                  \/ x = OutConn(s) /\ closing
                               THEN "freed" ELSE bev[x]]
  /\ stage' = [stage EXCEPT ![s] = "ended"]
  /\ UNCHANGED <<fd, reused>>

\* destroySelf: the proxy, if there is one, closes the outgoing connection; then the
\* last references to both sockets go, and with them their bufferevents.
EndSession(s, closing) ==
  /\ file' = IF closing /\ connected[OutConn(s)]
             THEN [file EXCEPT ![fd[OutConn(s)]] = NoSocket] ELSE file
  /\ connected' = [connected EXCEPT ![OutConn(s)] = @ /\ ~closing]
  /\ bev' = [x \in Sockets |-> IF x[1] = s /\ bev[x] = "live" THEN "freed" ELSE bev[x]]
  /\ stage' = [stage EXCEPT ![s] = "ended"]
  /\ UNCHANGED <<fd, reused>>

\* createConnect. It fails if there is no number, or the address is a domain, or
\* connect fails at once; the session then ends.
CreateConnect(s) ==
  /\ stage[s] = "handshake"
  /\ HasEvents(InConn(s))
  /\ \/ /\ \E n \in Fds : Opens(OutConn(s), n)
        /\ stage' = [stage EXCEPT ![s] = "connecting"]
        /\ UNCHANGED connected
     \/ EndSession(s, FALSE)

\* The connection completes, and the sockets get a proxy; or the reply cannot be
\* sent, and the session ends without one.
Connected(s) ==
  /\ stage[s] = "connecting"
  /\ HasEvents(OutConn(s))
  /\ connected' = [connected EXCEPT ![OutConn(s)] = TRUE]
  /\ \/ /\ stage' = [stage EXCEPT ![s] = "relaying"]
        /\ UNCHANGED bev
     \/ /\ stage' = [stage EXCEPT ![s] = "ended"]
        /\ bev' = [bev EXCEPT ![InConn(s)] = "freed", ![OutConn(s)] = "freed"]
  /\ UNCHANGED <<file, fd, reused>>

\* The client leaves or is refused. closeConnection does nothing to its socket, which
\* was accepted and never connected.
ClientEnds(s) ==
  /\ HasEvents(InConn(s))
  /\ EndSession(s, stage[s] = "relaying")

\* Fault: the remote's end closes the socket and leaves the session.
RemoteEndIsQuiet(s) ==
  /\ stage[s] = "relaying"
  /\ HasEvents(OutConn(s))
  /\ file' = [file EXCEPT ![fd[OutConn(s)]] = NoSocket]
  /\ connected' = [connected EXCEPT ![OutConn(s)] = FALSE]
  /\ UNCHANGED <<stage, fd, bev, reused>>

\* The remote leaves a relay. (A failed connect changes nothing here: closeConnection
\* returns early, and the session waits for its client.)
RemoteEnds(s) ==
  /\ stage[s] = "relaying"
  /\ HasEvents(OutConn(s))
  /\ EndSession(s, TRUE)

\* Fault: the bufferevent does not own its descriptor.
FinalizeOnly(x) ==
  /\ bev[x] = "freed"
  /\ bev' = [bev EXCEPT ![x] = "closed"]
  /\ UNCHANGED <<stage, file, fd, connected, reused>>

\* The finalizer of a freed bufferevent closes its number, whatever is open there.
Finalize(x) ==
  /\ bev[x] = "freed"
  /\ bev' = [bev EXCEPT ![x] = "closed"]
  /\ file' = [file EXCEPT ![fd[x]] = NoSocket]
  /\ UNCHANGED <<stage, fd, connected, reused>>

Next ==
  \/ \E s \in Sessions :
       Accept(s) \/ CreateConnect(s) \/ Connected(s) \/ ClientEnds(s) \/ RemoteEnds(s)
  \/ \E x \in Sockets : Finalize(x)

Spec == Init /\ [][Next]_vars

\* The loop runs its queue of finalizers. Nothing is asked of clients and remotes.
FairSpec == Spec /\ \A x \in Sockets : WF_vars(Finalize(x))

-----------------------------------------------------------------------------
(* Properties *)

TypeOK ==
  /\ stage \in [Sessions -> {"unborn", "handshake", "connecting", "relaying", "ended"}]
  /\ file \in [Fds -> Sockets \cup {NoSocket}]
  /\ fd \in [Sockets -> Fds \cup {NoFd}]
  /\ bev \in [Sockets -> {"none", "live", "freed", "closed"}]
  /\ connected \in [Sockets -> BOOLEAN]
  /\ reused \subseteq Sockets

\* No descriptor leaks: what is open belongs to a session that goes on, or to a
\* bufferevent whose finalizer is queued, whatever was closed twice and however
\* createConnect and onConnected failed.
NoLeak ==
  \A n \in Fds : file[n] # NoSocket =>
    LET x == file[n] IN
      /\ fd[x] = n
      /\ \/ bev[x] = "freed"
         \/ bev[x] = "live" /\ stage[x[1]] \notin {"unborn", "ended"}

\* A session's socket is closed under it only if it was given a number that another
\* bufferevent still had: one that closeConnection closed and its finalizer, or that
\* of a socket which lost it this way, closes again. This does happen.
LosesOnlyReused ==
  \A x \in Sockets : bev[x] = "live" /\ file[fd[x]] # x => x \in reused

\* When every client that was accepted has gone, all numbers come back.
NumbersComeBack ==
  (\A s \in Sessions : stage[s] \in {"unborn", "ended"})
    ~> \/ \A n \in Fds : file[n] = NoSocket
       \/ \E s \in Sessions : stage[s] \notin {"unborn", "ended"}
=============================================================================
