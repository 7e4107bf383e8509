--------------------------- MODULE SelectHandler ---------------------------
(* libratel's older select server: ExSocketHandler, its FlipBuffer of sockets and
   ExSocket, in the thread of runInThisThread, with users that delete sockets in their
   callbacks or from other threads.

   The loop copies the set of sockets, waits in select, and then visits each socket of
   the copy: onRead, onWrite, onError. As select is given 0 for nfds, and the bytes to
   read come from FIONREAD, this is the code as it runs on Windows. Every call of a
   socket, every return from a callback and every step of a destructor is a step of its
   own, and users act between steps; a deletion in a callback is one during which the
   loop stands still.

   A socket is known to the kernel by its number, and select reports on numbers. The
   destructor closes the number twice, ExSocket in its body and BaseSocket as its member,
   and the loop may be given the number again in between. Addresses are not reused.
   The specification is LoopSpec, so that one module can reason about it beside
   another. Operators whose comment begins with Fault are not part of the model: each is
   a plausible slip in the operator below it. *)
EXTENDS Naturals, FiniteSets

CONSTANTS
  Socks,    \* the addresses of connected ExSockets
  Numbers,  \* the numbers the kernel gives to connections
  Server,   \* the listening ExSocket, which is never deleted, and its number
  None,     \* no number, or no connection
  SetSize   \* FD_SETSIZE: how many numbers an fd_set holds

ASSUME ServerAssumption == Server \notin Socks \cup Numbers /\ None \notin Socks \cup Numbers

VARIABLES
  crashed,
  object,     \* each connected ExSocket: unborn, alive, and then, as it is destroyed,
              \* unlisted (not in the set), shut (closed once) and deleted
  connected,  \* ExSocket::_connected
  fd,         \* the number in each ExSocket
  watched,    \* FlipBuffer::_write
  at,         \* where the loop is, and the socket it visits
  left,       \* the sockets of the copy that are still to be visited
  ready,      \* what select reported: pairs of a number and an event
  file,       \* the kernel's table: whose connection a number stands for
  knocks,     \* connections the kernel has to accept
  unread,     \* connections with bytes to read
  gone,       \* connections whose peer has closed, or that are shut down
  told,       \* sockets whose user was told that the connection is closed
  caught,     \* history: sockets that were deleted when they were in the loop's copy
  overlapped  \* history: sockets given a number between the two closes of another

kernel == <<file, knocks, unread, gone>>
loopVars == <<crashed, object, connected, fd, watched, at, left, ready, kernel, told,
              caught, overlapped>>

Alive == {s \in Socks : object[s] = "alive"}

\* Its memory is there.
Exists(s) == object[s] \in {"alive", "unlisted", "shut"}
Number(s) == IF s = Server THEN Server ELSE fd[s]
Visited == IF at.phase \in {"read", "closed", "write", "error"} THEN {at.sock} ELSE {}
Outside == [phase |-> "next", sock |-> Server]

LoopInit ==
  /\ crashed = FALSE
  /\ object = [s \in Socks |-> "unborn"]
  /\ connected = [s \in Socks |-> FALSE]
  /\ fd = [s \in Socks |-> None]
  /\ watched = {Server}
  /\ at = Outside
  /\ left = {} /\ ready = {}
  /\ file = [n \in Numbers |-> None]
  /\ knocks = 0 /\ unread = {} /\ gone = {}
  /\ told = {}
  /\ caught = {} /\ overlapped = {}

-----------------------------------------------------------------------------
(* The loop *)

\* A round begins: the sets are cleared and FlipBuffer::read copies under the lock.
CopySockets ==
  /\ ~crashed /\ at.phase = "next" /\ left = {}
  /\ left' = watched /\ ready' = {}
  /\ at' = [phase |-> "select", sock |-> Server]
  /\ UNCHANGED <<crashed, object, connected, fd, watched, kernel, told, caught, overlapped>>

\* FD_SET for every socket of the copy, in the order of their addresses: the numbers
\* that find no room are dropped without a word.
Asked ==
  LET copied == {Number(s) : s \in {t \in left : t = Server \/ Exists(t)}}
  IN  {asked \in SUBSET copied :
         \/ asked = copied /\ Cardinality(copied) <= SetSize
         \/ Cardinality(asked) = SetSize}

Readable(n) == IF n = Server THEN knocks > 0 ELSE file[n] \in unread \cup gone

\* select returns with what can be read, and any of what may be written. With nothing to
\* report it times out. What is in error plays no part but in onError.
SelectReturns(asked) ==
  /\ \A n \in asked \ {Server} : file[n] # None
  /\ \E writable \in SUBSET (asked \ {Server}) :
       ready' = {<<n, "read">> : n \in {m \in asked : Readable(m)}}
                  \cup {<<n, "write">> : n \in writable}
  /\ \/ ready' = {} /\ at' = Outside /\ left' = {}
     \/ at' = [at EXCEPT !.phase = "next"] /\ UNCHANGED left
  /\ UNCHANGED crashed

\* With a closed number select fails, which ends the loop. What a deleted socket says
\* of its number is undefined.
SelectFails ==
  /\ \/ /\ \E asked \in Asked : \E n \in asked \ {Server} : file[n] = None
        /\ at' = [at EXCEPT !.phase = "ended"] /\ UNCHANGED crashed
     \/ /\ \E s \in left \cap Socks : object[s] = "deleted"
        /\ \/ at' = [at EXCEPT !.phase = "ended"] /\ UNCHANGED crashed
           \/ crashed' = TRUE /\ UNCHANGED at
  /\ UNCHANGED <<left, ready>>

Select ==
  /\ ~crashed /\ at.phase = "select"
  /\ (\E asked \in Asked : SelectReturns(asked)) \/ SelectFails
  /\ UNCHANGED <<object, connected, fd, watched, kernel, told, caught, overlapped>>

Goes(phase) == at' = [at EXCEPT !.phase = phase]

\* What was reported of the sockets visited before plays no part any more.
VisitNext ==
  /\ ~crashed /\ at.phase = "next"
  /\ \E s \in left : at' = [phase |-> "read", sock |-> s] /\ left' = left \ {s}
  /\ ready' = {event \in ready : event[1] \in {Number(s) : s \in left}}
  /\ UNCHANGED <<crashed, object, connected, fd, watched, kernel, told, caught, overlapped>>

\* The loop is at a socket: it exists, or what comes of its call is undefined.
Visits(phase) == ~crashed /\ at.phase = phase

\* Whatever the loop finds in the memory of a deleted socket, or of one whose members
\* are being destroyed, it goes on or crashes.
TouchDeleted ==
  /\ ~crashed
  /\ \E s \in Visited \cap Socks : object[s] \in {"shut", "deleted"}
  /\ \/ crashed' = TRUE /\ UNCHANGED at
     \/ /\ Goes(CASE at.phase = "read" -> "write" [] at.phase = "closed" -> "write"
                  [] at.phase = "write" -> "error" [] OTHER -> "next")
        /\ UNCHANGED crashed
  /\ UNCHANGED <<object, connected, fd, watched, left, ready, kernel, told, caught, overlapped>>

-----------------------------------------------------------------------------
(* ExSocket *)

\* accept gives a number that is free, and the constructor of the accepted socket adds
\* it to the set.
Accept ==
  \E s \in Socks, n \in Numbers :
    /\ object[s] = "unborn" /\ file[n] = None
    /\ file' = [file EXCEPT ![n] = s]
    /\ object' = [object EXCEPT ![s] = "alive"]
    /\ connected' = [connected EXCEPT ![s] = TRUE]
    /\ fd' = [fd EXCEPT ![s] = n]
    /\ watched' = watched \cup {s}
    /\ knocks' = knocks - 1
    /\ overlapped' = IF \E t \in Socks : object[t] = "shut" /\ fd[t] = n
                     THEN overlapped \cup {s} ELSE overlapped

\* accept returns INVALID_SOCKET: the peer has given up, or there is no number to give.
AcceptFails ==
  /\ knocks' \in {knocks, knocks - 1}
  /\ UNCHANGED <<object, connected, fd, watched, file, overlapped>>

\* onRead of the server.
OnReadServer ==
  /\ Visits("read") /\ at.sock = Server
  /\ Goes("next")
  /\ IF <<Server, "read">> \in ready
     THEN Accept \/ AcceptFails
     ELSE UNCHANGED <<object, connected, fd, watched, file, knocks, overlapped>>
  /\ UNCHANGED <<crashed, left, ready, unread, gone, told, caught>>

\* A number is closed, whatever connection it stands for now.
Closes(n) ==
  /\ file' = [file EXCEPT ![n] = None]
  /\ unread' = unread \ {file[n]}
  /\ gone' = gone \ {file[n]}

\* Fault: the end is only seen where a read fails.
OnReadErrorsOnly(s) ==
  /\ Visits("read") /\ at.sock = s /\ Exists(s)
  /\ unread' = IF <<fd[s], "read">> \in ready THEN unread \ {file[fd[s]]} ELSE unread
  /\ Goes("write")
  /\ UNCHANGED <<crashed, object, connected, fd, watched, left, ready, file, knocks, gone,
                 told, caught, overlapped>>

\* Fault: the number is closed where it should be shut down.
OnReadCloses(s) ==
  /\ Visits("read") /\ at.sock = s /\ Exists(s)
  /\ IF <<fd[s], "read">> \in ready /\ connected[s] /\ file[fd[s]] \notin unread
     THEN /\ Closes(fd[s])
          /\ connected' = [connected EXCEPT ![s] = FALSE]
          /\ told' = told \cup {s}
          /\ Goes("closed")
     ELSE /\ unread' = IF <<fd[s], "read">> \in ready THEN unread \ {file[fd[s]]} ELSE unread
          /\ Goes("write")
          /\ UNCHANGED <<connected, file, gone, told>>
  /\ UNCHANGED <<crashed, object, fd, watched, left, ready, knocks, caught, overlapped>>

\* onRead, of the connection that the number stands for: the bytes that are there go to
\* the user; if there are none, or no connection, the connection is shut down and the
\* user is told, once.
OnRead(s) ==
  /\ Visits("read") /\ at.sock = s /\ Exists(s)
  /\ \/ /\ <<fd[s], "read">> \in ready /\ file[fd[s]] \in unread
        /\ unread' = unread \ {file[fd[s]]}
        /\ Goes("write")
        /\ UNCHANGED <<connected, gone, told>>
     \/ /\ <<fd[s], "read">> \in ready /\ file[fd[s]] \notin unread /\ connected[s]
        /\ gone' = gone \cup ({file[fd[s]]} \ {None})
        /\ connected' = [connected EXCEPT ![s] = FALSE]
        /\ told' = told \cup {s}
        /\ Goes("closed")
        /\ UNCHANGED unread
     \/ /\ <<fd[s], "read">> \in ready => file[fd[s]] \notin unread /\ ~connected[s]
        /\ Goes("write")
        /\ UNCHANGED <<unread, connected, gone, told>>
  /\ UNCHANGED <<crashed, object, fd, watched, left, ready, file, knocks, caught, overlapped>>

\* The user has returned from onConnectionClosed.
AfterClosed(s) ==
  /\ Visits("closed") /\ at.sock = s /\ Exists(s)
  /\ watched' = watched \ {s}
  /\ Goes("write")
  /\ UNCHANGED <<crashed, object, connected, fd, left, ready, kernel, told, caught, overlapped>>

\* onWrite: a socket that is not connected becomes connected, and if it was closed in
\* this round so does this one. Nothing is ever put in _msgSendBuffer.
OnWrite(s) ==
  /\ Visits("write") /\ at.sock = s /\ Exists(s)
  /\ connected' = [connected EXCEPT ![s] = @ \/ <<fd[s], "write">> \in ready]
  /\ Goes("error")
  /\ UNCHANGED <<crashed, object, fd, watched, left, ready, kernel, told, caught, overlapped>>

\* onError tells the user of a failure, whatever came before; nothing is changed here.
OnError(s) ==
  /\ Visits("error") /\ at.sock = s /\ Exists(s)
  /\ Goes("next")
  /\ UNCHANGED <<crashed, object, connected, fd, watched, left, ready, kernel, told, caught,
                 overlapped>>

\* ~ExSocket begins, in a callback or in a thread of the user: onDelSocket.
Delete(s) ==
  /\ ~crashed /\ object[s] = "alive"
  /\ object' = [object EXCEPT ![s] = "unlisted"]
  /\ watched' = watched \ {s}
  /\ caught' = IF s \in left \cup Visited THEN caught \cup {s} ELSE caught
  /\ UNCHANGED <<crashed, connected, fd, at, left, ready, kernel, told, overlapped>>

\* The body of ~ExSocket closes the socket.
CloseSocket(s) ==
  /\ ~crashed /\ object[s] = "unlisted"
  /\ object' = [object EXCEPT ![s] = "shut"]
  /\ Closes(fd[s])
  /\ UNCHANGED <<crashed, connected, fd, watched, at, left, ready, knocks, told, caught,
                 overlapped>>

\* ~BaseSocket, of the member _sock, shuts the same number down and closes it again; the
\* memory goes.
CloseAgain(s) ==
  /\ ~crashed /\ object[s] = "shut"
  /\ object' = [object EXCEPT ![s] = "deleted"]
  /\ Closes(fd[s])
  /\ fd' = [fd EXCEPT ![s] = None]
  /\ UNCHANGED <<crashed, connected, watched, at, left, ready, knocks, told, caught, overlapped>>

-----------------------------------------------------------------------------
(* The peers *)

Running == ~crashed /\ at.phase # "ended"
Open(s) == \E n \in Numbers : file[n] = s

Knock ==
  /\ Running
  /\ knocks + Cardinality({s \in Socks : object[s] # "unborn"}) < Cardinality(Socks)
  /\ knocks' = knocks + 1
  /\ UNCHANGED <<crashed, object, connected, fd, watched, at, left, ready, file, unread, gone,
                 told, caught, overlapped>>

PeerSends(s) ==
  /\ Running /\ Open(s) /\ s \notin gone \cup unread
  /\ unread' = unread \cup {s}
  /\ UNCHANGED <<crashed, object, connected, fd, watched, at, left, ready, file, knocks, gone,
                 told, caught, overlapped>>

\* The peer closes, or the user calls ExSocket::shutdown.
PeerCloses(s) ==
  /\ Running /\ Open(s) /\ s \notin gone
  /\ gone' = gone \cup {s}
  /\ UNCHANGED <<crashed, object, connected, fd, watched, at, left, ready, file, knocks, unread,
                 told, caught, overlapped>>

Loop ==
  \/ CopySockets \/ Select \/ VisitNext \/ TouchDeleted \/ OnReadServer
  \/ \E s \in Socks : OnRead(s) \/ AfterClosed(s) \/ OnWrite(s) \/ OnError(s)

LoopNext ==
  \/ Loop
  \/ \E s \in Socks : Delete(s) \/ CloseSocket(s) \/ CloseAgain(s)
  \/ \E s \in Socks : PeerSends(s) \/ PeerCloses(s)
  \/ Knock

LoopSpec == LoopInit /\ [][LoopNext]_loopVars

\* The loop's thread runs: select waits half a millisecond at most.
FairLoopSpec == LoopSpec /\ WF_loopVars(Loop)

-----------------------------------------------------------------------------
(* Properties *)

\* A deleted socket is only touched by the round in whose copy it was when it was
\* deleted: no later round has it. The copy is what makes this possible at all.
TouchesOnlyCaught ==
  /\ left \ {Server} \subseteq Alive \cup caught
  /\ Visited \subseteq Alive \cup caught \cup {Server}
  /\ watched \ {Server} \subseteq Alive

\* A socket that was reported closed is not watched any more, so it is reported once;
\* whatever onWrite and onError say of it afterwards ends with the round.
ClosedIsUnwatched ==
  \A s \in Socks :
    s \in told => s \notin watched \/ at = [phase |-> "closed", sock |-> s]

\* The loop ends or crashes only when a socket was deleted under a round, or a
\* connection was accepted with the number of a socket that stood between its two
\* closes: a deletion between two rounds does harm by its second close alone.
LoopEndsOnlyByDeletes ==
  crashed \/ at.phase = "ended" => caught # {} \/ overlapped # {}

\* As long as no connection was given a number between two closes of it, every socket has
\* its own connection until its destructor closes it, and the second close, like the
\* calls of a round that still has the socket, reaches no other's.
NumbersAreKept ==
  overlapped = {} =>
    \A s \in Socks :
      /\ object[s] \in {"alive", "unlisted"} => file[fd[s]] = s
      /\ object[s] = "shut" => file[fd[s]] = None

\* What a round may do while users delete sockets: which of them it touches, whose
\* connections are read and closed by their numbers, and what can end the loop.
RoundsAreSafe ==
  TouchesOnlyCaught /\ ClosedIsUnwatched /\ LoopEndsOnlyByDeletes /\ NumbersAreKept

\* A peer that closes is reported to the user and its socket dropped, unless the user
\* deletes that socket first, or the loop has ended, or the second close of another has
\* cost the socket its number and the next connection has it. This is claimed where
\* every socket finds room in an fd_set.
CloseIsReported ==
  \A s \in Socks :
    s \in gone ~>
      \/ crashed \/ at.phase = "ended"
      \/ s \notin watched
      \/ file[fd[s]] \notin {s, None}
=============================================================================
