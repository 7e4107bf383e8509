------------------------- MODULE DescriptorsProofs -------------------------
(* Proofs about Descriptors, for every number of sessions and of descriptors. *)
EXTENDS Descriptors, TLAPS

(* The inductive invariant of the proofs *)

\* A live bufferevent has a number and belongs to a session that goes on; only a
\* relay's outgoing socket is connected while it lives.
BeventsOfSessions ==
  \A x \in Sockets :
    /\ bev[x] \in {"live", "freed"} => fd[x] \in Fds
    /\ bev[x] = "live" => stage[x[1]] \notin {"unborn", "ended"}
    /\ stage[x[1]] = "unborn" => bev[x] = "none"
    /\ connected[x] => fd[x] \in Fds
    /\ x[2] = "out" /\ stage[x[1]] = "handshake" => bev[x] = "none"
    /\ x[2] = "out" /\ stage[x[1]] = "relaying" => bev[x] = "live"
    /\ x[2] = "in" /\ stage[x[1]] \notin {"unborn", "ended"} => bev[x] = "live"

\* Of two bufferevents with one number, the socket that is open there came later.
SharedIsReused ==
  \A n \in Fds : \A x \in Sockets :
    /\ x \in Holders(n)
    /\ file[n] \notin {x, NoSocket}
    => file[n] \in reused

DescriptorInvariant ==
  TypeOK /\ NoLeak /\ LosesOnlyReused /\ BeventsOfSessions /\ SharedIsReused

\* The two sockets of a session, and the mark of a free number.
LEMMA SocketParts ==
  /\ \A x \in Sockets : x[1] \in Sessions /\ x[2] \in {"in", "out"} /\ x = <<x[1], x[2]>>
  /\ \A s \in Sessions : InConn(s) \in Sockets /\ OutConn(s) \in Sockets
  /\ \A s \in Sessions : InConn(s)[1] = s /\ InConn(s)[2] = "in"
  /\ \A s \in Sessions : OutConn(s)[1] = s /\ OutConn(s)[2] = "out"
  /\ NoSocket \notin Sockets
  /\ NoFd \notin Fds
  BY LimitsAssumption DEF Sockets, Sessions, InConn, OutConn, NoSocket, NoFd, Fds

-----------------------------------------------------------------------------
(* A socket is opened *)

\* Opening a socket of a session that goes on, the first time, keeps the invariant:
\* its number was free, and if another bufferevent has it the socket is reused.
LEMMA OpenKeepsInvariant ==
  ASSUME DescriptorInvariant, NEW s \in Sessions, NEW x \in Sockets, x[1] = s,
         NEW n \in Fds, bev[x] = "none", Opens(x, n),
         NEW st \in {"handshake", "connecting"}, stage' = [stage EXCEPT ![s] = st],
         x[2] = "in" => stage[s] = "unborn" /\ st = "handshake",
         x[2] = "out" => stage[s] = "handshake" /\ st = "connecting",
         UNCHANGED connected
  PROVE  DescriptorInvariant'
<1> USE SocketParts
<1>1. TypeOK'
  BY DEF DescriptorInvariant, TypeOK, Opens
<1>2. \A m \in Fds : file[m] # x
  BY DEF DescriptorInvariant, TypeOK, NoLeak
<1>3. NoLeak'
  BY <1>2 DEF DescriptorInvariant, TypeOK, NoLeak, Opens
<1>4. \A y \in Sockets : bev[y] = "live" => fd[y] \in Fds
  BY DEF DescriptorInvariant, BeventsOfSessions
<1>5. LosesOnlyReused'
  BY <1>4 DEF DescriptorInvariant, TypeOK, LosesOnlyReused, Opens, LowestFree
<1>6. BeventsOfSessions'
  <2>1. \A y \in Sockets : y[1] = s /\ y # x => y[2] # x[2]
    OBVIOUS
  <2>2. ASSUME NEW y \in Sockets, y # x
        PROVE  bev'[y] = bev[y] /\ fd'[y] = fd[y] /\ connected'[y] = connected[y]
    BY <2>2 DEF DescriptorInvariant, TypeOK, Opens
  <2>3. bev'[x] = "live" /\ fd'[x] \in Fds /\ x[2] \in {"in", "out"}
    BY DEF DescriptorInvariant, TypeOK, Opens
  <2>4. /\ stage'[s] = st
        /\ \A r \in Sessions : r # s => stage'[r] = stage[r]
    BY DEF DescriptorInvariant, TypeOK
  <2>5. QED
    BY <2>1, <2>2, <2>3, <2>4 DEF DescriptorInvariant, BeventsOfSessions
<1>7. SharedIsReused'
  BY <1>2 DEF DescriptorInvariant, TypeOK, SharedIsReused, Holders, Opens
<1>8. QED
  BY <1>1, <1>3, <1>5, <1>6, <1>7 DEF DescriptorInvariant

-----------------------------------------------------------------------------
(* A session ends *)

\* destroySelf keeps the invariant: what closeConnection takes from another socket
\* it takes from one that was reused.
LEMMA EndKeepsInvariant ==
  ASSUME DescriptorInvariant, NEW s \in Sessions, NEW closing \in BOOLEAN, EndSession(s, closing),
         stage[s] \notin {"unborn", "ended"}, closing => stage[s] = "relaying"
  PROVE  DescriptorInvariant'
<1> USE SocketParts
<1> DEFINE out == OutConn(s)
<1>1. closing => bev[out] = "live" /\ fd[out] \in Fds
  BY DEF DescriptorInvariant, BeventsOfSessions
<1>2. TypeOK'
  BY DEF DescriptorInvariant, TypeOK, EndSession
<1>3. \A m \in Fds : file'[m] # NoSocket => file'[m] = file[m]
  BY DEF DescriptorInvariant, TypeOK, EndSession
<1>4. NoLeak'
  BY <1>3 DEF DescriptorInvariant, TypeOK, NoLeak, EndSession
<1>5. ASSUME NEW y \in Sockets, bev'[y] = "live", file'[fd'[y]] # y
      PROVE  y \in reused'
  <2>1. bev[y] = "live" /\ fd'[y] = fd[y] /\ fd[y] \in Fds /\ reused' = reused
    BY <1>5 DEF DescriptorInvariant, TypeOK, EndSession, BeventsOfSessions
  <2>2. CASE file[fd[y]] # y
    BY <2>1, <2>2 DEF DescriptorInvariant, LosesOnlyReused
  <2>3. CASE file[fd[y]] = y
    <3>1. closing /\ fd[out] = fd[y] /\ y # out
      BY <1>5, <2>1, <2>3 DEF DescriptorInvariant, TypeOK, EndSession
    <3>2. out \in Holders(fd[y])
      BY <1>1, <3>1 DEF Holders
    <3>3. QED
      BY <2>1, <2>3, <3>1, <3>2 DEF DescriptorInvariant, SharedIsReused
  <2>4. QED
    BY <2>2, <2>3
<1>6. LosesOnlyReused'
  BY <1>5 DEF LosesOnlyReused
<1>7. BeventsOfSessions'
  BY DEF DescriptorInvariant, TypeOK, BeventsOfSessions, EndSession
<1>8. \A m \in Fds : Holders(m)' = Holders(m)
  BY DEF DescriptorInvariant, TypeOK, EndSession, Holders
<1>9. SharedIsReused'
  BY <1>3, <1>8 DEF DescriptorInvariant, SharedIsReused, EndSession
<1>10. QED
  BY <1>2, <1>4, <1>6, <1>7, <1>9 DEF DescriptorInvariant

-----------------------------------------------------------------------------
(* The steps *)

\* No step leaves the invariant.
LEMMA DescriptorStep == DescriptorInvariant /\ [Next]_vars => DescriptorInvariant'
<1> SUFFICES ASSUME DescriptorInvariant, [Next]_vars PROVE DescriptorInvariant'
  OBVIOUS
<1> USE SocketParts
<1>1. ASSUME NEW s \in Sessions, Accept(s) PROVE DescriptorInvariant'
  <2>1. PICK n \in Fds : Opens(InConn(s), n)
    BY <1>1 DEF Accept
  <2>2. bev[InConn(s)] = "none"
    BY <1>1 DEF Accept, DescriptorInvariant, BeventsOfSessions
  <2>3. /\ stage[s] = "unborn" /\ stage' = [stage EXCEPT ![s] = "handshake"]
        /\ UNCHANGED connected
    BY <1>1 DEF Accept
  <2>4. QED
    BY <2>1, <2>2, <2>3, OpenKeepsInvariant
<1>2. ASSUME NEW s \in Sessions, CreateConnect(s) PROVE DescriptorInvariant'
  <2>1. CASE EndSession(s, FALSE)
    BY <1>2, <2>1, EndKeepsInvariant DEF CreateConnect
  <2>2. CASE /\ \E n \in Fds : Opens(OutConn(s), n)
             /\ stage' = [stage EXCEPT ![s] = "connecting"]
             /\ UNCHANGED connected
    <3>1. PICK n \in Fds : Opens(OutConn(s), n)
      BY <2>2
    <3>2. bev[OutConn(s)] = "none"
      BY <1>2 DEF CreateConnect, DescriptorInvariant, BeventsOfSessions
    <3>3. stage[s] = "handshake"
      BY <1>2 DEF CreateConnect
    <3>4. QED
      BY <2>2, <3>1, <3>2, <3>3, OpenKeepsInvariant
  <2>3. QED
    BY <1>2, <2>1, <2>2 DEF CreateConnect
<1>3. ASSUME NEW s \in Sessions, Connected(s) PROVE DescriptorInvariant'
  <2> DEFINE in == InConn(s)
             out == OutConn(s)
  <2>1. /\ in \in Sockets /\ out \in Sockets /\ in # out
        /\ \A x \in Sockets : x[1] = s <=> x = in \/ x = out
        /\ in[1] = s /\ in[2] = "in" /\ out[1] = s /\ out[2] = "out"
    BY DEF InConn, OutConn
  <2>2. /\ stage[s] = "connecting" /\ bev[out] = "live"
        /\ connected' = [connected EXCEPT ![out] = TRUE]
        /\ UNCHANGED <<file, fd, reused>>
        /\ \/ stage' = [stage EXCEPT ![s] = "relaying"] /\ bev' = bev
           \/ /\ stage' = [stage EXCEPT ![s] = "ended"]
              /\ bev' = [bev EXCEPT ![in] = "freed", ![out] = "freed"]
    BY <1>3 DEF Connected, HasEvents
  <2>3. bev[in] = "live"
    BY <2>1, <2>2 DEF DescriptorInvariant, BeventsOfSessions
  <2> HIDE DEF in, out
  <2>4. TypeOK'
    BY <2>1, <2>2 DEF DescriptorInvariant, TypeOK
  <2>5. NoLeak'
    BY <2>1, <2>2 DEF DescriptorInvariant, TypeOK, NoLeak
  <2>6. LosesOnlyReused'
    BY <2>1, <2>2 DEF DescriptorInvariant, TypeOK, LosesOnlyReused
  <2>7. BeventsOfSessions'
    BY <2>1, <2>2 DEF DescriptorInvariant, TypeOK, BeventsOfSessions
  <2>8. \A m \in Fds : Holders(m)' = Holders(m)
    BY <2>1, <2>2, <2>3 DEF DescriptorInvariant, TypeOK, Holders
  <2>9. SharedIsReused'
    BY <2>2, <2>8 DEF DescriptorInvariant, SharedIsReused
  <2>10. QED
    BY <2>4, <2>5, <2>6, <2>7, <2>9 DEF DescriptorInvariant
<1>4. ASSUME NEW s \in Sessions, ClientEnds(s) PROVE DescriptorInvariant'
  <2>1. stage[s] \notin {"unborn", "ended"}
    BY <1>4 DEF ClientEnds, HasEvents, DescriptorInvariant, BeventsOfSessions
  <2>2. QED
    BY <1>4, <2>1, EndKeepsInvariant DEF ClientEnds
<1>5. ASSUME NEW s \in Sessions, RemoteEnds(s) PROVE DescriptorInvariant'
  BY <1>5, EndKeepsInvariant DEF RemoteEnds
<1>6. ASSUME NEW x \in Sockets, Finalize(x) PROVE DescriptorInvariant'
  <2>1. fd[x] \in Fds /\ x \in Holders(fd[x])
    BY <1>6 DEF Finalize, DescriptorInvariant, BeventsOfSessions, Holders
  <2>2. TypeOK'
    BY <1>6 DEF DescriptorInvariant, TypeOK, Finalize
  <2>3. \A m \in Fds : file'[m] # NoSocket => file'[m] = file[m] /\ m # fd[x]
    BY <1>6, <2>1 DEF DescriptorInvariant, TypeOK, Finalize
  <2>4. NoLeak'
    BY <1>6, <2>3 DEF DescriptorInvariant, TypeOK, NoLeak, Finalize
  <2>5. ASSUME NEW y \in Sockets, bev'[y] = "live", file'[fd'[y]] # y
        PROVE  y \in reused'
    <3>1. bev[y] = "live" /\ fd'[y] = fd[y] /\ fd[y] \in Fds /\ y # x /\ reused' = reused
      BY <1>6, <2>5 DEF DescriptorInvariant, TypeOK, Finalize, BeventsOfSessions
    <3>2. CASE file[fd[y]] # y
      BY <3>1, <3>2 DEF DescriptorInvariant, LosesOnlyReused
    <3>3. CASE file[fd[y]] = y
      <4>1. fd[x] = fd[y]
        BY <1>6, <2>5, <3>1, <3>3 DEF DescriptorInvariant, TypeOK, Finalize
      <4>2. QED
        BY <2>1, <3>1, <3>3, <4>1 DEF DescriptorInvariant, SharedIsReused
    <3>4. QED
      BY <3>2, <3>3
  <2>6. LosesOnlyReused'
    BY <2>5 DEF LosesOnlyReused
  <2>7. BeventsOfSessions'
    BY <1>6 DEF DescriptorInvariant, TypeOK, BeventsOfSessions, Finalize
  <2>8. \A m \in Fds : Holders(m)' \subseteq Holders(m)
    BY <1>6 DEF DescriptorInvariant, TypeOK, Finalize, Holders
  <2>9. SharedIsReused'
    BY <1>6, <2>3, <2>8 DEF DescriptorInvariant, SharedIsReused, Finalize
  <2>10. QED
    BY <2>2, <2>4, <2>6, <2>7, <2>9 DEF DescriptorInvariant
<1>7. CASE UNCHANGED vars
  BY <1>7 DEF vars, DescriptorInvariant, TypeOK, NoLeak, LosesOnlyReused, BeventsOfSessions,
              SharedIsReused, Holders
<1>8. QED
  BY <1>1, <1>2, <1>3, <1>4, <1>5, <1>6, <1>7 DEF Next

\* At the start nothing is open.
LEMMA DescriptorInit == Init => DescriptorInvariant
  BY SocketParts DEF Init, DescriptorInvariant, TypeOK, NoLeak, LosesOnlyReused,
     BeventsOfSessions, SharedIsReused, Holders

-----------------------------------------------------------------------------
(* The theorems *)

\* The numbers the sockets believe they have and those the kernel has given them
\* disagree only as the invariant says.
THEOREM DescriptorsSafe == Spec => []DescriptorInvariant
<1>1. QED
  BY DescriptorInit, DescriptorStep, PTL DEF Spec

\* Whatever is closed twice, and however createConnect and onConnected fail, no
\* descriptor stays open without a session or a queued finalizer.
THEOREM NothingLeaks == Spec => []NoLeak
<1>1. DescriptorInvariant => NoLeak
  BY DEF DescriptorInvariant
<1>2. QED
  BY <1>1, DescriptorsSafe, PTL

\* A session that loses its socket to another's close had been given a number that
\* another bufferevent still had.
THEOREM OnlyReusedAreLost == Spec => []LosesOnlyReused
<1>1. DescriptorInvariant => LosesOnlyReused
  BY DEF DescriptorInvariant
<1>2. QED
  BY <1>1, DescriptorsSafe, PTL
=============================================================================
