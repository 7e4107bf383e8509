-------------------------- MODULE SessionIdsProofs --------------------------
(* Proofs about SessionIds, for any number of session numbers, addresses and sockets. *)
EXTENDS SessionIds, TLAPS

\* Each session is in the table under its own number only.
NumbersAreKept ==
  /\ \A a \in Living : sessions[number[a]] = a
  /\ \A id \in Ids : sessions[id] # None =>
       sessions[id] \in Living /\ number[sessions[id]] = id

\* A session has a socket from when it asks for one to its end. The map has it too, and
\* may have one that nobody else holds; either way it was the holder's when it opened.
SocketsAreKept ==
  /\ \A a \in Addrs :
       /\ outConn[a] # None <=> stage[a] \in {"connecting", "relaying"}
       /\ outConn[a] # None => connections[a] = outConn[a] /\ user[outConn[a]] = a
       /\ connections[a] # None => user[connections[a]] \in {a, None}
  /\ \A k \in Socks :
       /\ Held(k, connections, outConn) => socket[k] # "unborn"
       /\ socket[k] = "opening" => Held(k, connections, outConn)

Inv ==
  /\ TypeOK
  /\ NumbersAreKept
  /\ SocketsAreKept
  /\ OpeningHasItsSession
  /\ WrongByReplacementOnly

\* A socket is either as before or let go, which only those nobody holds are.
LEMMA LetGoKeeps ==
  ASSUME NEW conns, NEW outs, NEW s, NEW k \in Socks
  PROVE  /\ Held(k, conns, outs) => LetGo(conns, outs, s)[k] = s[k]
         /\ ~Held(k, conns, outs) => LetGo(conns, outs, s)[k] \in {"unborn", "deleted"}
         /\ LetGo(conns, outs, s)[k] \in {s[k], "deleted"}
  BY DEF LetGo

\* Whoever has a proxy has a socket, which the end of the proxy closes.
LEMMA UnproxiedKeeps ==
  ASSUME Inv, NEW a \in Addrs, NEW k \in Socks
  PROVE  /\ Unproxied(a, socket)[k] \in {socket[k], "over"}
         /\ stage[a] = "relaying" /\ outConn[a] = k => Unproxied(a, socket)[k] = "over"
         /\ outConn[a] # k => Unproxied(a, socket)[k] = socket[k]
  BY DEF Unproxied, Inv, TypeOK

\* No two sessions have one socket.
LEMMA OutOfOne ==
  ASSUME Inv, NEW a \in Addrs, NEW b \in Addrs, outConn[a] = outConn[b], outConn[a] # None
  PROVE  a = b
  BY DEF Inv, SocketsAreKept

-----------------------------------------------------------------------------
(* A connection is accepted *)

\* What accepting a connection for a session at the address does, in terms of the
\* session that has the current number, if there is one.
Accepts(a) ==
  LET old == sessions[currentId] IN
  /\ a \notin Living
  /\ sessions' = [sessions EXCEPT ![currentId] = a]
  /\ number' = [number EXCEPT ![a] = currentId]
  /\ stage' = [b \in Addrs |-> CASE b = a -> "asking" [] b = old -> "free" [] OTHER -> stage[b]]
  /\ \A b \in Addrs : outConn'[b] = IF b = old THEN None ELSE outConn[b]
  /\ \A k \in Socks : user'[k] = IF old # None /\ stage[old] = "relaying" /\ outConn[old] = k
                                 THEN None ELSE user[k]
  /\ orphans \subseteq orphans'
  /\ old # None /\ stage[old] = "connecting" => outConn[old] \in orphans'
  /\ connections' = connections /\ crashed' = crashed

LEMMA NewIsAccepted ==
  ASSUME Inv, OnNewConnection
  PROVE  \E a \in Addrs : Accepts(a)
<1>1. sessions[currentId] = None => sessions[currentId] \notin Addrs
  BY NoneAssumption
<1>2. outConn \in [Addrs -> Socks \cup {None}] /\ user \in [Socks -> Addrs \cup {None}]
  BY DEF Inv, TypeOK
<1> DEFINE old == sessions[currentId]
<1>4. PICK a \in Addrs \ Living :
        /\ sessions' = [sessions EXCEPT ![currentId] = a]
        /\ number' = [number EXCEPT ![a] = currentId]
        /\ stage' = [b \in Addrs |-> CASE b = a -> "asking" [] b = old -> "free" [] OTHER -> stage[b]]
        /\ outConn' = IF old = None THEN outConn ELSE [outConn EXCEPT ![old] = None]
        /\ user' = IF old = None THEN user ELSE Unused(old)
        /\ orphans' = IF old # None /\ stage[old] = "connecting"
                      THEN orphans \cup {outConn[old]} ELSE orphans
        /\ connections' = connections /\ crashed' = crashed
  BY DEF OnNewConnection
<1>5. ASSUME NEW b \in Addrs PROVE outConn'[b] = IF b = old THEN None ELSE outConn[b]
  BY <1>1, <1>2, <1>4
<1>6. ASSUME NEW k \in Socks
      PROVE  user'[k] = IF old # None /\ stage[old] = "relaying" /\ outConn[old] = k
                        THEN None ELSE user[k]
  BY <1>2, <1>4 DEF Unused
<1>7. /\ orphans \subseteq orphans'
      /\ old # None /\ stage[old] = "connecting" => outConn[old] \in orphans'
  BY <1>4
<1>8. Accepts(a)
  BY <1>4, <1>5, <1>6, <1>7 DEF Accepts
<1>9. QED
  BY <1>8

\* The session of the current number is a living one, with that number only.
LEMMA Replaced ==
  ASSUME Inv, sessions[currentId] # None
  PROVE  /\ sessions[currentId] \in Living
         /\ number[sessions[currentId]] = currentId
  BY DEF Inv, TypeOK, NumbersAreKept

LEMMA NewKeepsNumbers ==
  ASSUME Inv, NEW a \in Addrs, Accepts(a)
  PROVE  NumbersAreKept'
<1>1. currentId \in Ids /\ sessions \in [Ids -> Addrs \cup {None}] /\ number \in [Addrs -> Ids]
      /\ None \notin Addrs
  BY NoneAssumption DEF Inv, TypeOK
<1>2. PICK old : old = sessions[currentId]
  OBVIOUS
<1>3. /\ a \notin Living
      /\ sessions' = [sessions EXCEPT ![currentId] = a]
      /\ number' = [number EXCEPT ![a] = currentId]
      /\ \A b \in Addrs : b \in Living' <=> b = a \/ (b \in Living /\ b # old)
  <2>1. a # old
    BY <1>1, <1>2, Replaced DEF Accepts
  <2>2. \A b \in Addrs : stage'[b] = IF b = a THEN "asking" ELSE IF b = old THEN "free" ELSE stage[b]
    BY <1>2, <2>1 DEF Accepts
  <2>3. QED
    BY <1>2, <2>2 DEF Accepts, Living
<1>4. \A b \in Living : sessions[number[b]] = b
  BY DEF Inv, NumbersAreKept
<1>5. \A id \in Ids : sessions[id] # None => sessions[id] \in Living /\ number[sessions[id]] = id
  BY DEF Inv, NumbersAreKept
<1>6. \A b : b \in Living => b \in Addrs
  BY DEF Living
<1>7. \A b \in Living' : sessions'[number'[b]] = b
  <2> SUFFICES ASSUME NEW b \in Living' PROVE sessions'[number'[b]] = b
    OBVIOUS
  <2>0. b \in Addrs
    BY DEF Living
  <2>1. CASE b = a
    BY <1>1, <1>3, <2>1
  <2>2. CASE b # a
    <3>1. b \in Living /\ b # old /\ number'[b] = number[b]
      BY <1>1, <1>3, <2>0, <2>2
    <3>2. number[b] # currentId
      BY <1>2, <1>4, <3>1
    <3>3. QED
      BY <1>1, <1>3, <1>4, <2>0, <3>1, <3>2
  <2>3. QED
    BY <2>1, <2>2
<1>8. ASSUME NEW id \in Ids, sessions'[id] # None
      PROVE  sessions'[id] \in Living' /\ number'[sessions'[id]] = id
  <2>1. CASE id = currentId
    BY <1>1, <1>3, <2>1
  <2>2. CASE id # currentId
    <3>1. sessions'[id] = sessions[id]
      BY <1>1, <1>3, <2>2
    <3>2. sessions[id] \in Living /\ number[sessions[id]] = id
      BY <1>5, <1>8, <3>1
    <3>3. sessions[id] # a /\ sessions[id] # old
      BY <1>1, <1>2, <1>3, <1>5, <1>6, <2>2, <3>2
    <3>4. QED
      BY <1>1, <1>3, <1>6, <3>1, <3>2, <3>3
  <2>3. QED
    BY <2>1, <2>2
<1>9. QED
  BY <1>7, <1>8 DEF NumbersAreKept

-----------------------------------------------------------------------------
(* A session goes, replaced or ended *)

\* What the end of the session at x, or its replacement, does to the sockets; None when
\* the new session replaces none. A socket that was opening for it is an orphan or gone.
Leaves(x) ==
  /\ \A b \in Addrs : outConn'[b] = IF b = x THEN None ELSE outConn[b]
  /\ \A b \in Addrs : /\ connections'[b] \in {connections[b], None}
                      /\ b # x => connections'[b] = connections[b]
  /\ \A b \in Addrs : /\ b = x => stage'[b] = "free"
                      /\ b # x => stage'[b] = stage[b] \/ (stage[b] = "free" /\ stage'[b] = "asking")
  /\ \A k \in Socks : /\ user'[k] \in {user[k], None}
                      /\ user'[k] # user[k] => x # None /\ outConn[x] = k
  /\ \A k \in Socks : /\ Held(k, connections', outConn') => socket'[k] \in {socket[k], "over"}
                      /\ ~Held(k, connections', outConn') => socket'[k] \in {"unborn", "deleted"}
                      /\ x # None /\ outConn[x] = k => k \in orphans' \/ socket'[k] # "opening"
  /\ orphans \subseteq orphans'

LEMMA LeavingKeepsSockets ==
  ASSUME Inv, NEW x \in Addrs \cup {None}, Leaves(x)
  PROVE  SocketsAreKept'
<1>1. None \notin Addrs /\ None \notin Socks
  BY NoneAssumption
<1>2. outConn \in [Addrs -> Socks \cup {None}] /\ connections \in [Addrs -> Socks \cup {None}]
  BY DEF Inv, TypeOK
<1>3. ASSUME NEW b \in Addrs
      PROVE  /\ outConn'[b] # None <=> stage'[b] \in {"connecting", "relaying"}
             /\ outConn'[b] # None => connections'[b] = outConn'[b] /\ user'[outConn'[b]] = b
             /\ connections'[b] # None => user'[connections'[b]] \in {b, None}
  <2>1. outConn'[b] # None <=> stage'[b] \in {"connecting", "relaying"}
    BY DEF Leaves, Inv, SocketsAreKept
  <2>2. ASSUME outConn'[b] # None
        PROVE  connections'[b] = outConn'[b] /\ user'[outConn'[b]] = b
    <3>1. b # x /\ outConn'[b] = outConn[b] /\ connections'[b] = connections[b]
      BY <2>2 DEF Leaves
    <3>2. connections[b] = outConn[b] /\ user[outConn[b]] = b /\ outConn[b] \in Socks
      BY <1>2, <2>2, <3>1 DEF Inv, SocketsAreKept
    <3>3. x # None => outConn[x] # outConn[b]
      BY <2>2, <3>1, OutOfOne
    <3>4. user'[outConn[b]] = user[outConn[b]]
      BY <3>2, <3>3 DEF Leaves
    <3>5. QED
      BY <3>1, <3>2, <3>4
  <2>3. ASSUME connections'[b] # None PROVE user'[connections'[b]] \in {b, None}
    <3>1. connections'[b] = connections[b] /\ connections[b] \in Socks
      BY <1>2, <2>3 DEF Leaves
    <3>2. user[connections[b]] \in {b, None}
      BY <2>3, <3>1 DEF Inv, SocketsAreKept
    <3>3. QED
      BY <3>1, <3>2 DEF Leaves
  <2>4. QED
    BY <2>1, <2>2, <2>3
<1>4. ASSUME NEW k \in Socks
      PROVE  /\ Held(k, connections', outConn') => socket'[k] # "unborn"
             /\ socket'[k] = "opening" => Held(k, connections', outConn')
  <2>1. Held(k, connections', outConn') => Held(k, connections, outConn)
    BY <1>1 DEF Leaves, Held
  <2>2. Held(k, connections, outConn) => socket[k] # "unborn"
    BY DEF Inv, SocketsAreKept
  <2>3. QED
    BY <2>1, <2>2 DEF Leaves
<1>5. QED
  BY <1>3, <1>4 DEF SocketsAreKept

LEMMA LeavingKeepsOpening ==
  ASSUME Inv, NEW x \in Addrs \cup {None}, Leaves(x)
  PROVE  OpeningHasItsSession'
<1> SUFFICES ASSUME NEW k \in Socks, socket'[k] = "opening", k \notin orphans'
             PROVE  user'[k] \in Living' /\ outConn'[user'[k]] = k
  BY DEF OpeningHasItsSession
<1>1. socket[k] = "opening" /\ k \notin orphans
  BY DEF Leaves
<1>2. user[k] \in Living /\ outConn[user[k]] = k
  BY <1>1 DEF Inv, OpeningHasItsSession
<1>3. user[k] \in Addrs /\ x # user[k] /\ user'[k] = user[k]
  <2>1. user[k] \in Addrs /\ user[k] # None
    BY <1>2, NoneAssumption DEF Living
  <2>2. x # None => outConn[x] # k
    BY DEF Leaves
  <2>3. QED
    BY <1>2, <2>1, <2>2 DEF Leaves
<1>4. outConn'[user[k]] = k /\ stage'[user[k]] # "free"
  BY <1>2, <1>3 DEF Leaves, Living
<1>5. QED
  BY <1>3, <1>4 DEF Living

LEMMA NewLeaves ==
  ASSUME Inv, OnNewConnection, NEW a \in Addrs, Accepts(a)
  PROVE  Leaves(sessions[currentId])
<1> DEFINE old == sessions[currentId]
<1>1. old # None => old \in Addrs /\ old \in Living
  BY Replaced DEF Living
<1>2. \A b \in Addrs : /\ outConn'[b] = IF b = old THEN None ELSE outConn[b]
                       /\ connections'[b] = connections[b]
  BY DEF Accepts
<1>3. ASSUME NEW b \in Addrs
      PROVE  /\ b = old => stage'[b] = "free"
             /\ b # old => stage'[b] = stage[b] \/ (stage[b] = "free" /\ stage'[b] = "asking")
  <2>1. a # old /\ stage[a] = "free"
    BY <1>1, NoneAssumption DEF Accepts, Living
  <2>2. stage'[b] = IF b = a THEN "asking" ELSE IF b = old THEN "free" ELSE stage[b]
    BY <2>1 DEF Accepts
  <2>3. QED
    BY <2>1, <2>2
<1>4. ASSUME NEW k \in Socks
      PROVE  /\ user'[k] \in {user[k], None}
             /\ user'[k] # user[k] => old # None /\ outConn[old] = k
  BY DEF Accepts
<1>5. socket' = LetGo(connections', outConn', IF old = None THEN socket ELSE Unproxied(old, socket))
  BY DEF OnNewConnection
<1>6. ASSUME NEW k \in Socks
      PROVE  /\ Held(k, connections', outConn') => socket'[k] \in {socket[k], "over"}
             /\ ~Held(k, connections', outConn') => socket'[k] \in {"unborn", "deleted"}
             /\ old # None /\ outConn[old] = k => k \in orphans' \/ socket'[k] # "opening"
  <2>1. CASE old = None
    BY <1>5, <2>1, LetGoKeeps
  <2>2. CASE old # None
    <3>1. socket' = LetGo(connections', outConn', Unproxied(old, socket))
      BY <1>5, <2>2
    <3>2. /\ Unproxied(old, socket)[k] \in {socket[k], "over"}
          /\ stage[old] = "relaying" /\ outConn[old] = k => Unproxied(old, socket)[k] = "over"
      BY <1>1, <2>2, UnproxiedKeeps
    <3>3. outConn[old] = k => stage[old] \in {"connecting", "relaying"}
      BY <1>1, <2>2, NoneAssumption DEF Inv, SocketsAreKept
    <3>4. stage[old] = "connecting" => outConn[old] \in orphans'
      BY <2>2 DEF Accepts
    <3>5. QED
      BY <3>1, <3>2, <3>3, <3>4, LetGoKeeps
  <2>3. QED
    BY <2>1, <2>2
<1>7. orphans \subseteq orphans'
  BY DEF Accepts
<1>8. QED
  BY <1>2, <1>3, <1>4, <1>6, <1>7 DEF Leaves

LEMMA EndLeaves ==
  ASSUME Inv, NEW a \in Addrs, SessionEnds(a)
  PROVE  Leaves(a)
<1>1. /\ connections' = [connections EXCEPT ![a] = None]
      /\ outConn' = [outConn EXCEPT ![a] = None]
      /\ stage' = [stage EXCEPT ![a] = "free"]
      /\ user' = Unused(a) /\ orphans' = orphans
      /\ socket' = LetGo(connections', outConn', Unproxied(a, socket))
  BY DEF SessionEnds, ClosedConnections
<1>2. /\ connections \in [Addrs -> Socks \cup {None}] /\ outConn \in [Addrs -> Socks \cup {None}]
      /\ stage \in [Addrs -> {"free", "asking", "connecting", "relaying"}]
      /\ a # None /\ None \notin Socks
  BY NoneAssumption DEF Inv, TypeOK
<1>3. ASSUME NEW b \in Addrs
      PROVE  /\ outConn'[b] = IF b = a THEN None ELSE outConn[b]
             /\ connections'[b] = IF b = a THEN None ELSE connections[b]
             /\ stage'[b] = IF b = a THEN "free" ELSE stage[b]
  BY <1>1, <1>2
<1>4. ASSUME NEW k \in Socks
      PROVE  /\ user'[k] \in {user[k], None}
             /\ user'[k] # user[k] => outConn[a] = k
  BY <1>1 DEF Unused
<1>5. ASSUME NEW k \in Socks
      PROVE  /\ Held(k, connections', outConn') => socket'[k] \in {socket[k], "over"}
             /\ ~Held(k, connections', outConn') => socket'[k] \in {"unborn", "deleted"}
             /\ outConn[a] = k => socket'[k] # "opening"
  <2>1. ASSUME outConn[a] = k PROVE ~Held(k, connections', outConn')
    <3>1. user[k] = a
      BY <1>2, <2>1 DEF Inv, SocketsAreKept
    <3>2. ASSUME NEW b \in Addrs, connections'[b] = k \/ outConn'[b] = k PROVE FALSE
      <4>1. b # a /\ (connections[b] = k \/ outConn[b] = k)
        BY <1>2, <1>3, <3>2
      <4>2. user[k] \in {b, None}
        BY <1>2, <4>1 DEF Inv, SocketsAreKept
      <4>3. QED
        BY <1>2, <3>1, <4>1, <4>2
    <3>3. QED
      BY <3>2 DEF Held
  <2>2. Unproxied(a, socket)[k] \in {socket[k], "over"}
    BY UnproxiedKeeps
  <2>3. QED
    BY <1>1, <2>1, <2>2, LetGoKeeps
<1>6. QED
  BY <1>1, <1>2, <1>3, <1>4, <1>5 DEF Leaves

LEMMA EndKeepsNumbers ==
  ASSUME Inv, NEW a \in Addrs, SessionEnds(a)
  PROVE  NumbersAreKept'
<1>1. /\ a \in Living /\ number' = number
      /\ sessions' = [sessions EXCEPT ![number[a]] = None]
      /\ stage' = [stage EXCEPT ![a] = "free"]
  BY DEF SessionEnds, TableAfter
<1>2. /\ sessions \in [Ids -> Addrs \cup {None}] /\ number \in [Addrs -> Ids]
      /\ stage \in [Addrs -> {"free", "asking", "connecting", "relaying"}]
      /\ \A b \in Living : sessions[number[b]] = b
      /\ \A id \in Ids : sessions[id] # None => sessions[id] \in Living /\ number[sessions[id]] = id
  BY DEF Inv, TypeOK, NumbersAreKept
<1>3. Living' = Living \ {a}
  BY <1>1, <1>2 DEF Living
<1>4. \A b \in Living : b \in Addrs
  BY DEF Living
<1>5. \A id \in Ids : sessions'[id] = IF id = number[a] THEN None ELSE sessions[id]
  BY <1>1, <1>2
<1>6. ASSUME NEW b \in Living' PROVE sessions'[number'[b]] = b
  <2>1. b \in Living /\ b # a /\ number[b] \in Ids /\ sessions[number[b]] = b
    BY <1>2, <1>3, <1>4
  <2>2. number[b] # number[a]
    BY <1>1, <1>2, <2>1
  <2>3. QED
    BY <1>1, <1>5, <2>1, <2>2
<1>7. ASSUME NEW id \in Ids, sessions'[id] # None
      PROVE  sessions'[id] \in Living' /\ number'[sessions'[id]] = id
  <2>1. id # number[a] /\ sessions'[id] = sessions[id]
    BY <1>5, <1>7
  <2>2. sessions[id] \in Living /\ number[sessions[id]] = id
    BY <1>2, <1>7, <2>1
  <2>3. QED
    BY <1>1, <1>3, <2>1, <2>2
<1>8. QED
  BY <1>6, <1>7 DEF NumbersAreKept

-----------------------------------------------------------------------------
(* The other steps *)

\* A session asks for its socket: the entry of its address is replaced.
LEMMA CreateKeeps ==
  ASSUME Inv, NEW a \in Addrs, CreateNewConnection(a)
  PROVE  SocketsAreKept' /\ OpeningHasItsSession'
<1>1. PICK k \in Socks :
        /\ socket[k] = "unborn"
        /\ connections' = [connections EXCEPT ![a] = k]
        /\ outConn' = [outConn EXCEPT ![a] = k]
        /\ socket' = LetGo(connections', outConn', [socket EXCEPT ![k] = "opening"])
        /\ user' = [user EXCEPT ![k] = a]
        /\ stage' = [stage EXCEPT ![a] = "connecting"]
        /\ stage[a] = "asking" /\ orphans' = orphans
  BY DEF CreateNewConnection, EntrySet
<1>2. /\ connections \in [Addrs -> Socks \cup {None}] /\ outConn \in [Addrs -> Socks \cup {None}]
      /\ stage \in [Addrs -> {"free", "asking", "connecting", "relaying"}]
      /\ user \in [Socks -> Addrs \cup {None}] /\ DOMAIN socket = Socks
      /\ None \notin Addrs /\ None \notin Socks
  BY NoneAssumption DEF Inv, TypeOK
<1>3. ASSUME NEW b \in Addrs
      PROVE  /\ outConn'[b] = IF b = a THEN k ELSE outConn[b]
             /\ connections'[b] = IF b = a THEN k ELSE connections[b]
             /\ stage'[b] = IF b = a THEN "connecting" ELSE stage[b]
             /\ outConn[b] # k /\ connections[b] # k
  <2>1. outConn[b] # k /\ connections[b] # k
    BY <1>1 DEF Inv, SocketsAreKept, Held
  <2>2. QED
    BY <1>1, <1>2, <2>1
<1>4. ASSUME NEW j \in Socks
      PROVE  /\ user'[j] = IF j = k THEN a ELSE user[j]
             /\ [socket EXCEPT ![k] = "opening"][j] = IF j = k THEN "opening" ELSE socket[j]
  BY <1>1, <1>2
<1>5. ASSUME NEW b \in Addrs
      PROVE  /\ outConn'[b] # None <=> stage'[b] \in {"connecting", "relaying"}
             /\ outConn'[b] # None => connections'[b] = outConn'[b] /\ user'[outConn'[b]] = b
             /\ connections'[b] # None => user'[connections'[b]] \in {b, None}
  <2>1. CASE b = a
    BY <1>2, <1>3, <1>4, <2>1
  <2>2. CASE b # a
    <3>1. /\ outConn[b] # None <=> stage[b] \in {"connecting", "relaying"}
          /\ outConn[b] # None => connections[b] = outConn[b] /\ user[outConn[b]] = b
          /\ connections[b] # None => user[connections[b]] \in {b, None}
      BY DEF Inv, SocketsAreKept
    <3>2. /\ outConn'[b] = outConn[b] /\ connections'[b] = connections[b]
          /\ stage'[b] = stage[b]
      BY <1>3, <2>2
    <3>3. /\ outConn[b] # None => user'[outConn[b]] = user[outConn[b]]
          /\ connections[b] # None => user'[connections[b]] = user[connections[b]]
      BY <1>2, <1>3, <1>4
    <3>4. QED
      BY <3>1, <3>2, <3>3
  <2>3. QED
    BY <2>1, <2>2
<1>6. ASSUME NEW j \in Socks
      PROVE  /\ Held(j, connections', outConn') => socket'[j] # "unborn"
             /\ socket'[j] = "opening" => Held(j, connections', outConn')
  <2>1. /\ Held(j, connections', outConn') =>
             socket'[j] = IF j = k THEN "opening" ELSE socket[j]
        /\ ~Held(j, connections', outConn') => socket'[j] \in {"unborn", "deleted"}
    <3>1. PICK s : s = [socket EXCEPT ![k] = "opening"]
      OBVIOUS
    <3>2. socket' = LetGo(connections', outConn', s)
      BY <1>1, <3>1
    <3>3. s[j] = IF j = k THEN "opening" ELSE socket[j]
      BY <1>4, <3>1
    <3>4. QED
      BY <3>2, <3>3, LetGoKeeps
  <2>2. j # k /\ Held(j, connections', outConn') => Held(j, connections, outConn)
    BY <1>3 DEF Held
  <2>3. Held(j, connections, outConn) => socket[j] # "unborn"
    BY DEF Inv, SocketsAreKept
  <2>4. QED
    BY <1>4, <2>1, <2>2, <2>3
<1>7. ASSUME NEW j \in Socks, socket'[j] = "opening", j \notin orphans'
      PROVE  user'[j] \in Living' /\ outConn'[user'[j]] = j
  <2>1. CASE j = k
    BY <1>3, <1>4, <2>1 DEF Living
  <2>2. CASE j # k
    <3>1. socket[j] = "opening"
      BY <1>1, <1>4, <1>7, <2>2, LetGoKeeps, ZenonT(30)
    <3>2. user[j] \in Living /\ outConn[user[j]] = j /\ user'[j] = user[j]
      BY <1>1, <1>4, <1>7, <2>2, <3>1 DEF Inv, OpeningHasItsSession
    <3>3. user[j] # a
      BY <1>1, <1>2, <3>2 DEF Inv, SocketsAreKept
    <3>4. QED
      BY <1>3, <3>2, <3>3 DEF Living
  <2>3. QED
    BY <2>1, <2>2
<1>8. QED
  BY <1>5, <1>6, <1>7 DEF SocketsAreKept, OpeningHasItsSession

\* A connect that succeeds: the socket becomes its session's proxy's.
LEMMA ConnectedKeeps ==
  ASSUME Inv, NEW k \in Socks, Connected(k)
  PROVE  NumbersAreKept' /\ SocketsAreKept' /\ OpeningHasItsSession'
<1>1. PICK a : a = user[k]
  OBVIOUS
<1>2. /\ a \in Living /\ outConn[a] = k /\ socket[k] = "opening"
      /\ stage' = [stage EXCEPT ![a] = "relaying"]
      /\ socket' = [socket EXCEPT ![k] = "up"]
      /\ UNCHANGED <<sessions, number, outConn, connections, user, orphans>>
  BY <1>1 DEF Connected, Reports
<1>3. /\ stage \in [Addrs -> {"free", "asking", "connecting", "relaying"}]
      /\ DOMAIN socket = Socks /\ a \in Addrs /\ None \notin Socks
  BY <1>2, NoneAssumption DEF Inv, TypeOK, Living
<1>4. Living' = Living
  BY <1>2, <1>3 DEF Living
<1>5. stage[a] \in {"connecting", "relaying"}
  BY <1>2, <1>3 DEF Inv, SocketsAreKept
<1>6. NumbersAreKept'
  BY <1>2, <1>4 DEF Inv, NumbersAreKept, Ids
<1>7. SocketsAreKept'
  <2>1. \A b \in Addrs : stage'[b] \in {"connecting", "relaying"}
                         <=> stage[b] \in {"connecting", "relaying"}
    BY <1>2, <1>3, <1>5
  <2>2. \A j \in Socks : socket'[j] = IF j = k THEN "up" ELSE socket[j]
    BY <1>2, <1>3
  <2>3. \A j \in Socks : Held(j, connections', outConn') <=> Held(j, connections, outConn)
    BY <1>2
  <2>4. QED
    BY <1>2, <2>1, <2>2, <2>3 DEF Inv, SocketsAreKept
<1>8. OpeningHasItsSession'
  BY <1>2, <1>3, <1>4 DEF Inv, OpeningHasItsSession
<1>9. QED
  BY <1>6, <1>7, <1>8

LEMMA FailKeeps ==
  ASSUME Inv, NEW k \in Socks, ConnectFails(k)
  PROVE  NumbersAreKept' /\ SocketsAreKept' /\ OpeningHasItsSession'
<1>1. /\ socket' = [socket EXCEPT ![k] = "over"]
      /\ UNCHANGED <<sessions, stage, number, outConn, connections, user, orphans>>
  BY DEF ConnectFails
<1>2. \A j \in Socks : socket'[j] = IF j = k THEN "over" ELSE socket[j]
  BY <1>1 DEF Inv, TypeOK
<1>3. Living' = Living
  BY <1>1 DEF Living
<1>4. \A j \in Socks : Held(j, connections', outConn') <=> Held(j, connections, outConn)
  BY <1>1
<1>5. SocketsAreKept'
  BY <1>1, <1>2, <1>4 DEF Inv, SocketsAreKept
<1>6. NumbersAreKept'
  BY <1>1, <1>3 DEF Inv, NumbersAreKept, Ids
<1>7. OpeningHasItsSession'
  BY <1>1, <1>2, <1>3 DEF Inv, OpeningHasItsSession
<1>8. QED
  BY <1>5, <1>6, <1>7

\* Types, one action at a time.
LEMMA TypeStep == Inv /\ [Next]_vars => TypeOK'
<1> SUFFICES ASSUME Inv, [Next]_vars PROVE TypeOK'
  OBVIOUS
<1> USE DEF TypeOK
<1>1. TypeOK
  BY DEF Inv
<1>2. CASE UNCHANGED vars
  BY <1>1, <1>2 DEF vars, Ids
<1>3. ASSUME NEW conns \in [Addrs -> Socks \cup {None}], NEW outs,
             NEW s \in [Socks -> {"unborn", "opening", "up", "over", "deleted"}]
      PROVE  LetGo(conns, outs, s) \in [Socks -> {"unborn", "opening", "up", "over", "deleted"}]
  BY <1>3 DEF LetGo
<1>4. ASSUME NEW a \in Addrs
      PROVE  /\ Unproxied(a, socket) \in [Socks -> {"unborn", "opening", "up", "over", "deleted"}]
             /\ Unused(a) \in [Socks -> Addrs \cup {None}]
  BY <1>1 DEF Unproxied, Unused
<1>5. CASE OnNewConnection
  <2>1. PICK old : old = sessions[currentId]
    OBVIOUS
  <2>2. old # None => old \in Addrs /\ old \in Living
    BY <2>1, Replaced DEF Living
  <2>3. PICK a \in Addrs : Accepts(a)
    BY <1>5, NewIsAccepted
  <2>4. /\ currentId' = (currentId + 1) % IdMod /\ connections' = connections
        /\ outConn' = IF old = None THEN outConn ELSE [outConn EXCEPT ![old] = None]
        /\ user' = IF old = None THEN user ELSE Unused(old)
        /\ socket' = LetGo(connections, outConn', IF old = None THEN socket ELSE Unproxied(old, socket))
        /\ orphans' = IF old # None /\ stage[old] = "connecting"
                      THEN orphans \cup {outConn[old]} ELSE orphans
    BY <1>5, <2>1 DEF OnNewConnection
  <2>5. currentId' \in Ids
    BY <1>1, <2>4, IdModAssumption DEF Ids
  <2>6. outConn' \in [Addrs -> Socks \cup {None}] /\ user' \in [Socks -> Addrs \cup {None}]
    BY <1>1, <1>4, <2>2, <2>4
  <2>7. socket' \in [Socks -> {"unborn", "opening", "up", "over", "deleted"}]
    <3>1. CASE old = None
      BY <1>1, <1>3, <2>4, <3>1
    <3>2. CASE old # None
      BY <1>1, <1>3, <1>4, <2>2, <2>4, <3>2
    <3>3. QED
      BY <3>1, <3>2
  <2>8. orphans' \subseteq Socks
    <3>1. old # None /\ stage[old] = "connecting" => outConn[old] \in Socks
      BY <1>1, <2>2 DEF Inv, SocketsAreKept
    <3>2. QED
      BY <1>1, <2>4, <3>1
  <2>9. /\ sessions' \in [Ids -> Addrs \cup {None}] /\ number' \in [Addrs -> Ids]
        /\ Ids' = Ids
    BY <1>1, <2>3 DEF Accepts, Ids
  <2>10. stage' \in [Addrs -> {"free", "asking", "connecting", "relaying"}]
    <3>1. /\ a # old
          /\ stage' = [b \in Addrs |-> CASE b = a -> "asking" [] b = old -> "free"
                                        [] OTHER -> stage[b]]
      BY <2>1, <2>2, <2>3, NoneAssumption DEF Accepts
    <3>2. QED
      BY <1>1, <3>1
  <2>11. QED
    BY <1>1, <2>4, <2>5, <2>6, <2>7, <2>8, <2>9, <2>10
<1>6. ASSUME NEW a \in Addrs, CreateNewConnection(a) PROVE TypeOK'
  <2>1. PICK k \in Socks :
          /\ connections' = [connections EXCEPT ![a] = k]
          /\ outConn' = [outConn EXCEPT ![a] = k]
          /\ socket' = LetGo(connections', outConn', [socket EXCEPT ![k] = "opening"])
          /\ user' = [user EXCEPT ![k] = a]
          /\ stage' = [stage EXCEPT ![a] = "connecting"]
          /\ UNCHANGED <<currentId, sessions, number, orphans>>
    BY <1>6 DEF CreateNewConnection, EntrySet
  <2>2. /\ connections' \in [Addrs -> Socks \cup {None}] /\ outConn' \in [Addrs -> Socks \cup {None}]
        /\ user' \in [Socks -> Addrs \cup {None}]
        /\ stage' \in [Addrs -> {"free", "asking", "connecting", "relaying"}]
    BY <1>1, <2>1
  <2>3. socket' \in [Socks -> {"unborn", "opening", "up", "over", "deleted"}]
    BY <1>1, <1>3, <2>1, <2>2
  <2>4. QED
    BY <1>1, <2>1, <2>2, <2>3 DEF Ids
<1>7. ASSUME NEW a \in Addrs, SessionEnds(a) PROVE TypeOK'
  BY <1>1, <1>3, <1>4, <1>7 DEF SessionEnds, ClosedConnections, TableAfter, Ids
<1>8. ASSUME NEW k \in Socks, Connected(k) PROVE TypeOK'
  BY <1>1, <1>8 DEF Connected, Ids
<1>9. ASSUME NEW k \in Socks, ConnectedWrong(k) \/ ConnectFails(k) PROVE TypeOK'
  BY <1>1, <1>9 DEF ConnectedWrong, ConnectFails, Ids
<1>10. QED
  BY <1>2, <1>5, <1>6, <1>7, <1>8, <1>9 DEF Next

-----------------------------------------------------------------------------
(* The invariant and the theorems *)

\* Only an orphan's report can go wrong, and orphans stay known.
LEMMA WrongStep == Inv /\ [Next]_vars => WrongByReplacementOnly'
<1> SUFFICES ASSUME Inv, [Next]_vars PROVE WrongByReplacementOnly'
  OBVIOUS
<1>1. CASE crashed' = crashed /\ orphans \subseteq orphans'
  BY <1>1 DEF Inv, WrongByReplacementOnly
<1>2. CASE OnNewConnection
  <2>1. PICK a \in Addrs : Accepts(a)
    BY <1>2, NewIsAccepted
  <2>2. QED
    BY <1>1, <2>1 DEF Accepts
<1>3. ASSUME NEW a \in Addrs, CreateNewConnection(a) \/ SessionEnds(a)
      PROVE  WrongByReplacementOnly'
  BY <1>1, <1>3 DEF CreateNewConnection, SessionEnds
<1>4. ASSUME NEW k \in Socks, Connected(k) \/ ConnectedWrong(k) \/ ConnectFails(k)
      PROVE  WrongByReplacementOnly'
  <2>1. orphans' = orphans
    BY <1>4 DEF Connected, ConnectedWrong, ConnectFails
  <2>2. CASE k \in orphans
    BY <2>1, <2>2 DEF WrongByReplacementOnly
  <2>3. CASE k \notin orphans
    <3>1. socket[k] = "opening" /\ ~crashed
      BY <1>4 DEF Connected, ConnectedWrong, ConnectFails, Reports
    <3>2. user[k] \in Living /\ outConn[user[k]] = k
      BY <2>3, <3>1 DEF Inv, OpeningHasItsSession
    <3>3. ~crashed'
      BY <1>4, <3>1, <3>2 DEF Connected, ConnectedWrong, ConnectFails
    <3>4. QED
      BY <3>3 DEF WrongByReplacementOnly
  <2>4. QED
    BY <2>2, <2>3
<1>5. CASE UNCHANGED vars
  BY <1>1, <1>5 DEF vars
<1>6. QED
  BY <1>2, <1>3, <1>4, <1>5 DEF Next

LEMMA TablesStep ==
  Inv /\ [Next]_vars => NumbersAreKept' /\ SocketsAreKept' /\ OpeningHasItsSession'
<1> SUFFICES ASSUME Inv, [Next]_vars
             PROVE  NumbersAreKept' /\ SocketsAreKept' /\ OpeningHasItsSession'
  OBVIOUS
<1>1. CASE OnNewConnection
  <2>1. PICK a \in Addrs : Accepts(a)
    BY <1>1, NewIsAccepted
  <2>2. NumbersAreKept'
    BY <2>1, NewKeepsNumbers
  <2>3. PICK old : old = sessions[currentId]
    OBVIOUS
  <2>4. Leaves(old) /\ old \in Addrs \cup {None}
    BY <1>1, <2>1, <2>3, NewLeaves DEF Inv, TypeOK
  <2>5. QED
    BY <2>2, <2>4, LeavingKeepsSockets, LeavingKeepsOpening
<1>2. ASSUME NEW a \in Addrs, SessionEnds(a)
      PROVE  NumbersAreKept' /\ SocketsAreKept' /\ OpeningHasItsSession'
  BY <1>2, EndLeaves, EndKeepsNumbers, LeavingKeepsSockets, LeavingKeepsOpening
<1>3. ASSUME NEW a \in Addrs, CreateNewConnection(a)
      PROVE  NumbersAreKept' /\ SocketsAreKept' /\ OpeningHasItsSession'
  <2>1. /\ UNCHANGED <<sessions, number>> /\ a \in Living
        /\ stage' = [stage EXCEPT ![a] = "connecting"]
    BY <1>3 DEF CreateNewConnection, Living
  <2>2. Living' = Living
    BY <2>1 DEF Living, Inv, TypeOK
  <2>3. NumbersAreKept'
    BY <2>1, <2>2 DEF Inv, NumbersAreKept, Ids
  <2>4. QED
    BY <1>3, <2>3, CreateKeeps
<1>4. ASSUME NEW k \in Socks, ConnectedWrong(k)
      PROVE  NumbersAreKept' /\ SocketsAreKept' /\ OpeningHasItsSession'
  <2>1. UNCHANGED <<sessions, stage, number, outConn, connections, socket, user, orphans>>
    BY <1>4 DEF ConnectedWrong
  <2>2. Living' = Living /\ Ids' = Ids
    BY <2>1 DEF Living, Ids
  <2>3. \A j : Held(j, connections', outConn') <=> Held(j, connections, outConn)
    BY <2>1
  <2>4. NumbersAreKept'
    BY <2>1, <2>2 DEF Inv, NumbersAreKept
  <2>5. SocketsAreKept'
    BY <2>1, <2>3 DEF Inv, SocketsAreKept
  <2>6. OpeningHasItsSession'
    BY <2>1, <2>2 DEF Inv, OpeningHasItsSession
  <2>7. QED
    BY <2>4, <2>5, <2>6
<1>5. CASE UNCHANGED vars
  BY <1>5 DEF vars, Inv, NumbersAreKept, SocketsAreKept, OpeningHasItsSession, Living, Ids, Held
<1>6. QED
  BY <1>1, <1>2, <1>3, <1>4, <1>5, ConnectedKeeps, FailKeeps DEF Next

LEMMA Invariant == Spec => []Inv
<1>1. Init => Inv
  <2> SUFFICES ASSUME Init PROVE Inv
    OBVIOUS
  <2>1. TypeOK
    BY IdModAssumption DEF Init, TypeOK, Ids
  <2>2. Living = {} /\ \A k \in Socks : ~Held(k, connections, outConn)
    BY NoneAssumption DEF Init, Living, Held
  <2>3. NumbersAreKept /\ OpeningHasItsSession /\ WrongByReplacementOnly
    BY <2>2 DEF Init, NumbersAreKept, OpeningHasItsSession, WrongByReplacementOnly
  <2>4. SocketsAreKept
    BY <2>2 DEF Init, SocketsAreKept
  <2>5. QED
    BY <2>1, <2>3, <2>4 DEF Inv
<1>2. Inv /\ [Next]_vars => Inv'
  BY TypeStep, TablesStep, WrongStep DEF Inv
<1>3. QED
  BY <1>1, <1>2, PTL DEF Spec

\* The table has each living session under its own number, and nothing else, however
\* often the numbers wrap.
THEOREM TableHolds == Spec => []TableIsTheLiving
<1>1. Inv => TableIsTheLiving
  <2> SUFFICES ASSUME Inv, NEW a \in Addrs
               PROVE  a \in Living <=> \E id \in Ids : sessions[id] = a /\ number[a] = id
    BY DEF TableIsTheLiving
  <2>1. a # None /\ number[a] \in Ids
    BY NoneAssumption DEF Inv, TypeOK
  <2>2. QED
    BY <2>1 DEF Inv, NumbersAreKept
<1>2. QED
  BY <1>1, Invariant, PTL

\* A socket that opens reports to the session that asked for it, or after a replacement
\* to one that has asked for nothing yet: the map's entry of an address goes when the
\* session there asks for a socket, and with it the orphan.
THEOREM SocketsReport == Spec => []OpeningKnowsItsSession
<1>1. Inv => OpeningKnowsItsSession
  <2> SUFFICES ASSUME Inv, NEW k \in Socks, socket[k] = "opening", user[k] \in Living,
                      outConn[user[k]] # k
               PROVE  stage[user[k]] = "asking"
    BY DEF OpeningKnowsItsSession, OrphanMeetsTheAsking, Inv
  <2>1. PICK b \in Addrs : connections[b] = k \/ outConn[b] = k
    BY DEF Inv, SocketsAreKept, Held
  <2>2. user[k] # None /\ user[k] \in Addrs /\ k # None
    BY NoneAssumption DEF Living
  <2>3. user[k] = b /\ connections[b] = k
    BY <2>1, <2>2 DEF Inv, SocketsAreKept
  <2>4. outConn[user[k]] = None
    BY <2>2, <2>3 DEF Inv, SocketsAreKept
  <2>5. QED
    BY <2>2, <2>4 DEF Inv, SocketsAreKept, TypeOK, Living
<1>2. QED
  BY <1>1, Invariant, PTL

\* The program touches a deleted session, or calls one for a socket it never asked for,
\* only if a session was replaced while its socket opened.
THEOREM WrongByReplacement == Spec => []WrongByReplacementOnly
<1>1. Inv => WrongByReplacementOnly
  BY DEF Inv
<1>2. QED
  BY <1>1, Invariant, PTL
=============================================================================
