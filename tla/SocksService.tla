---------------------------- MODULE SocksService ----------------------------
(* What the proxy promises to those it serves, without its objects, sockets and
   callbacks: a session is open and then over; the client is let through only
   after it has shown an account, told so only when the remote is there, and from
   then on either side is given what the other side sent. *)
EXTENDS Integers, Sequences

CONSTANTS
  Clients,     \* the clients that may come
  Accounts,    \* the <<user, password>> pairs that are let through
  Logins,      \* the <<user, password>> pairs clients try
  NoLogin,     \* no pair: nothing was shown yet
  Script       \* the replies of a handshake, in order

Sides == {"in", "out"}     \* the client and the remote
Ends == Clients \X Sides
Other(s) == IF s = "in" THEN "out" ELSE "in"

VARIABLES
  session,   \* each client's session: none, open or over
  login,     \* what the client has shown
  remote,    \* the connection made for it: none, connecting, open, failed or freed
  taken,     \* how many chunks were taken from each peer
  given      \* what each peer was given: replies, and chunks by their number

vars == <<session, login, remote, taken, given>>

Init ==
  /\ session = [i \in Clients |-> "none"]
  /\ login = [i \in Clients |-> NoLogin]
  /\ remote = [i \in Clients |-> "none"]
  /\ taken = [e \in Ends |-> 0]
  /\ given = [e \in Ends |-> <<>>]

Open(i) == session[i] = "open"

Accept(i) ==
  /\ session[i] = "none"
  /\ session' = [session EXCEPT ![i] = "open"]
  /\ UNCHANGED <<login, remote, taken, given>>

\* Only those with an open session lose it; what was connected for them goes too.
EndSessions(S) ==
  /\ session' = [i \in Clients |-> IF i \in S /\ Open(i) THEN "over" ELSE session[i]]
  /\ remote' = [i \in Clients |->
                  IF i \in S /\ remote[i] # "none" THEN "freed" ELSE remote[i]]

\* One session ends by itself, all of them with the process.
End(S) ==
  /\ S # {} /\ \A i \in S : Open(i)
  /\ EndSessions(S)
  /\ UNCHANGED <<login, taken, given>>

\* A client shows who it is, once; it may be shown the door at the same time.
ShowLogin(i) ==
  /\ Open(i) /\ login[i] = NoLogin /\ remote[i] = "none"
  /\ \E creds \in Logins : login' = [login EXCEPT ![i] = creds]
  /\ EndSessions({i}) \/ UNCHANGED <<session, remote>>
  /\ UNCHANGED <<taken, given>>

StartConnect(i) ==
  /\ Open(i) /\ remote[i] = "none"
  /\ login[i] \in Accounts
  /\ remote' = [remote EXCEPT ![i] = "connecting"]
  /\ UNCHANGED <<session, login, taken, given>>

EndConnect(i) ==
  /\ Open(i) /\ remote[i] = "connecting"
  /\ \E r \in {"open", "failed"} : remote' = [remote EXCEPT ![i] = r]
  /\ UNCHANGED <<session, login, taken, given>>

\* A chunk is taken from a peer that may be relayed.
Take(i, s) ==
  /\ Open(i) /\ remote[i] = "open"
  /\ taken' = [taken EXCEPT ![<<i, s>>] = @ + 1]
  /\ UNCHANGED <<session, login, remote, given>>

\* Chunks in the order they were taken from the other side.
InOrder(q, n) ==
  /\ \A k \in DOMAIN q : q[k].kind = "data" /\ q[k].n \in 1 .. n
  /\ \A j, k \in DOMAIN q : j < k => q[j].n < q[k].n

\* What a client may have been given: a part of the script, each reply when it is
\* true, and after the whole script the remote's data.
ForClient(i, q) ==
  LET n == Len(Script)
  IN  /\ \A k \in DOMAIN q : k <= n => q[k].kind = Script[k]
      /\ Len(q) >= 2 => login[i] \in Accounts
      /\ Len(q) >= 3 => remote[i] = "open"
      /\ InOrder(SubSeq(q, n + 1, Len(q)), taken[<<i, "out">>])

\* More is given to a peer; what was given stays given.
Give(i, s) ==
  /\ Open(i)
  /\ Len(given'[<<i, s>>]) > Len(given[<<i, s>>])
  /\ SubSeq(given'[<<i, s>>], 1, Len(given[<<i, s>>])) = given[<<i, s>>]
  /\ IF s = "in" THEN ForClient(i, given'[<<i, s>>])
                 ELSE InOrder(given'[<<i, s>>], taken[<<i, "in">>])
  /\ given' = [given EXCEPT ![<<i, s>>] = given'[<<i, s>>]]
  /\ UNCHANGED <<session, login, remote, taken>>

Next ==
  \/ \E i \in Clients : Accept(i) \/ ShowLogin(i) \/ StartConnect(i) \/ EndConnect(i)
  \/ \E i \in Clients, s \in Sides : Take(i, s) \/ Give(i, s)
  \/ \E S \in SUBSET Clients : End(S)

Spec == Init /\ [][Next]_vars
=============================================================================
