--------------------------- MODULE MCSocksServer ---------------------------
(* Small instances of SocksServer for TLC, with a file of logins. *)
EXTENDS SocksServerRefines, Logins, TLC

\* Ann has changed her password; the second line has none, the last has a third field.
MCFile == << <<"a", ",", "g">>, <<"b">>, <<"a", ",", "s", ",", "x">> >>
MCAccounts == ReadFile(MCFile)

\* Clients try the one login, the old password, and the user of the line without one.
MCLogins == {<< <<"a">>, <<"s">> >>, << <<"a">>, <<"g">> >>, << <<"b">>, <<>> >>}

\* Addresses are only compared.
AddrSymmetry == Permutations(Addrs)

-----------------------------------------------------------------------------
(* What stringSplit and readFile should give, over short lines and files *)

Lines(n) == BoundedSeq({",", "a", "b"}, n)

\* No line makes substr throw, and no field is lost or has a comma.
ASSUME SplitLosesNothing == \A line \in Lines(5) : LosesNothing(line, Comma)

\* A login is in what was read exactly if the last line about its user says so: a user
\* never has two passwords, and none that no line gives.
ASSUME LastLineWins ==
  \A file \in BoundedSeq(Lines(3), 2) : \A name, password \in Lines(2) :
    <<name, password>> \in ReadFile(file) <=> LastSays(file, name, password)
=============================================================================
