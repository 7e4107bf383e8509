------------------------------- MODULE Logins -------------------------------
(* The file of logins: SocksLoginPassAuthorizer::readFile and the stringSplit that
   takes its lines apart.

   A string is a sequence of characters and positions count from 0, as in the code;
   npos is -1. *)
EXTENDS Integers, Sequences, SequencesExt

NPos == -1
Comma == <<",">>

\* std::string::find and substr.
Find(str, part, from) ==
  LET at == {i \in from .. Len(str) - Len(part) : SubSeq(str, i + 1, i + Len(part)) = part}
  IN  IF at = {} THEN NPos ELSE CHOOSE i \in at : \A j \in at : i <= j

Substr(str, from, count) ==
  SubSeq(str, from + 1, IF count < 0 \/ from + count > Len(str) THEN Len(str) ELSE from + count)

\* The first field, and those of the loop, whose prev is where a field begins. substr
\* would throw if it began past the end of its string, where this function has no value.
StringSplit(str, delim) ==
  LET fields[prev \in 0 .. Len(str)] ==
        LET it == Find(str, delim, prev)
            field == Substr(str, prev, it - prev)
        IN  <<field>> \o IF it = NPos THEN <<>> ELSE fields[prev + Len(delim) + Len(field)]
      it == Find(str, delim, 0)
  IN  <<Substr(str, 0, it)>> \o IF it = NPos THEN <<>> ELSE fields[it + Len(delim)]

\* _userLoginPass[user] = password.
Stored(logins, user, password) ==
  {login \in logins : login[1] # user} \cup {<<user, password>>}

\* The <<user, password>> pairs of a file, which is a sequence of lines.
ReadFile(lines) ==
  LET logins[n \in 0 .. Len(lines)] ==
        IF n = 0 THEN {}
        ELSE LET fields == StringSplit(lines[n], Comma)
             IN  IF Len(fields) < 2 THEN logins[n - 1]
                 ELSE Stored(logins[n - 1], fields[1], fields[2])
  IN  logins[Len(lines)]

-----------------------------------------------------------------------------
(* What stringSplit and readFile should give *)

Includes(str, part) == Find(str, part, 0) # NPos

\* The fields with the delimiter between them are the line, and none of them has it:
\* nothing is lost at its start, its end or between two delimiters.
LosesNothing(line, delim) ==
  LET fields == StringSplit(line, delim) IN
    /\ FlattenSeq([i \in DOMAIN fields |-> fields[i] \o delim]) = line \o delim
    /\ \A i \in DOMAIN fields : ~Includes(fields[i], delim)

\* The line says that the user has the password: its first two fields are they.
Says(line, name, password) ==
  LET fields == name \o Comma \o password
  IN  /\ ~Includes(name, Comma) /\ ~Includes(password, Comma)
      /\ line = fields \/ IsPrefix(fields \o Comma, line)

\* The last line of the file that begins with the user says so.
LastSays(lines, name, password) ==
  \E n \in DOMAIN lines :
    /\ Says(lines[n], name, password)
    /\ \A m \in n + 1 .. Len(lines) : ~IsPrefix(name \o Comma, lines[m])
=============================================================================
