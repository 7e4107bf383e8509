----------------------------- MODULE MemBuffers -----------------------------
(* MemReader, MemWriter and Serialize over one buffer, as SerializeBuffer holds it.

   A byte has B values and a size_t M. Values of several bytes are copied with
   memcpy, so they are in the byte order of the machine, taken as little-endian. The
   loop of read(std::vector) takes a step for each element; the elements are strings.
   Operators whose comment begins with Fault are not part of the model: each is a
   plausible slip in the operator below it. *)
EXTENDS Integers, Sequences, SequencesExt

CONSTANTS
  B,      \* values of a byte
  M,      \* values of a size_t
  N,      \* MemReader::_size, MemWriter::_size
  Sizes,  \* bound: sizes asked of readData and writeData
  Contents   \* bound: byte sequences that are written

Byte == 0 .. B - 1

ASSUME SizesAssumption ==
  /\ B \in Nat \ {0, 1} /\ M \in Nat \ {0} /\ N \in Nat
  /\ 8 + N < M /\ N + N + 1 < M /\ B * B + N <= M
  /\ Sizes \subseteq 0 .. M - 1
ASSUME ContentsAssumption == \A bytes \in Contents : bytes \in Seq(Byte) /\ Len(bytes) + N < M

Widths == {1, 2, 4, 8}
Reads == {"bool", "scalar", "string", "optional", "vector"}
None == [none |-> TRUE]
NoVector == [left |-> 0, items |-> <<>>]

VARIABLES
  data,     \* the buffer
  rpos,     \* MemReader::_pos - _data
  wpos,     \* MemWriter::_pos - _data
  vec,      \* the vector that is being read: elements left, and those it has
  overrun,  \* a memcpy has left the buffer
  last      \* the last call: where its cursor was, what it returned and gave

vars == <<data, rpos, wpos, vec, overrun, last>>

Init ==
  /\ data \in [1 .. N -> Byte]
  /\ rpos = 0 /\ wpos = 0
  /\ vec = NoVector
  /\ overrun = FALSE
  /\ last = [op |-> "none", from |-> 0, ok |-> FALSE, val |-> None]

Free == vec.left = 0 /\ ~overrun

\* Fault: the size is compared with what is left, as signed numbers.
FitsSigned(p, n) == (IF n >= M \div 2 THEN n - M ELSE n) <= N - p

\* (_pos - _data) + size > _size fails; the sum may wrap.
Fits(p, n) == (p + n) % M <= N

Field(p, n) == SubSeq(data, p + 1, p + n)

\* The last byte counts most.
LittleEndian(s) ==
  LET sum[i \in 0 .. Len(s)] == IF i = 0 THEN 0 ELSE s[Len(s) + 1 - i] + B * sum[i - 1]
  IN  sum[Len(s)]

\* readUint16 at p, if it fits.
Uint16At(p) == data[p + 1] + data[p + 2] * B

\* A call that returns, leaves the reader at p and gives v.
Returns(op, ok, p, v) ==
  /\ rpos' = p
  /\ last' = [op |-> op, from |-> rpos, ok |-> ok, val |-> v]
  /\ UNCHANGED <<data, wpos, overrun>>

-----------------------------------------------------------------------------
(* MemReader *)

SetPos(p) ==
  /\ Free
  /\ IF p > N THEN Returns("setPos", FALSE, rpos, p) ELSE Returns("setPos", TRUE, p, p)
  /\ UNCHANGED vec

\* The sum is signed and compared as unsigned, so one below 0 is above _size.
Shift(v) ==
  /\ Free
  /\ IF (rpos + v) % M >= N THEN Returns("shift", FALSE, rpos, v)
     ELSE Returns("shift", TRUE, rpos + v, v)
  /\ UNCHANGED vec

ShiftFromStart(v) ==
  /\ Free
  /\ IF v >= N THEN Returns("shiftFromStart", FALSE, rpos, v)
     ELSE Returns("shiftFromStart", TRUE, v, v)
  /\ UNCHANGED vec

\* With a size near M the sum wraps, and memcpy reads past the end.
ReadData(n) ==
  /\ Free
  /\ \/ ~Fits(rpos, n) /\ Returns("data", FALSE, rpos, n)
     \/ Fits(rpos, n) /\ rpos + n <= N /\ Returns("data", TRUE, rpos + n, n)
     \/ /\ Fits(rpos, n) /\ rpos + n > N
        /\ overrun' = TRUE
        /\ last' = [op |-> "data", from |-> rpos, ok |-> FALSE, val |-> n]
        /\ UNCHANGED <<data, rpos, wpos>>
  /\ UNCHANGED vec

\* readUint8, readUint16, readUint32, readUint64 and their Serialize::read.
ReadScalar(w) ==
  /\ Free
  /\ IF Fits(rpos, w)
     THEN Returns("scalar", TRUE, rpos + w, LittleEndian(Field(rpos, w)))
     ELSE Returns("scalar", FALSE, rpos, w)
  /\ UNCHANGED vec

-----------------------------------------------------------------------------
(* MemWriter *)

\* writeUint8 to writeUint64 and writeData of what is in memory.
Write(bytes) ==
  /\ Free
  /\ IF Fits(wpos, Len(bytes))
     THEN /\ data' = [i \in 1 .. N |->
                        IF i - wpos \in DOMAIN bytes THEN bytes[i - wpos] ELSE data[i]]
          /\ wpos' = wpos + Len(bytes)
     ELSE UNCHANGED <<data, wpos>>
  /\ last' = [op |-> "write", from |-> wpos, ok |-> Fits(wpos, Len(bytes)), val |-> bytes]
  /\ UNCHANGED <<rpos, vec, overrun>>

\* writeData with a size no memory has.
WriteHuge(n) ==
  /\ Free
  /\ wpos + n > N
  /\ overrun' = Fits(wpos, n)
  /\ last' = [op |-> "data", from |-> wpos, ok |-> FALSE, val |-> n]
  /\ UNCHANGED <<data, rpos, wpos, vec>>

WriterShiftFromStart(v) ==
  /\ Free
  /\ wpos' = IF v >= N THEN wpos ELSE v
  /\ last' = [op |-> "shiftFromStart", from |-> wpos, ok |-> v < N, val |-> v]
  /\ UNCHANGED <<data, rpos, vec, overrun>>

-----------------------------------------------------------------------------
(* Serialize *)

ReadBool ==
  /\ Free
  /\ IF Fits(rpos, 1)
     THEN Returns("bool", TRUE, rpos + 1, Field(rpos, 1) # <<0>>)
     ELSE Returns("bool", FALSE, rpos, None)
  /\ UNCHANGED vec

\* A string at p: its size is taken even if its bytes are not there.
StringAt(p) ==
  LET size == Uint16At(p) IN
  IF ~Fits(p, 2) THEN [ok |-> FALSE, pos |-> p, val |-> <<>>]
  ELSE IF ~Fits(p + 2, size) THEN [ok |-> FALSE, pos |-> p + 2, val |-> <<>>]
  ELSE [ok |-> TRUE, pos |-> p + 2 + size, val |-> Field(p + 2, size)]

ReadString ==
  /\ Free
  /\ Returns("string", StringAt(rpos).ok, StringAt(rpos).pos, StringAt(rpos).val)
  /\ UNCHANGED vec

\* An Optional of a byte. An absent one returns false like a failure; a present one
\* is engaged even if its content could not be read, with what t happens to hold.
ReadOptional ==
  LET flag == Field(rpos, 1) # <<0>> IN
  /\ Free
  /\ \/ ~Fits(rpos, 1) /\ Returns("optional", FALSE, rpos, <<>>)
     \/ Fits(rpos, 1) /\ ~flag /\ Returns("optional", FALSE, rpos + 1, <<>>)
     \/ /\ Fits(rpos, 1) /\ flag /\ Fits(rpos + 1, 1)
        /\ Returns("optional", TRUE, rpos + 2, Field(rpos + 1, 1))
     \/ /\ Fits(rpos, 1) /\ flag /\ ~Fits(rpos + 1, 1)
        /\ \E b \in Byte : Returns("optional", FALSE, rpos + 1, <<b>>)
  /\ UNCHANGED vec

ReadVector ==
  /\ Free
  /\ IF Fits(rpos, 2)
     THEN LET size == Uint16At(rpos) IN
          /\ Returns("vector", size = 0, rpos + 2, <<>>)
          /\ vec' = [left |-> size, items |-> <<>>]
     ELSE Returns("vector", FALSE, rpos, <<>>) /\ UNCHANGED vec

\* Fault: an element that cannot be read is left out.
SkipElement ==
  LET s == StringAt(rpos) items == IF s.ok THEN Append(vec.items, s.val) ELSE vec.items IN
  /\ vec.left > 0
  /\ rpos' = s.pos
  /\ vec' = [left |-> vec.left - 1, items |-> items]
  /\ last' = [last EXCEPT !.ok = vec.left = 1, !.val = items]
  /\ UNCHANGED <<data, wpos, overrun>>

ReadElement ==
  LET s == StringAt(rpos) IN
  /\ vec.left > 0
  /\ rpos' = s.pos
  /\ vec' = IF s.ok THEN [left |-> vec.left - 1, items |-> Append(vec.items, s.val)] ELSE NoVector
  /\ last' = [last EXCEPT !.ok = s.ok /\ vec.left = 1, !.val = IF s.ok THEN vec'.items ELSE @]
  /\ UNCHANGED <<data, wpos, overrun>>

Next ==
  \/ \E p \in 0 .. N + 1 : SetPos(p) \/ ShiftFromStart(p) \/ WriterShiftFromStart(p)
  \/ \E v \in -(N + 1) .. N + 1 : Shift(v)
  \/ \E n \in Sizes : ReadData(n) \/ WriteHuge(n)
  \/ \E w \in Widths : ReadScalar(w)
  \/ \E bytes \in Contents : Write(bytes)
  \/ ReadBool \/ ReadString \/ ReadOptional \/ ReadVector \/ ReadElement

Spec == Init /\ [][Next]_vars

-----------------------------------------------------------------------------
(* Properties *)

\* No call leaves the buffer but one of a size whose sum with the cursor wraps.
OverrunNeedsWrap == overrun => last.op = "data" /\ last.from + last.val >= M

-----------------------------------------------------------------------------
(* What a read should give: the encodings of each value, written from the other end *)

Bytes(v, w) ==
  LET rest[i \in 0 .. w] == IF i = 0 THEN v ELSE rest[i - 1] \div B
  IN  [i \in 1 .. w |-> rest[i - 1] % B]
StringBytes(s) == Bytes(Len(s), 2) \o s
VectorBytes(strings) ==
  Bytes(Len(strings), 2) \o FlattenSeq([i \in DOMAIN strings |-> StringBytes(strings[i])])

Encodings(op, v) ==
  CASE op = "bool" -> IF v THEN {<<b>> : b \in Byte \ {0}} ELSE {<<0>>}
    [] op = "scalar" -> {Bytes(v, w) : w \in Widths}
    [] op = "string" -> {StringBytes(v)}
    [] op = "optional" -> {<<b>> \o v : b \in Byte \ {0}}
    [] op = "vector" -> {VectorBytes(v)}

\* What a successful read has consumed is an encoding of the value it gave, and all
\* of it: fields of lengths that are in the data, of elements in a loop.
ReadIsEncoded ==
  last.op \in Reads /\ last.ok =>
    SubSeq(data, last.from + 1, rpos) \in Encodings(last.op, last.val)

\* Those of up to n elements whose size has two bytes.
Sized(elements, n) == {v \in BoundedSeq(elements, n) : Len(v) < B * B}

\* A read fails only when no encoding is there: when bytes are missing. An absent
\* Optional, which is encoded as a zero and returns false, is the one exception.
Values(op) ==
  CASE op = "bool" -> BOOLEAN
    [] op = "string" -> Sized(Byte, N)
    [] op = "optional" -> [1 .. 1 -> Byte]
    [] op = "vector" -> Sized(Sized(Byte, N - 2), N \div 2)

EncodedIsRead ==
  last.op \in Reads /\ ~last.ok /\ vec.left = 0 =>
    IF last.op = "scalar" THEN last.from + last.val > N
    ELSE \A v \in Values(last.op) : \A e \in Encodings(last.op, v) :
           ~IsPrefix(e, SubSeq(data, last.from + 1, N))

\* Reading inverts writing: a read gives what is encoded at the cursor, and fails only
\* when nothing is.
ReadsAreExact == ReadIsEncoded /\ EncodedIsRead
=============================================================================
