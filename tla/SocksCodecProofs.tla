-------------------------- MODULE SocksCodecProofs --------------------------
(* Proofs about SocksCodec, for buffers of any bytes and either byte order. *)
EXTENDS SocksCodec, SequenceTheorems, TLAPS

\* What has arrived are bytes.
Buffered == buf \in Seq(Byte)

LEMMA ByteRange ==
  ASSUME NEW x \in Byte
  PROVE  x \in 0 .. 255 /\ x \in Nat /\ x < 256
  BY DEF Byte

LEMMA BufferStep == Buffered /\ [Arrive]_vars => Buffered'
<1> SUFFICES ASSUME Buffered, [Arrive]_vars PROVE Buffered'
  OBVIOUS
<1>1. CASE Arrive
  <2>1. Len(buf) \in 0 .. MaxLength - 1
    <3>1. Len(buf) \in Nat
      BY DEF Buffered
    <3>2. Len(buf) < 22
      BY <1>1 DEF Arrive, MaxLength
    <3>3. \A n \in Nat : n < 22 => n \in 0 .. MaxLength - 1
      BY DEF MaxLength
    <3>4. QED
      BY <3>1, <3>2, <3>3
  <2>2. PICK b \in ByteAt[Len(buf)] : buf' = Append(buf, b)
    BY <1>1 DEF Arrive
  <2>3. b \in Byte
    BY <2>1, <2>2, ByteAssumption
  <2>4. QED
    BY <2>2, <2>3 DEF Buffered
<1>2. CASE UNCHANGED vars
  BY <1>2 DEF Buffered, vars
<1>3. QED
  BY <1>1, <1>2

LEMMA BuffersAreBytes == Spec => []Buffered
<1>1. Init => Buffered
  BY DEF Init, Buffered
<1>2. QED
  BY <1>1, BufferStep, PTL DEF Spec

-----------------------------------------------------------------------------
(* Fields of a buffer *)

\* The byte at an offset.
LEMMA ByteOf ==
  ASSUME NEW b \in Seq(Byte), NEW k \in Nat, k < Len(b)
  PROVE  At(b, k) \in Byte /\ At(b, k) \in 0 .. 255 /\ At(b, k) \in Nat /\ At(b, k) < 256
<1>1. k + 1 \in 1 .. Len(b)
  OBVIOUS
<1>2. b[k + 1] \in Byte
  BY <1>1
<1>3. QED
  BY <1>2, ByteRange DEF At

\* Adjacent fields are one.
LEMMA Joined ==
  ASSUME NEW b \in Seq(Byte), NEW k \in Nat, NEW m \in Nat, NEW n \in Nat, k + m + n <= Len(b)
  PROVE  Bytes(b, k, m) \o Bytes(b, k + m, n) = Bytes(b, k, m + n)
<1>1. /\ k + 1 \in 1 .. Len(b) + 1 /\ k + m \in (k + 1) - 1 .. Len(b)
      /\ k + m + n \in k + m .. Len(b)
  OBVIOUS
<1>2. SubSeq(b, k + 1, k + m) \o SubSeq(b, (k + m) + 1, k + m + n) = SubSeq(b, k + 1, k + m + n)
  BY <1>1, ConcatAdjacentSubSeq
<1>3. (k + m) + n = k + (m + n)
  OBVIOUS
<1>4. QED
  BY <1>2, <1>3 DEF Bytes

\* The same, of the beginning.
LEMMA JoinedToStart ==
  ASSUME NEW b \in Seq(Byte), NEW m \in Nat, NEW n \in Nat, NEW l, l = m + n, l <= Len(b)
  PROVE  Bytes(b, 0, m) \o Bytes(b, m, n) = Bytes(b, 0, l)
<1>1. PICK k \in Nat : k = 0
  OBVIOUS
<1>2. k + m = m /\ k + m + n <= Len(b) /\ m + n = l
  BY <1>1
<1>3. Bytes(b, k, m) \o Bytes(b, k + m, n) = Bytes(b, k, m + n)
  BY <1>2, Joined
<1>4. QED
  BY <1>1, <1>2, <1>3

LEMMA FieldTypes ==
  ASSUME NEW b \in Seq(Byte), NEW k \in Nat, NEW n \in Nat, k + n <= Len(b)
  PROVE  Bytes(b, k, n) \in Seq(Byte) /\ Len(Bytes(b, k, n)) = n
<1>1. \A i \in k + 1 .. k + n : b[i] \in Byte
  OBVIOUS
<1>2. QED
  BY <1>1, SubSeqProperties DEF Bytes

LEMMA FieldBytes ==
  ASSUME NEW b \in Seq(Byte), NEW k \in Nat, NEW n \in Nat, k + n <= Len(b), NEW i \in 1 .. n
  PROVE  Bytes(b, k, n)[i] = At(b, k + i - 1)
<1>1. \A j \in k + 1 .. k + n : b[j] \in Byte
  OBVIOUS
<1>2. Bytes(b, k, n)[i] = b[k + 1 + i - 1]
  BY <1>1, SubSeqProperties DEF Bytes
<1>3. k + 1 + i - 1 = (k + i - 1) + 1
  OBVIOUS
<1>4. QED
  BY <1>2, <1>3 DEF At

LEMMA OneByte ==
  ASSUME NEW b \in Seq(Byte), NEW k \in Nat, k < Len(b)
  PROVE  <<At(b, k)>> = Bytes(b, k, 1)
<1>1. /\ Len(Bytes(b, k, 1)) = 1 /\ Bytes(b, k, 1)[1] = b[k + 1]
      /\ Bytes(b, k, 1) \in Seq(Byte) 
  BY SubSeqProperties DEF Bytes
<1>2. QED
  BY <1>1, ByteOf DEF At

LEMMA TwoBytes ==
  ASSUME NEW b \in Seq(Byte), 2 <= Len(b)
  PROVE  <<At(b, 0), At(b, 1)>> = Bytes(b, 0, 2)
<1>1. Bytes(b, 0, 2) \in Seq(Byte) /\ Len(Bytes(b, 0, 2)) = 2
  <2>1. 0 + 2 <= Len(b)
    OBVIOUS
  <2>2. 0 \in Nat /\ 2 \in Nat
    OBVIOUS
  <2>3. QED
    BY <2>1, <2>2, FieldTypes, Zenon
<1>2. Bytes(b, 0, 2)[1] = At(b, 0) /\ Bytes(b, 0, 2)[2] = At(b, 1)
  BY FieldBytes
<1>3. QED
  BY <1>1, <1>2

LEMMA WholeBuffer ==
  ASSUME NEW b \in Seq(Byte)
  PROVE  Bytes(b, 0, Len(b)) = b
  BY SubSeqFull DEF Bytes

\* What is before the end of a buffer's beginning is as in the buffer.
LEMMA Beginning ==
  ASSUME NEW b \in Seq(Byte), NEW n \in 0 .. Len(b)
  PROVE  /\ SubSeq(b, 1, n) \in Seq(Byte) /\ Len(SubSeq(b, 1, n)) = n
         /\ \A k \in 0 .. n - 1 : At(SubSeq(b, 1, n), k) = At(b, k)
<1>1. \A i \in 1 .. n : b[i] \in Byte
  OBVIOUS
<1>2. /\ SubSeq(b, 1, n) \in Seq(Byte) /\ Len(SubSeq(b, 1, n)) = n
      /\ \A i \in 1 .. n : SubSeq(b, 1, n)[i] = b[i]
  BY <1>1, SubSeqProperties
<1>3. QED
  BY <1>2 DEF At

LEMMA ThreeBytes ==
  ASSUME NEW b \in Seq(Byte), 3 <= Len(b)
  PROVE  <<At(b, 0), At(b, 1), At(b, 2)>> = Bytes(b, 0, 3)
<1>1. Bytes(b, 0, 3) \in Seq(Byte) /\ Len(Bytes(b, 0, 3)) = 3
  <2>1. 0 + 3 <= Len(b)
    OBVIOUS
  <2>2. 0 \in Nat /\ 3 \in Nat
    OBVIOUS
  <2>3. QED
    BY <2>1, <2>2, FieldTypes, Zenon
<1>2. /\ Bytes(b, 0, 3)[1] = At(b, 0) /\ Bytes(b, 0, 3)[2] = At(b, 1)
      /\ Bytes(b, 0, 3)[3] = At(b, 2)
  BY FieldBytes
<1>3. QED
  BY <1>1, <1>2

-----------------------------------------------------------------------------
(* One message at most *)

\* A greeting is shorter than a request, whose command is a small number.
THEOREM OneKind == Spec => []OneKindOnly
<1>1. ASSUME Buffered PROVE OneKindOnly
  <2>1. buf \in Seq(Byte)
    BY <1>1 DEF Buffered
  <2>2. Len(buf) \in Nat
    BY <2>1
  <2>3. ~(DecodesGreeting(buf) /\ DecodesPassAuth(buf))
    BY DEF DecodesGreeting, DecodesPassAuth, Version5
  <2>4. ~(DecodesPassAuth(buf) /\ DecodesCommand(buf))
    BY DEF DecodesPassAuth, DecodesCommand, Version5
  <2>5. ~(DecodesGreeting(buf) /\ DecodesCommand(buf))
    BY <2>2 DEF DecodesGreeting, DecodesCommand, IsCommandExist
  <2>6. QED
    BY <2>3, <2>4, <2>5 DEF OneKindOnly
<1>2. QED
  BY <1>1, BuffersAreBytes, PTL

-----------------------------------------------------------------------------
(* No message begins another *)

\* Each of the decoders asks for the exact length, which is in the bytes it has.
LEMMA GreetingIsWhole ==
  ASSUME NEW b \in Seq(Byte), DecodesGreeting(b), NEW n \in 0 .. Len(b) - 1
  PROVE  ~DecodesGreeting(SubSeq(b, 1, n))
<1> SUFFICES ASSUME DecodesGreeting(SubSeq(b, 1, n)) PROVE FALSE
  OBVIOUS
<1> DEFINE p == SubSeq(b, 1, n)
<1>1. Len(p) = n /\ \A k \in 0 .. n - 1 : At(p, k) = At(b, k)
  BY Beginning
<1> HIDE DEF p
<1>2. n >= 2 /\ n = At(p, 1) + 2
  BY <1>1 DEF DecodesGreeting, p
<1>3. At(p, 1) = At(b, 1)
  BY <1>1, <1>2
<1>4. Len(b) = At(b, 1) + 2
  BY DEF DecodesGreeting
<1>5. QED
  BY <1>2, <1>3, <1>4

LEMMA PassAuthIsWhole ==
  ASSUME NEW b \in Seq(Byte), DecodesPassAuth(b), NEW n \in 0 .. Len(b) - 1
  PROVE  ~DecodesPassAuth(SubSeq(b, 1, n))
<1> SUFFICES ASSUME DecodesPassAuth(SubSeq(b, 1, n)) PROVE FALSE
  OBVIOUS
<1> DEFINE p == SubSeq(b, 1, n)
<1>1. Len(p) = n /\ \A k \in 0 .. n - 1 : At(p, k) = At(b, k)
  BY Beginning
<1> HIDE DEF p
<1>2. n >= 3 /\ n >= At(p, 1) + 3 /\ n = At(p, 1) + At(p, 2 + At(p, 1)) + 3
  BY <1>1 DEF DecodesPassAuth, p
<1>3. At(p, 1) = At(b, 1)
  BY <1>1, <1>2
<1>4. At(b, 1) \in Nat
  <2>1. 1 < Len(b)
    BY DEF DecodesPassAuth
  <2>2. QED
    BY <2>1, ByteOf
<1>5. At(p, 2 + At(p, 1)) = At(b, 2 + At(b, 1))
  BY <1>1, <1>2, <1>3, <1>4
<1>6. Len(b) = At(b, 1) + At(b, 2 + At(b, 1)) + 3
  BY DEF DecodesPassAuth
<1>7. QED
  BY <1>2, <1>3, <1>5, <1>6

LEMMA CommandIsWhole ==
  ASSUME NEW b \in Seq(Byte), DecodesCommand(b), NEW n \in 0 .. Len(b) - 1
  PROVE  ~DecodesCommand(SubSeq(b, 1, n))
<1> SUFFICES ASSUME DecodesCommand(SubSeq(b, 1, n)) PROVE FALSE
  OBVIOUS
<1> DEFINE p == SubSeq(b, 1, n)
<1>1. Len(p) = n /\ \A k \in 0 .. n - 1 : At(p, k) = At(b, k)
  BY Beginning
<1> HIDE DEF p
<1>2. n >= 6 /\ n = AddressOffset(p) + AddressLength(p) + 2
  BY <1>1 DEF DecodesCommand, p
<1>3. At(p, 3) = At(b, 3) /\ At(p, 4) = At(b, 4)
  BY <1>1, <1>2
<1>4. AddressOffset(p) = AddressOffset(b) /\ AddressLength(p) = AddressLength(b)
  BY <1>3 DEF AddressOffset, AddressLength
<1>5. Len(b) = AddressOffset(b) + AddressLength(b) + 2
  BY DEF DecodesCommand
<1>6. QED
  BY <1>2, <1>4, <1>5

\* A message is never the beginning of a longer one of its kind: a read event that comes
\* early, or late, finds a buffer that does not decode.
THEOREM NoPrefix == Spec => []NoPrefixDecodes
<1>1. ASSUME Buffered PROVE NoPrefixDecodes
  <2> SUFFICES ASSUME NEW d \in 1 .. 3, Decoders(buf)[d], NEW n \in 0 .. Len(buf) - 1
               PROVE  ~Decoders(SubSeq(buf, 1, n))[d]
    BY DEF NoPrefixDecodes
  <2>1. buf \in Seq(Byte)
    BY <1>1 DEF Buffered
  <2>2. CASE d = 1
    BY <2>1, <2>2, GreetingIsWhole DEF Decoders
  <2>3. CASE d = 2
    BY <2>1, <2>3, PassAuthIsWhole DEF Decoders
  <2>4. CASE d = 3
    BY <2>1, <2>4, CommandIsWhole DEF Decoders
  <2>5. QED
    BY <2>2, <2>3, <2>4
<1>2. QED
  BY <1>1, BuffersAreBytes, PTL

-----------------------------------------------------------------------------
(* What was read is written back *)

LEMMA GreetingBack ==
  ASSUME NEW b \in Seq(Byte), DecodesGreeting(b)
  PROVE  EncodeGreeting(AuthMethods(b)) = b
<1>1. /\ Len(b) \in Nat /\ Len(b) >= 2 /\ At(b, 0) = 5 /\ Len(b) = At(b, 1) + 2
  BY DEF DecodesGreeting, Version5
<1>2. At(b, 1) \in Nat /\ At(b, 1) < 256
  <2>1. 1 < Len(b)
    BY <1>1
  <2>2. QED
    BY <2>1, ByteOf
<1>3. Len(AuthMethods(b)) = At(b, 1)
  BY <1>1, <1>2, FieldTypes DEF AuthMethods
<1>4. At(b, 1) % 256 = At(b, 1)
  BY <1>2
<1>5. <<5, At(b, 1)>> = Bytes(b, 0, 2)
  BY <1>1, TwoBytes
<1>6. Bytes(b, 0, 2) \o Bytes(b, 2, At(b, 1)) = Bytes(b, 0, Len(b))
  <2>1. 2 \in Nat /\ Len(b) = 2 + At(b, 1) /\ Len(b) <= Len(b)
    BY <1>1, <1>2
  <2>2. QED
    BY <1>2, <2>1, JoinedToStart, ZenonT(30)
<1>7. EncodeGreeting(AuthMethods(b)) = <<5, At(b, 1)>> \o Bytes(b, 2, At(b, 1))
  BY <1>3, <1>4 DEF EncodeGreeting, AuthMethods, Version5
<1>8. QED
  BY <1>5, <1>6, <1>7, WholeBuffer

LEMMA PassAuthBack ==
  ASSUME NEW b \in Seq(Byte), DecodesPassAuth(b)
  PROVE  EncodePassAuth(User(b), Password(b)) = b
<1>1. Len(b) \in Nat /\ Len(b) >= 3 /\ At(b, 0) = 1 /\ Len(b) >= At(b, 1) + 3
  BY DEF DecodesPassAuth
<1>2. PICK u : u = At(b, 1)
  OBVIOUS
<1>3. u \in Nat
  <2>1. 1 < Len(b)
    BY <1>1
  <2>2. QED
    BY <1>2, <2>1, ByteOf
<1>4. PICK p : p = At(b, 2 + u)
  OBVIOUS
<1>5. p \in Nat
  <2>1. 2 + u \in Nat /\ 2 + u < Len(b)
    BY <1>1, <1>2, <1>3
  <2>2. QED
    BY <1>4, <2>1, ByteOf
<1>6. Len(b) = u + p + 3
  BY <1>2, <1>4 DEF DecodesPassAuth
<1>7. User(b) = Bytes(b, 2, u) /\ Password(b) = Bytes(b, 3 + u, p)
  BY <1>2, <1>4 DEF User, Password
<1>8. Len(User(b)) = u /\ Len(Password(b)) = p
  <2>1. 2 + u <= Len(b) /\ (3 + u) + p <= Len(b) /\ 2 \in Nat /\ 3 + u \in Nat
    BY <1>3, <1>5, <1>6
  <2>2. QED
    BY <1>3, <1>5, <1>7, <2>1, FieldTypes
<1>9. PICK one \in Nat, two \in Nat, j \in Nat, k \in Nat, l \in Nat :
        one = 1 /\ two = 2 /\ j = 2 + u /\ k = 3 + u /\ l = Len(b)
  <2>1. 1 \in Nat /\ 2 \in Nat /\ 2 + u \in Nat /\ 3 + u \in Nat /\ Len(b) \in Nat
    BY <1>1, <1>3
  <2>2. QED
    BY <2>1, Zenon
<1>10. <<1, Len(User(b))>> = Bytes(b, 0, two)
  BY <1>1, <1>2, <1>8, <1>9, TwoBytes
<1>11. <<Len(Password(b))>> = Bytes(b, j, one)
  <2>1. j < Len(b) /\ At(b, j) = p
    BY <1>3, <1>4, <1>5, <1>6, <1>9
  <2>2. <<At(b, j)>> = Bytes(b, j, 1)
    BY <2>1, OneByte
  <2>3. QED
    BY <1>8, <1>9, <2>1, <2>2
<1>12. Bytes(b, 0, two) \o Bytes(b, two, u) = Bytes(b, 0, j)
  <2>1. j = two + u /\ j <= Len(b)
    BY <1>3, <1>5, <1>6, <1>9
  <2>2. QED
    BY <1>3, <2>1, JoinedToStart
<1>13. Bytes(b, 0, j) \o Bytes(b, j, one) = Bytes(b, 0, k)
  <2>1. k = j + one /\ k <= Len(b)
    BY <1>3, <1>5, <1>6, <1>9
  <2>2. QED
    BY <2>1, JoinedToStart
<1>14. Bytes(b, 0, k) \o Bytes(b, k, p) = Bytes(b, 0, l)
  <2>1. l = k + p /\ l <= Len(b)
    BY <1>3, <1>5, <1>6, <1>9
  <2>2. QED
    BY <1>5, <2>1, JoinedToStart
<1>15. EncodePassAuth(User(b), Password(b)) =
         Bytes(b, 0, two) \o Bytes(b, two, u) \o Bytes(b, j, one) \o Bytes(b, k, p)
  BY <1>7, <1>9, <1>10, <1>11 DEF EncodePassAuth
<1>16. Bytes(b, 0, l) = b
  BY <1>9, WholeBuffer
<1>17. QED
  BY <1>12, <1>13, <1>14, <1>15, <1>16, Zenon

\* Where the address of a request is, and how long.
LEMMA AddressFits ==
  ASSUME NEW b \in Seq(Byte), DecodesCommand(b)
  PROVE  /\ AddressLength(b) \in 0 .. 255
         /\ AddressOffset(b) = IF At(b, 3) = DomainAddr THEN 5 ELSE 4
         /\ Len(b) = AddressOffset(b) + AddressLength(b) + 2
         /\ At(b, 3) = DomainAddr => AddressLength(b) = At(b, 4)
         /\ At(b, 3) \in {1, 3, 4}
<1>1. Len(b) \in Nat /\ Len(b) >= 6 /\ At(b, 3) \in {1, 3, 4}
  BY DEF DecodesCommand, IsAddressTypeExist, IPv4Addr, DomainAddr, IPv6Addr
<1>2. At(b, 4) \in 0 .. 255
  <2>1. 4 < Len(b)
    BY <1>1
  <2>2. QED
    BY <2>1, ByteOf
<1>3. AddressLength(b) = IF At(b, 3) = 1 THEN 4 ELSE IF At(b, 3) = 3 THEN At(b, 4) ELSE 16
  BY <1>1 DEF AddressLength, IPv4Addr, DomainAddr, IPv6Addr
<1>4. QED
  BY <1>1, <1>2, <1>3 DEF DecodesCommand, AddressOffset, DomainAddr

LEMMA CommandBack ==
  ASSUME NEW b \in Seq(Byte), DecodesCommand(b)
  PROVE  EncodeCommand(Command(b)) = b
<1>1. PICK n : n = AddressLength(b)
  OBVIOUS
<1>2. PICK o : o = AddressOffset(b)
  OBVIOUS
<1>3. /\ n \in Nat /\ n % 256 = n /\ o \in {4, 5} /\ Len(b) = o + n + 2
      /\ o = 5 <=> At(b, 3) = DomainAddr
      /\ o = 5 => n = At(b, 4)
  <2>1. n \in 0 .. 255 /\ Len(b) = o + n + 2
    BY <1>1, <1>2, AddressFits
  <2>2. \A i \in 0 .. 255 : i \in Nat /\ i % 256 = i
    OBVIOUS
  <2>3. o = (IF At(b, 3) = DomainAddr THEN 5 ELSE 4)
    BY <1>2, AddressFits
  <2>4. At(b, 3) = DomainAddr => n = At(b, 4)
    BY <1>1, AddressFits
  <2>5. o \in {4, 5} /\ (o = 5 <=> At(b, 3) = DomainAddr)
    BY <2>3
  <2>6. QED
    BY <2>1, <2>2, <2>4, <2>5
<1>4. /\ Command(b).command = At(b, 1) /\ Command(b).type = At(b, 3)
      /\ Command(b).addr = Bytes(b, o, n) /\ Command(b).port = Bytes(b, o + n, 2)
  BY <1>1, <1>2 DEF Command
<1>5. Len(Command(b).addr) = n
  BY <1>3, <1>4, FieldTypes
<1>6. <<Version5, Command(b).command, 0>> = Bytes(b, 0, 3)
  BY <1>3, <1>4, ThreeBytes DEF DecodesCommand, Version5
<1>7. PICK m \in Nat : m \in {1, 2} /\ o = 3 + m
  BY <1>3
<1>8. <<Command(b).type>>
        \o (IF Command(b).type = DomainAddr THEN <<Len(Command(b).addr) % 256>> ELSE <<>>)
        = Bytes(b, 3, m)
  <2>1. 3 \in Nat /\ 3 < Len(b) /\ 3 + 1 <= Len(b) /\ 1 \in Nat
    BY <1>3
  <2>2. <<At(b, 3)>> = Bytes(b, 3, 1) /\ Bytes(b, 3, 1) \in Seq(Byte)
    BY <2>1, OneByte, FieldTypes
  <2>3. CASE m = 1
    <3>1. Command(b).type # DomainAddr
      BY <1>3, <1>4, <1>7, <2>3
    <3>2. Bytes(b, 3, 1) \o <<>> = Bytes(b, 3, 1)
      BY <2>2, ConcatEmptySeq
    <3>3. QED
      BY <1>4, <2>2, <2>3, <3>1, <3>2
  <2>4. CASE m = 2
    <3>1. Command(b).type = DomainAddr /\ Len(Command(b).addr) % 256 = At(b, 4)
      BY <1>3, <1>4, <1>5, <1>7, <2>4
    <3>2. 4 \in Nat /\ 4 < Len(b)
      BY <1>3
    <3>3. <<At(b, 4)>> = Bytes(b, 4, 1)
      BY <3>2, OneByte
    <3>4. PICK three \in Nat, one \in Nat : three = 3 /\ one = 1
      OBVIOUS
    <3>5. Bytes(b, 3, 1) \o Bytes(b, 4, 1) = Bytes(b, 3, 2)
      <4>1. three + one + one <= Len(b) /\ three + one = 4 /\ one + one = 2
        BY <1>3, <3>4
      <4>2. Bytes(b, three, one) \o Bytes(b, three + one, one) = Bytes(b, three, one + one)
        BY <4>1, Joined
      <4>3. QED
        BY <3>4, <4>1, <4>2, Zenon
    <3>6. QED
      BY <1>4, <2>2, <2>4, <3>1, <3>3, <3>5
  <2>5. QED
    BY <1>7, <2>3, <2>4
<1>9. PICK two \in Nat, three \in Nat, h \in Nat, i \in Nat, j \in Nat, l \in Nat :
        /\ two = 2 /\ three = 3 /\ h = m + n /\ i = o + n /\ j = m + n + 2 /\ l = Len(b)
  BY <1>3, <1>7
<1>10. /\ m \in Nat /\ o \in Nat /\ o = three + m /\ i = three + h /\ j = h + two
       /\ l = three + j /\ l <= Len(b) /\ three + h <= Len(b) /\ three + j <= Len(b)
  BY <1>3, <1>7, <1>9
<1>11. Bytes(b, three, m) \o Bytes(b, o, n) = Bytes(b, three, h)
  <2>1. three + m + n <= Len(b) /\ n \in Nat /\ m \in Nat
    BY <1>3, <1>9, <1>10
  <2>2. Bytes(b, three, m) \o Bytes(b, three + m, n) = Bytes(b, three, m + n)
    BY <2>1, Joined
  <2>3. QED
    BY <1>9, <1>10, <2>2, Zenon
<1>12. Bytes(b, three, h) \o Bytes(b, i, two) = Bytes(b, three, j)
  <2>1. three + h + two <= Len(b)
    BY <1>3, <1>9, <1>10
  <2>2. Bytes(b, three, h) \o Bytes(b, three + h, two) = Bytes(b, three, h + two)
    BY <2>1, Joined
  <2>3. QED
    BY <1>10, <2>2, Zenon
<1>13. Bytes(b, 0, three) \o Bytes(b, three, j) = Bytes(b, 0, l)
  BY <1>10, JoinedToStart
<1>14. Command(b).addr = Bytes(b, o, n) /\ Command(b).port = Bytes(b, i, two)
  BY <1>4, <1>9
<1>15. EncodeAddress(Command(b)) = Bytes(b, 3, m) \o Bytes(b, o, n) \o Bytes(b, i, two)
  BY <1>8, <1>14, Zenon DEF EncodeAddress
<1>16. EncodeCommand(Command(b)) = Bytes(b, 0, three) \o Bytes(b, three, j)
  BY <1>6, <1>9, <1>11, <1>12, <1>15 DEF EncodeCommand
<1>17. Bytes(b, 0, l) = b
  BY <1>9, WholeBuffer
<1>18. QED
  BY <1>13, <1>16, <1>17, Zenon

\* What the decoder reads, the encoder writes back byte for byte: every byte of a message
\* is in one field, and in the field the encoder writes there.
THEOREM DecodeEncode == Spec => []DecodeThenEncode
<1>1. ASSUME Buffered PROVE DecodeThenEncode
  <2>1. buf \in Seq(Byte)
    BY <1>1 DEF Buffered
  <2>2. QED
    BY <2>1, GreetingBack, PassAuthBack, CommandBack DEF DecodeThenEncode
<1>2. QED
  BY <1>1, BuffersAreBytes, PTL

-----------------------------------------------------------------------------
(* Where the kernel is asked to connect *)

\* The kernel is asked to connect to the address and port whose bytes follow the address
\* type of the request, in the order they have there, on either kind of machine.
THEOREM ConnectsAsked == Spec => []ConnectsWhereAsked
<1>1. ASSUME Buffered, DecodesCommand(buf), Convertible(Command(buf)),
             NEW n, n = IF ConvertAddrToStorage(Command(buf)).family = "AF_INET" THEN 4 ELSE 16
      PROVE  ConvertAddrToStorage(Command(buf)).addr \o ConvertAddrToStorage(Command(buf)).port
               = SubSeq(buf, 5, 6 + n)
  <2>1. buf \in Seq(Byte)
    BY <1>1 DEF Buffered
  <2>2. At(buf, 3) \in {1, 4}
    BY <1>1 DEF Convertible, Command, IPv4Addr, IPv6Addr
  <2>3. AddressOffset(buf) = 4 /\ AddressLength(buf) = n /\ n \in Nat
    <3>1. CASE At(buf, 3) = 1
      BY <1>1, <3>1 DEF ConvertAddrToStorage, Command, AddressOffset, AddressLength,
                        IPv4Addr, DomainAddr, IPv6Addr
    <3>2. CASE At(buf, 3) = 4
      BY <1>1, <3>2 DEF ConvertAddrToStorage, Command, AddressOffset, AddressLength,
                        IPv4Addr, DomainAddr, IPv6Addr
    <3>3. QED
      BY <2>2, <3>1, <3>2
  <2>4. Len(buf) = 4 + n + 2
    BY <1>1, <2>3 DEF DecodesCommand
  <2>5. PICK k \in Nat, two \in Nat, j \in Nat : k = 4 /\ two = 2 /\ j = k + n
    BY <2>3
  <2>6. /\ ConvertAddrToStorage(Command(buf)).addr = Bytes(buf, k, n)
        /\ ConvertAddrToStorage(Command(buf)).port = Bytes(buf, j, two)
    BY <2>3, <2>5 DEF ConvertAddrToStorage, Command
  <2>7. Bytes(buf, k, n) \o Bytes(buf, k + n, two) = Bytes(buf, k, n + two)
    <3>1. k + n + two <= Len(buf)
      BY <2>3, <2>4, <2>5
    <3>2. QED
      BY <2>1, <2>3, <2>5, <3>1, Joined
  <2>8. k + 1 = 5 /\ k + (n + two) = 6 + n
    BY <2>3, <2>5
  <2>9. Bytes(buf, k, n + two) = SubSeq(buf, 5, 6 + n)
    BY <2>8, Zenon DEF Bytes
  <2>10. QED
    BY <2>5, <2>6, <2>7, <2>9
<1>2. ASSUME Buffered PROVE ConnectsWhereAsked
  <2> SUFFICES ASSUME DecodesCommand(buf), Convertible(Command(buf))
               PROVE  LET name == ConvertAddrToStorage(Command(buf))
                          n == IF name.family = "AF_INET" THEN 4 ELSE 16
                      IN  name.addr \o name.port = SubSeq(buf, 5, 6 + n)
    BY DEF ConnectsWhereAsked
  <2>1. PICK n : n = IF ConvertAddrToStorage(Command(buf)).family = "AF_INET" THEN 4 ELSE 16
    OBVIOUS
  <2>2. ConvertAddrToStorage(Command(buf)).addr \o ConvertAddrToStorage(Command(buf)).port
          = SubSeq(buf, 5, 6 + n)
    BY <1>1, <1>2, <2>1, Zenon
  <2>3. QED
    BY <2>1, <2>2, Zenon
<1>3. QED
  BY <1>2, BuffersAreBytes, PTL
=============================================================================
