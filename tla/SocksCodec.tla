----------------------------- MODULE SocksCodec -----------------------------
(* SocksDecoder and SocksEncoder on byte sequences, and the conversions of
   EventSocketCommon between socket addresses and the addresses in messages.

   One buffer grows a byte at a time, as a client's bytes reach the input of its
   socket; a read event may take it at any moment and give it to a decoder
   whole. A decoder is a predicate, TRUE when decode returns true, and one
   operator per field it fills. Offsets count from 0, as in the source.

   Operators whose comment begins with Fault are not part of the model: each is a
   plausible slip, kept to see that the property about it can fail. *)
EXTENDS Integers, Sequences, SequencesExt

CONSTANTS
  ByteAt,        \* ByteAt[k]: bound, the bytes tried at offset k
  BoundNames,    \* names the kernel may give an outgoing socket
  LittleEndian   \* byte order of the machine

Byte == 0 .. 255
MaxLength == 22    \* of the longest message to an IP address

ASSUME ByteAssumption == ByteAt \in [0 .. MaxLength - 1 -> SUBSET Byte]
ASSUME OrderAssumption == LittleEndian \in BOOLEAN

VARIABLES
  buf,     \* the input buffer of a client's socket
  bound    \* getsockname of an outgoing socket, in network byte order

vars == <<buf, bound>>

Init == buf = <<>> /\ bound \in BoundNames

Arrive ==
  /\ Len(buf) < MaxLength
  /\ \E b \in ByteAt[Len(buf)] : buf' = Append(buf, b)
  /\ UNCHANGED bound

Spec == Init /\ [][Arrive]_vars

-----------------------------------------------------------------------------
(* SocksCommon *)

Version5 == 5
AuthLoginPass == 2
NoAvailableMethod == 255
IsAuthMethodExist(b) == b \in {0, 1, 2}
IsCommandExist(b) == b \in {1, 2, 3}
IPv4Addr == 1
DomainAddr == 3
IPv6Addr == 4
IsAddressTypeExist(b) == b \in {IPv4Addr, DomainAddr, IPv6Addr}

\* n bytes of b from offset k.
At(b, k) == b[k + 1]
Bytes(b, k, n) == SubSeq(b, k + 1, k + n)

-----------------------------------------------------------------------------
(* SocksDecoder *)

\* Fault: the methods announced are a lower bound.
GreetingAtLeast(b) ==
  /\ Len(b) >= 2
  /\ At(b, 0) = Version5
  /\ Len(b) >= At(b, 1) + 2
  /\ \A k \in 2 .. Len(b) - 1 : IsAuthMethodExist(At(b, k))

DecodesGreeting(b) ==
  /\ Len(b) >= 2
  /\ At(b, 0) = Version5
  /\ Len(b) = At(b, 1) + 2
  /\ \A k \in 2 .. Len(b) - 1 : IsAuthMethodExist(At(b, k))

AuthMethods(b) == Bytes(b, 2, At(b, 1))

DecodesPassAuth(b) ==
  /\ Len(b) >= 3
  /\ At(b, 0) = 1
  /\ Len(b) >= At(b, 1) + 3
  /\ Len(b) = At(b, 1) + At(b, 2 + At(b, 1)) + 3

User(b) == Bytes(b, 2, At(b, 1))

\* Fault: the password is read from its length byte on.
PasswordWithLength(b) == Bytes(b, 2 + At(b, 1), At(b, 2 + At(b, 1)))

Password(b) == Bytes(b, 3 + At(b, 1), At(b, 2 + At(b, 1)))

\* Bytes of the address, and its offset: a domain follows its length.
AddressLength(b) ==
  CASE At(b, 3) = IPv4Addr -> 4
    [] At(b, 3) = DomainAddr -> At(b, 4)
    [] At(b, 3) = IPv6Addr -> 16
AddressOffset(b) == IF At(b, 3) = DomainAddr THEN 5 ELSE 4

\* Fault: the version of a command is not looked at.
CommandOfAnyVersion(b) ==
  /\ Len(b) >= 6
  /\ At(b, 2) = 0
  /\ IsCommandExist(At(b, 1))
  /\ IsAddressTypeExist(At(b, 3))
  /\ Len(b) = AddressOffset(b) + AddressLength(b) + 2

\* decodeIPv4, decodeDomain and decodeIPv6 ask for room for the address,
\* decodePort for the exact length.
DecodesCommand(b) ==
  /\ Len(b) >= 6
  /\ At(b, 0) = Version5
  /\ At(b, 2) = 0
  /\ IsCommandExist(At(b, 1))
  /\ IsAddressTypeExist(At(b, 3))
  /\ Len(b) = AddressOffset(b) + AddressLength(b) + 2

Command(b) == [command |-> At(b, 1), type |-> At(b, 3),
               addr |-> Bytes(b, AddressOffset(b), AddressLength(b)),
               port |-> Bytes(b, AddressOffset(b) + AddressLength(b), 2)]

-----------------------------------------------------------------------------
(* SocksEncoder; an encoder is defined where it returns true. *)

EncodesGreeting(methods) ==
  /\ methods # <<>>
  /\ \A k \in DOMAIN methods :
       IsAuthMethodExist(methods[k]) \/ methods[k] = NoAvailableMethod

EncodeGreeting(methods) == <<Version5, Len(methods) % 256>> \o methods

EncodesPassAuth(name, pass) == Len(name) \in 1 .. 255 /\ Len(pass) \in 1 .. 255

EncodePassAuth(name, pass) ==
  <<1, Len(name)>> \o name \o <<Len(pass)>> \o pass

\* A request and a reply share the layout from the address type on.
EncodeAddress(a) ==
  <<a.type>> \o (IF a.type = DomainAddr THEN <<Len(a.addr) % 256>> ELSE <<>>)
             \o a.addr \o a.port

EncodeCommand(c) == <<Version5, c.command, 0>> \o EncodeAddress(c)

EncodesCommandResp(a) ==
  /\ IsAddressTypeExist(a.type)
  /\ a.type = DomainAddr => Len(a.addr) <= 255

EncodeCommandResp(code, a) == <<Version5, code, 0>> \o EncodeAddress(a)

-----------------------------------------------------------------------------
(* EventSocketCommon. A name is what the kernel has: family, address and port in
   network byte order. *)

\* ntohs and ntohl, on the bytes in memory.
ToHost(bytes) == IF LittleEndian THEN Reverse(bytes) ELSE bytes

Convertible(a) == a.type \in {IPv4Addr, IPv6Addr}

\* Fault: the port is converted on the way to the kernel, as it is on the way back.
StoragePortToHost(a) ==
  [family |-> IF a.type = IPv4Addr THEN "AF_INET" ELSE "AF_INET6",
   addr |-> a.addr, port |-> ToHost(a.port)]

\* convertAddrToStorage copies what the message has.
ConvertAddrToStorage(a) ==
  [family |-> IF a.type = IPv4Addr THEN "AF_INET" ELSE "AF_INET6",
   addr |-> a.addr, port |-> a.port]

\* getAddress converts the port, and an IPv4 address too.
GetAddress(name) ==
  IF name.family = "AF_INET"
  THEN [type |-> IPv4Addr, addr |-> ToHost(name.addr), port |-> ToHost(name.port)]
  ELSE [type |-> IPv6Addr, addr |-> name.addr, port |-> ToHost(name.port)]

\* The reply InConnTracker::sendCommandResponse makes for a granted request.
GrantReply == EncodeCommandResp(0, GetAddress(bound))

-----------------------------------------------------------------------------
(* Properties *)

\* A buffer decodes as one message at most: what a client sends in a state that
\* waits for another message is a protocol error, whatever its fields are.
OneKindOnly ==
  /\ ~(DecodesGreeting(buf) /\ DecodesPassAuth(buf))
  /\ ~(DecodesGreeting(buf) /\ DecodesCommand(buf))
  /\ ~(DecodesPassAuth(buf) /\ DecodesCommand(buf))

Decoders(b) == <<DecodesGreeting(b), DecodesPassAuth(b), DecodesCommand(b)>>

\* A message is never the beginning of a longer one of its kind. A read event that
\* comes early sees a buffer that does not decode, one that comes late a buffer
\* with more than one message, and neither is taken for a message.
NoPrefixDecodes ==
  \A d \in 1 .. 3 : Decoders(buf)[d] =>
    \A n \in 0 .. Len(buf) - 1 : ~Decoders(SubSeq(buf, 1, n))[d]

\* What the decoder reads, the encoder writes back byte for byte: no byte of a
\* message is read into the wrong field, or into none. (The encoder refuses the
\* empty list of methods, user and password the decoder takes.)
DecodeThenEncode ==
  /\ DecodesGreeting(buf) /\ EncodesGreeting(AuthMethods(buf)) =>
       EncodeGreeting(AuthMethods(buf)) = buf
  /\ DecodesPassAuth(buf) /\ EncodesPassAuth(User(buf), Password(buf)) =>
       EncodePassAuth(User(buf), Password(buf)) = buf
  /\ DecodesCommand(buf) => EncodeCommand(Command(buf)) = buf

\* The kernel is asked to connect to the address and port the client sent, whose
\* bytes are at fixed offsets of the request, in network byte order.
ConnectsWhereAsked ==
  DecodesCommand(buf) /\ Convertible(Command(buf)) =>
    LET name == ConvertAddrToStorage(Command(buf))
        n == IF name.family = "AF_INET" THEN 4 ELSE 16
    IN  name.addr \o name.port = SubSeq(buf, 5, 6 + n)

\* The port of a reply is in network byte order, as the comment on
\* SocksCommandMsgResp::_port says: its last two bytes are the bound port's.
ReplyPortInNetworkOrder ==
  SubSeq(GrantReply, Len(GrantReply) - 1, Len(GrantReply)) = bound.port
=============================================================================
