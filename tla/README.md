# A verification of the socks5 proxy

TLA+ models of the proxy in `src/src` and of the library it is built with, checked
with TLC and in part proved with TLAPS. The program is a SOCKS5 server in C++17: one
thread, one libevent loop, user/password authentication from a file, and relayed TCP
streams. The library, `libratel`, has threads.

| module | what it holds |
|---|---|
| `SocksServer` | the process: sessions, sockets, state machines, relay, the network around them |
| `SocksServerProps` | what it promises: type invariant, safety, action and liveness properties |
| `SocksServerProofs` | its inductive invariant, the theorems for every value of the constants, and that it implements `SocksService` |
| `SocksService` | what the peers of the proxy are promised, without objects, sockets and callbacks |
| `SocksServerRefines` | the mapping under which `SocksServer` implements `SocksService` |
| `Descriptors`, `DescriptorsProofs` | descriptors as numbers that are used again, and who closes them |
| `SessionIds`, `SessionIdsProofs` | session numbers that wrap, and what a replaced session leaves behind |
| `Logins` | reading and splitting `logins.txt`, as functions of its lines |
| `SocksCodec`, `SocksCodecProofs` | decoders, encoders and address conversion on bytes, and their properties |
| `SignalHandler`, `SignalHandlerProofs` | libratel's signal handler, its queue and the threads that use them |
| `SignalConnections`, `SignalConnectionsProofs` | signals, slots and the objects that have them |
| `MemBuffers` | reader, writer and serialization over a buffer |
| `DataProofs` | the theorems about `MemBuffers` and `Logins`: loops over data of any length |
| `OptionalValue` | `Optional`: lifetimes, assignments, exceptions, comparisons |
| `SelectHandler` | the older `ExSocketHandler` with its `ExSocket`s |
| `LibratelProofs` | the theorems about `OptionalValue` and `SelectHandler` |
| `MC...` | an instance of each module for TLC, with its configurations |

Operators whose comment begins with "Fault" are no part of a model: each is a slip
that the operator below it could have had (see "Mutants").

## 1. The system

### Components

**Session manager and TCP server** (`SessionMng`, `EventTcpServer`).
State: `_currentId`, the map `_sessions` from id to `Session`, the map
`_connections` from the address of a session to its outgoing socket. Operations:
accept a client, start and forget an outgoing connection, erase a session, stop
on SIGINT. Correct when every session that is gone has left no socket and no
pointer behind.

**Session** (`Session`). State: `_inConn`, `_outConn`, `_tcpStreamProxy`, the
tracker. Operations: ask the authorizer, start a connection, report its end, give
both sockets to a proxy, destroy itself. Correct when nothing of it runs after its
end, and the outgoing connection is for authenticated clients only.

**Tracker** (`InConnTracker`) and **state machine** (`StateMachine`). State:
`_state`. The tracker is the user of the client's socket during the handshake,
gives what it reads to the machine, and encodes and sends the machine's answers.
Correct when the handshake only goes forward and its replies are sent in order.

**Stream proxy** (`TcpStreamProxy`, two `DirectedProxyConnection`). Takes over
both sockets after the grant and copies each way. Correct when each side gets
what the other sent, in order, and the end of one side ends the session.

**Event sockets** (`EventSocketConnected`, `EventSocketCommon`). A `bufferevent`
with a user pointer. The user changes from tracker or session to the proxy's
connections, and to null when these go.

**Codec** (`SocksDecoder`, `SocksEncoder`, `SocksCommon`). Pure functions between
bytes and messages. Correct when no buffer is read as two messages, no part of a
message as a whole one, and no byte lands in the wrong field.

**Authorizer** (`SocksLoginPassAuthorizer`): a map from user to password, read
once. **Signal listener**: SIGINT breaks the loop. **main**: builds the manager,
runs it, destroys it.

**Signal handler** (`SignalHandler`, `ConcurrentQueue`; libratel's `NQSignals`, off by
default). State: the queue, the run flag, a thread. Operations: push, run, runOnce,
stop, from any thread. Correct when each signal is executed once and nobody sleeps
while there is one.

**Signal connections** (`NQObject`, `SignalConnectionStorage`, callbacks and hashes).
State: a map from signal to a list of pipes, for each object the hashes of what it is
connected to and its signals in the queue. Operations: connect, disconnect, emit,
deliver, destroy, each of them inside a slot too. Correct when a slot is called for
the object that connected it, and for all of those.

**Reader, writer, serialization** (`MemReader`, `MemWriter`, `Serialize`). State: two
cursors into a buffer. Correct when no call leaves the buffer and a read gives what is
there.

**Optional** (`Optional.h`). State: a flag and a storage. Correct when they agree,
whatever the element's operations throw, and the comparisons are one order.

**Older servers** (`TcpServer.cpp`): `ExSocketHandler`, a select loop over a copy of a
set of sockets that users own, and `TcpServer`, one over a list of clients it owns.
Correct when a client's event reaches that client, once, and no client that is gone.

Of the rest, `TcpServer.cpp` is commented out of the library's build, `Event2Server.cpp`
is one comment, and nothing makes an object of the repository's `Event/EventSocket`.

### How they interact

Everything is a synchronous call inside one callback of the loop:

    libevent -> EventSocketConnected -> InConnTracker -> StateMachine
                                          ^                 |  sendGreetingResponse,
                                          |                 v  requestPassAuth, startProxy ...
                             Session <- InConnTracker -> SocksEncoder -> EventSocketConnected::send
                                |
                                v
             SessionMng::onSessionEnd: _sessions.erase(id) deletes the Session

The last line is what is hard here. A failed send, a protocol error and the end of
either peer all end in `_sessions.erase(id)`, often several frames below code of
the same session that has not returned yet.

### What is hard to test

`PROJECT.json` lists the hazards at their lines. In short: code that goes on in a
session its own call has deleted; events of two sockets of one session in every
order, with the connect's completion between them; users of sockets that change
while events are pending; the map keyed by addresses that are reused; refusals
that are queued on a socket about to be freed; messages cut or joined by TCP; byte
orders; descriptors closed twice; ids that wrap. In the library: races on the
queue and the run flag; slots that disconnect and delete under the loop that calls
them; hashes that collide; arithmetic that wraps; element operations that throw;
sockets deleted, closed and accepted under a select loop.

## 2. The model of the process: `SocksServer`

### Steps

A C++ callback is atomic to the network but not to itself. An action guarded by
`Idle` is the loop dispatching one event, and it contains everything the callback
does up to the first call after which the session may be gone. What the functions
below that call still have to do is pushed on `todo`, the call stack, and runs in
the actions of `Resume`; the loop dispatches nothing before `todo` is empty. The
frames are:

| frame | the code still to run |
|---|---|
| `methodSent` | `processGreetingMsg` after `sendGreetingResponse` (StateMachine.cpp:58) |
| `authCompleted` | `onAuthRequestCompleted` after `processPassAuthResult` (InConnTracker.cpp:20) |
| `proxyStarted` | `processStartProxyResult`, then `responseSent` after its send (StateMachine.cpp:103, :109) |
| `startFailed` | `onStartProxy` after a failure was reported (Session.cpp:25, :32) |
| `makeProxy` | `onConnected` after the result was reported (Session.cpp:63) |

A frame of a session that is no longer in `live` takes `ResumeDestroyed`: if it
touches the object the behaviour is undefined, and the model chooses between a
crash and going on with no effect on what still exists. `stale` records the
session either way.

### State

| variable | code |
|---|---|
| `status` | the process and its loop |
| `currentId`, `live` | `SessionMng::_currentId`, the keys of `_sessions` |
| `addrOf` | the address of each `Session`; an address is free again after deletion |
| `machine` | `StateMachine::_state` |
| `proxy` | `Session::_tcpStreamProxy` is set |
| `conns` | `EventTcpServer::_connections`: absent, a null pointer, or the socket of a session |
| `sock`, `user` | each `EventSocketConnected` and its `_user` |
| `queued`, `flushed` | what was put in the output buffer, and how much of it was written |
| `rcvd` | relayed chunks read from a socket |
| `hungUp` | the peer has closed and the event is still to come |
| `todo` | the call stack |
| `stale`, `sendFailed`, `presented` | history, for the properties |

### Actions

| action | code |
|---|---|
| `OnAcceptConnection` | `EventTcpServer::onAcceptConnection`, `SessionMng::onNewConnection`, the constructors |
| `ReadGreeting`, `ReadPassAuth`, `ReadCommand`, `ReadUnexpected` | `onRead` to `processBuffer` and on to where the call stack may lose its session |
| `OnConnected`, `OnConnectedReset`, `OnConnectError` | `EventSocketConnected::onEvent` on a socket that connects |
| `OnDataReceived` | `DirectedProxyConnection::onReceive`, `TcpStreamProxy::onDataReceived`, `send` |
| `OnConnectionClosed` | `onEvent` with EOF or ERROR, tracker or proxy, `destroySelf` |
| `MethodSent`, `EndIfFailed`, `ProxyStartResult`, `ResponseSent`, `MakeProxy`, `ResumeDestroyed` | the frames above |
| `OnSignal`, `Exit` | SIGINT, the end of `main` |
| `PeerHangsUp`, `Flush` | environment: the peers and libevent's writing |

What a client sends is abstracted to what the machine tells apart: a greeting with
or without the user/password method, a user and password, a command with its kind
of address, or anything else. `SocksCodec` has the bytes. Relayed data are numbered
chunks. A user is one of `Logins`, and `Accounts` is the logins file.

Choices that a reader of the code should know:

- `sendMsg` fails when `evbuffer_add` does (`SendMayFail`) and always for a
  refused command: `SocksAddress{}` has address type 0, which the encoder does not
  know. A refused command therefore never gets a reply, and the rest of
  `processStartProxyResult` and of `onStartProxy` always runs in a deleted session.
- The accepted socket never has `_connected` set, so `closeConnection` does nothing
  on it; it is closed when its `bufferevent` is freed.
- What a peer sent before it closed is read first (`Readable` needs a socket whose
  peer has not hung up; an unread part is the same as one never sent).
- The branch of `Session::onConnected` without a local address is not there: the
  address is assigned in `onEvent` just before.

## 3. The model of the codec: `SocksCodec`

One buffer grows a byte at a time; at every length the three decoders are asked
about it. `ByteAt` bounds the bytes tried at each offset. A decoder is a predicate
and one operator per field, with the offsets of the source. `GetAddress` and
`ConvertAddrToStorage` are what they do to bytes in memory, given `LittleEndian`.

## 4. The model of the signal handler: `SignalHandler`

The only threads of the repository are those of libratel's `NQSignals`. Threads push
signals to a `tools::ConcurrentQueue`; others run the handler in a thread of their
own or in the one `run(true)` starts, drain it with `runOnce`, or stop it.

| variable | code |
|---|---|
| `queue` | `ConcurrentQueue::_queue`, signals numbered in the order of their push |
| `runFlag` | `SignalHandler::_runFlag` |
| `pc` | where each thread is in `push`, `pop`, `run` or `runImpl` |
| `mode` | which loop of `runImpl` a consumer is in |
| `held`, `done` | the local `sig`; the signals executed and deleted |
| `pushed` | bound on signals |
| `terminated` | `std::terminate` was called |
| `late`, `robbed` | history, for the properties |

A step is what a thread does under the mutex, or to the atomic flag, or between two
of these. `Push` ends at the unlock and `Notify` is the `notify_one` after it.
`Take` and `Wait` are the two ways through `pop`; a waiter is woken by `Notify` or
by itself (`WakeUp`) and then tests the queue again. `CallRun`, `SetFlag` and
`Spawn` are the steps of `run`: the flag is tested and set in two of them, so two
callers may both go on. `Spawn` assigns to `_thread`; if there was a thread before,
nobody has joined it and the assignment calls `std::terminate`. `Loop`, `Once`,
`ExecuteSignal` are `runImpl`; `Stop` may come from anybody at any time.

What a signal calls is not modelled: it may emit signals, which is a `Push` of
another thread to the queue, and may call `stop`. `Error::EmptySignal` does not
occur: `SignalHandler::push` never pushes a null pointer. Two concurrent
assignments to `_thread` are a data race; the model lets the second of them
terminate.

## 5. The other models

### `Descriptors`

A session is reduced to its two sockets; `file` is the kernel's table, `fd` and `bev`
what each `EventSocketConnected` has, `connected` its `_connected`. `EndSession` is
`destroySelf` with what it does to the descriptors: `closeConnection`, if the session
relays, closes the outgoing number at once, and both bufferevents are freed. libevent
closes a freed one's number in a deferred finalizer (`Finalize`), after callbacks that
were already active: in between the number is free, and an accept or a connect may be
given it (the kernel takes the lowest). The finalizer then closes a stranger's socket.

### `SessionIds`

`_currentId` has `IdMod` values instead of 2^32, and `_sessions[id] = ...` replaces the
session that has the number, which is then deleted without `destroySelf`: its entry of
`_connections` stays and keeps the socket it was opening, whose user is gone. Addresses
are used again, so a new session may be where the deleted one was. `ConnectedWrong` is
an event of such a socket, with any outcome. A session is asking for its socket, has it
opening, or relays.

### `Logins`

`stringSplit` and `readFile` are functions: of a line, and of the lines of a file. Lines
are sequences of characters here, because positions, the delimiter and npos are what
may go wrong. `MCSocksServer` takes its accounts from a file that is read by them, and
states what they should give as two assumptions, which TLC evaluates before a run:
`SplitLosesNothing` of every line of up to five of three characters, `LastLineWins` of
every file of two lines of up to three. Both are proved of all lines and all files
(`SplitLossless`, `LoginsOfLastLine`); the recursions are written as functions, of the
position where a field begins and of the number of lines read, so that they can be.

### `SignalConnections`

An object is its address. That holds of receivers that begin with their `NQObject`, as
those of the repository's example do: `SignalConnectionStorage.h:87` compares the
receiver's address with that of its `NQObject`, which is another one in a class with
virtual functions, and such a receiver's pipes would stay. `sigMap` is the storage's
table of pipes, `hashes` what each receiver remembers, `waiting` the callbacks of each
sender, `queue` the handler's queue, and `loop` a delivery in progress: the pipes ahead
of it, those called, the pipe in the node it stands on (`remove_if` moves another one
there, whose `disconnect` then takes the node), and whether the node was erased. The handler's lock and threads are in `SignalHandler`;
here user code runs in the one thread that calls `runOnce`, outside of a delivery or in
a slot, and may `Create`, `Connect`, `Disconnect`, `EmitAll` and `Destroy` at will. The
order of a list is left open: any of the pipes ahead may be next. `careless` remembers
the objects that have done one of the two things the table does not survive:
disconnected one of several slots of a signal (`NQObject.h:42` forgets the signal), or
connected a slot whose hash another object's slot has.

### `MemBuffers`

One buffer of N bytes, bytes of B values, sizes of M values: the sums of `Fits` wrap at
M as those of a `size_t` do. A call is a step, and each element of `read(std::vector)`
is one. `last` holds the last call's cursor and result, for the properties. What a read
should give is defined from the other end, as the set of byte sequences that encode a
value (`Encodings`). The values that have to be read back are the `Sized` ones: a string or
vector of B * B or more elements has no two-byte length, so nothing encodes it.

### `OptionalValue`

A storage holds the flag, the object or `NoObject`, and `misused`, which remembers an
object built over another, destroyed twice, or assigned when absent. Each operation has
every outcome its element's operations allow: return, or throw at any of them. The
comparisons are operators, asked of every reachable pair. Assignment from a value
(`AssignValue`) leaves the Optional as it was: `Optional.h:290` returns without a look at
the argument, although the assertion above it asks that it can be assigned.

### `SelectHandler`

The loop passes 0 for `nfds` to `select`, which then reports nothing on Unix; the model
is of the code as it runs on Windows, where the argument is ignored.

A round of `ExSocketHandler` visits a copy of the set (`CopySockets`, `Select`,
`VisitNext`), and each of `onRead`, `onWrite`, `onError` is a step, as is the return
from a callback. `onError` only tells the user. Users delete sockets at any step, in a
callback or from another thread; `TouchDeleted` is the loop at a deleted one.

`ExSocket` and its user speak of a socket, `select` of its number, and the kernel's
table `file` says whose connection a number is. The destructor is three steps: `Delete`
(`onDelSocket`), `CloseSocket` (`TcpServer.cpp:354`) and `CloseAgain`, the destructor of
the member `_sock`, which shuts down and closes the same number once more
(`TcpServer.cpp:220`). When a user's thread deletes, the loop may accept a connection with
that number between the last two: the new connection is closed under its owner, and
`select` fails at its number and ends the loop. `overlapped` remembers the sockets that
were given such a number. `Descriptors` has the same defect of the proxy's sockets.

`Asked` is what finds room in an `fd_set` of `SetSize` numbers: on Windows `FD_SET` drops
the rest without a word. Addresses are not used again, so a socket in a copy stands for
one object. The specification is called `LoopSpec`, because `LibratelProofs` reasons
about it beside that of `OptionalValue`.

## 6. What is checked

| run | bounds | properties |
|---|---|---|
| `server_safety` | 2 clients, 1 chunk per socket, 2 addresses, 3 logins (the right one, an old password, a user without one), sends may fail; 867,549 states | `TypeOK`, seven safety invariants, `NeverBackwards`, `ImplementsService` |
| `server_liveness` | 1 client with its 2 sockets, 2 chunks per socket, 3 logins, sends may fail; 7,497 states | `HangUpEndsSession`, `ConnectResolves`, `RelayedInOrder`, `QueuedIsWritten` |
| `server_assert` | 1 client | `AddressFamilyIsKnown`, violated |
| `descriptors` | 3 sessions, 4 numbers; 113,304 states | `NoLeak`, `LosesOnlyReused`, `NumbersComeBack` |
| `session_ids` | 2 numbers, 3 addresses, 3 outgoing sockets; 560,657 states | `TableIsTheLiving`, `OpeningKnowsItsSession`, `WrongByReplacementOnly` |
| `codec` | buffers to 22 bytes, the longest message to an IP address, a domain of up to 7 bytes; 729,518 states | `OneKindOnly`, `NoPrefixDecodes`, `DecodeThenEncode`, `ConnectsWhereAsked` |
| `codec_reply_port` | little-endian | `ReplyPortInNetworkOrder`, violated |
| `signals` | 2 emitters, 2 callers, the own thread, 2 signals; 172,863 states | five safety invariants, `ExecutedOrStopped` |
| `connections` | a sender, a receiver with 2 slots, one with 1, two slots of one hash, 2 signals; 182,301 states | `PipesAreOwned`, `StaysConnected`, `WaitingIsQueued`, `DeliveryReaches` |
| `buffers` | every buffer of 5 bits, sizes modulo 16; 238,856 states | `OverrunNeedsWrap`, `ReadsAreExact` |
| `optional` | 2 optionals, 3 values, a conversion that is not one-to-one, operations that throw; 665 states | `EngagedIsObject`, `OrderIsTotal` |
| `select` | 2 sockets and the server, 2 numbers, room for all in an `fd_set`; 205,693 states | `RoundsAreSafe`, `CloseIsReported` |

What the runs of the process show:

- `AuthenticatedBeforeConnect`: an outgoing socket exists only for a client that
  sent credentials of the logins file.
- `UsersAreAlive`, `ConnectionsOfTheLiving`: no event is delivered to a deleted
  tracker, session or proxy; the entries that stay in `_connections` for ever are
  null, also for the next session at the same address.
- `SettledBetweenEvents`: after every callback each session is in a state its next
  event is handled in, with its sockets, its proxy and its machine in agreement.
- `StaleOnlyAfterFailedSend`: a deleted session's code runs on only when one of
  its sends was refused. It does then (the model reaches it, and so does every
  refused command): the statement is the boundary of that flaw, not its absence.
- `ClientStreamInOrder`, `RelayedInOrder`: the handshake's replies come once each
  and in order, data only after the grant; relayed data keep their order, and
  without a failed send nothing is lost.
- `RefusalsNeverDelivered`: no client is ever told it was refused. The code means
  to say so (it builds and queues 0xFF and 0x01), but frees the socket first.
- `NeverBackwards`: the handshake only advances, ids do not return, written output
  stays written.
- `HangUpEndsSession`, `ConnectResolves`, `QueuedIsWritten`: a peer that leaves ends
  its session, a connect comes to an end, and what was queued is written, under the
  fairness below.
- `ImplementsService`: `SocksServer` implements `SocksService`. A session is open
  while the manager's map has it, a peer was given the written part of its socket's
  output, the remote is the outgoing socket. All of the machine, the tracker, the
  stack and the pointers are hidden, so no order of events and no interrupted
  callback shows a client a reply that is not true when it is written, a chunk out of
  turn, or anything of a session that has ended.
- `NoLeak`, `NumbersComeBack`: no double close and no early return leaves a number open.
  `LosesOnlyReused`: a session's socket is closed under it only when it was given a number
  that an older bufferevent was still to close. The model reaches this.
- `TableIsTheLiving`: the table stays the living sessions when the numbers wrap.
  `WrongByReplacementOnly`, `OpeningKnowsItsSession`: a deleted or foreign session is
  called only for a socket whose session was replaced while it opened, and a session
  that has asked for a socket of its own is safe from it.
- `SplitLosesNothing`, `LastLineWins`, the assumptions about `Logins`: no line makes `substr` throw
  or loses a character, and a user has the password of the last line about it.

What those of the library show:

- `EachSignalOnce`, `NoWakeupIsLost`: the queue loses no signal and gives none
  twice, and `notify_one` after the unlock is enough however many wait.
- `FlagMeansRunner`: while the flag refuses a `run`, somebody runs, or the program
  has been terminated. A second `run(true)` does that (SignalHandler.cpp:16); the model
  has it, and the property does not rule it out, as nothing in the code does.
- `OneSignalAfterStop`, `RunOnceBlocksOnlyIfRobbed`: how far two races go. A runner
  blocked in `pop` executes one signal after `stop`, and not two; `runOnce`, which
  looks and then pops, blocks only when another consumer came between.
- `ExecutedOrStopped`: a signal pushed to a running handler is executed, or the
  handler is stopped, under weak fairness of every thread that is not blocked.
- `PipesAreOwned`, `StaysConnected`: a pipe belongs to a living
  object that connected it, except those an object left that was careless (above); a
  connection is lost only by its own disconnect and with its receiver, hashes apart.
- `WaitingIsQueued`: the callbacks an object keeps are exactly those it has emitted since
  it was created that the handler has still to take: none is dropped early or kept
  longer, they die with the object, and no object created at its address inherits one.
- `DeliveryReaches`, in two parts. `ReceiversAreReached`: a delivery misses nobody who was connected when it began and
  still is, unless a deletion moved the list's values to other nodes under the loop
  (`SignalConnectionStorage.h:86`: `remove_if` assigns them). `OnlyReceiverMayLeave`: the only receiver of a signal may disconnect or die in its
  slot. With several it must not: the loop goes on from an erased node, and the model
  has the crash.
- `OverrunNeedsWrap`: a read or write leaves the buffer only for a size whose sum with
  the cursor is no `size_t`; no length inside the data can be one.
- `ReadsAreExact`: a read consumes exactly an encoding of what it gives
  (`ReadIsEncoded`) and fails only when none is there (`EncodedIsRead`). Of a read that
  failed it says neither where the cursor is nor what part of the value was filled.
- `EngagedIsObject`: whatever throws, the flag and the object agree.
- `OrderIsTotal`: a copy is equal to its source, and all comparisons are those of one order with the empty
  Optional first, but for `<` and `<=` with the Optional on the left and a value on the
  right: the first is false for an empty one, the second is `>=` (Optional.h:510, 534).
- `RoundsAreSafe`: only a socket deleted while a round has it in its copy is touched
  after its end (`TouchesOnlyCaught`). A socket reported closed is not watched again
  (`ClosedIsUnwatched`); that `onWrite` reports it connected once more in the same round
  is what the code does, and is modelled. The loop ends or crashes only if a socket was
  deleted under a round or if a connection was accepted with a number that stood between
  two closes (`LoopEndsOnlyByDeletes`): a deletion between two rounds does harm by its
  second close alone.
  Until a connection is given such a number, every socket has its own connection up to
  its first close, and the second close reaches nobody's (`NumbersAreKept`).
- `CloseIsReported`: a peer's close is reported and the socket dropped, with unread bytes
  and in the middle of a round too. It is claimed where the `fd_set` has room for every
  socket, 64 on Windows, and of a socket that did not lose its number as above.

Deadlock is checked in `optional` only: the program may stop, and a proxy whose clients are all
silent has nothing to do; with the bounds the model stops there.

Two clients are enough for one session to interfere with another through the
shared maps, the reused address and the loop; two addresses let a new session get
the address of a deleted one or a fresh one. One chunk each way makes both sides of
a relay non-empty at once; order and loss within a side need two, so `RelayedInOrder`
is checked in `server_liveness`, with one session that relays two each way: nothing a
session relays depends on another session, and its two sockets compete for the loop
as those of two sessions do. Addresses are only compared, so they are symmetric in
`server_safety`, which checks no liveness. In `select` one
socket can stand between its closes while the other is given its number; that more
sockets, numbers or a smaller `fd_set` change nothing for `RoundsAreSafe` is `RoundsSafe`.

Two emitters and three consumers are enough for a notification to meet a consumer
that was not the one it was meant for; two signals for one to be in the queue while
the other is with a consumer, or both in it.

Three sessions and four numbers make the six sockets compete, and let a number be
closed by one session, given to a second and closed again by the first. Two session
numbers with three addresses let a third client replace the first, at its address or
another. Two slots of one receiver and a third slot of the same hash are the least for
both ways to be careless and for a loop that has a pipe before and one behind it. Five
bits hold a vector of one string, each of the 2-byte lengths, and an end in the middle
of any of them; M = 16 puts sums on both sides of the wrap. Two optionals are all an
operation has. Two sockets let one be deleted in the other's callback.

### Fairness

`FairSpec` of the process adds weak fairness of four things and nothing else. A callback that has
begun returns (`Resume`). libevent's dispatch serves every active event of a loop
iteration in turn, so an end that was seen is dispatched (`OnConnectionClosed`), a
connect comes to an end, if only by the kernel's timeout (`Connects`), and output
is written to a peer that is there (`Flush`). Weak fairness suffices although these
actions are disabled while a callback runs: the bounds on clients and chunks make
the callbacks of a behaviour finitely many, after which they stay enabled. Nothing
is assumed of what clients send, of hang-ups, or of the signal. A slow peer is not
a peer that hangs up: `QueuedIsWritten` assumes a peer that reads.

`FairSpec` of the signal handler schedules every thread that is inside a call of
the library and not blocked. Nobody has to emit, run, or stop, and no wait has to
end by itself.

In `Descriptors` libevent runs its queued finalizers; in `SelectHandler` the loop's
thread is scheduled. No user, client or peer has to do anything.

### Disagreements found

- `AddressFamilyIsKnown`. `EventSocketCommon.cpp:49` asserts that the family of an
  address is known; `getpeername`'s result is not looked at (line 135), and a
  remote that resets the connection right after it completed leaves the family 0.
- `ReplyPortInNetworkOrder`. `SocksTypes.h:174` says the reply's port is in network
  byte order; `getAddress` has passed it through `ntohs` (`EventSocketCommon.cpp:32`)
  and nobody turns it back. (The same holds of an IPv4 address, line 28.)

### Mutants

Every property of a passing run has a mutant: an operator whose comment begins with
"Fault", defined before the one it replaces, a slip in that very code. With it in
place TLC finds the property violated.

## 7. What is proved

For every value of the constants, under the assumptions named in each module (bounds
are naturals, sets of threads finite, sizes as far apart as those of C++):

| module | theorems |
|---|---|
| `SocksServerProofs` | `TypeCorrect` (`TypeOK`), `UsersStayAlive` (`UsersAreAlive`), `ConnectionsHold` (`ConnectionsOfTheLiving`), `ConnectsAuthenticated` (`AuthenticatedBeforeConnect`), `StaleAfterFailure` (`StaleOnlyAfterFailedSend`), `SessionsSettle` (`SettledBetweenEvents`), `ClientStreams` (`ClientStreamInOrder`), `Refusals` (`RefusalsNeverDelivered`), `Relays` (`RelayedInOrder`), `OnlyForward` (`NeverBackwards`), `Refinement` (`ImplementsService`) |
| `DescriptorsProofs` | `DescriptorsSafe` (`DescriptorInvariant`), `NothingLeaks` (`NoLeak`), `OnlyReusedAreLost` (`LosesOnlyReused`) |
| `SessionIdsProofs` | `TableHolds` (`TableIsTheLiving`), `SocketsReport` (`OpeningKnowsItsSession`), `WrongByReplacement` (`WrongByReplacementOnly`) |
| `SocksCodecProofs` | `OneKind` (`OneKindOnly`), `NoPrefix` (`NoPrefixDecodes`), `DecodeEncode` (`DecodeThenEncode`), `ConnectsAsked` (`ConnectsWhereAsked`) |
| `SignalHandlerProofs` | `ThreadsSafe`, `FlagIsTrue` (`FlagMeansRunner`), `OneAfterStop` (`OneSignalAfterStop`), `OnceIsRobbed` (`RunOnceBlocksOnlyIfRobbed`), `WakeupsReach` (`NoWakeupIsLost`), `SignalsOnce` (`EachSignalOnce`), `HandlerSafe` (`HandlerInvariant`) |
| `SignalConnectionsProofs` | `PipesTracked` (`PipesAreTracked`), `PipesOwned` (`PipesAreOwned`), `ConnectionsStay` (`StaysConnected`), `CallbacksWait` (`WaitingIsQueued`), `DeliveriesReach` (`DeliveryReaches`) |
| `DataProofs` | `CursorsStay` (`CursorInvariant`), `OverrunsWrap` (`OverrunNeedsWrap`), `ReadsExact` (`ReadsAreExact`), `SplitLossless` (`LosesNothing`), `LoginsOfLastLine` (`LastSays`) |
| `LibratelProofs` | `FlagIsObject` (`EngagedIsObject`), `OneOrder` (`OrderIsTotal`), `RoundsSafe` (`RoundsAreSafe`) |

**The process.** None of its properties is inductive alone. The invariant `Inv` of the
proofs is `TypeOK`, `Structure`, `Callbacks`, `Phases` and `Streams`, each of which is
inductive with those before it; `SocksServerProofs` defines them.

*Structure* adds `AddressesDiffer`. Deleting session i clears the entry of i's
*address*; only because no two live sessions share one does that clear i's pointer
and no other. The key lemma is `DestroyFrees`: the end of a session frees both its
sockets, the outgoing one because its last other reference was that entry.

*Callbacks* describes the call stack. `FramesMeetTheirState` says there are at most
two frames, of one session, and where the machine stands when each of them goes
on; `StaleFramesHaveFailed` that a frame which will touch a deleted session is there
because a send of that session was refused; `HandshakeProgress` ties the machine's
state to the outgoing socket and to the credentials shown. With these, a step of
`Resume` on a live session finds the state the caller left (`ReturnKeepsCallbacks`),
and one on a deleted session is accounted for by `sendFailed`.

*Phases* lists where a live session can be: a line of `Phase` is a place where a
callback ends or makes a call, with the machine, the outgoing socket, the proxy, the
frames and the length of the client's stream that belong together there. A step moves
one session from line to line (`OneSessionMoves`); the others keep theirs because they
are at rest. `SettledBetweenEvents` is what is left of it when the stack is empty.

*Streams* is about what was queued. The stream of a live session's client is on the
script of replies and chunks, or its last reply is a refusal and the frame that will
end the session is on the stack (`Refused`): nothing is flushed while a frame is there,
so the refusal is freed unwritten. That a refusal is never written is inductive only
with that. `RelayedInOrder` compares each queue with the chunks read from the other
side: equal numbers without a failed send, and in order with one.

*OnlyForward* needs `Inv` for the machine (a frame of a live session finds the state it
expects, so `ProxyStartResult` and `ResponseSent` advance it) and for the output (a
queue is only appended to, or belongs to a socket that is freed).

*Refinement* has one lemma for each kind of step. A client that is accepted, shows its credentials or
ends, a connect that starts or ends and a chunk that is read are steps of
`SocksService`; other reads and every return of a frame that does not end its session
are stutters, because what is queued is hidden until `Flush` writes it. `FlushRefines`
is where *Streams* is used: that the item written next is
the one the service allows then comes from the client's script and from the order of
the relay. The step `[Next]_vars => [Service!Next]_(Service!vars)` is `StepRefines`.

**Descriptors.** `NoLeak` needs to know which bufferevents are live in which stage of a
session (`BeventsOfSessions`), so that an end frees both; `LosesOnlyReused` needs
`SharedIsReused`: of two bufferevents with one number, the one the kernel's table
names came later, so whatever a finalizer closes under another was marked.

**The signal handler.** `ThreadInvariant` says where each thread can be and in which
loop; a runner yet to pop has popped nothing since the stop, and a caller of `runOnce`
about to pop saw a signal that is there or was popped by another. `NoWakeupIsLost` is
inductive beside it: a push adds one signal and one notifier, a notification turns a
notifier into a woken thread or finds nobody waiting, a woken thread removes a signal
or proves the queue empty. The cardinalities are those of finite sets of threads
(`ThreadsAssumption`). `SignalPlaces` makes `EachSignalOnce` inductive: the queue holds
the latest signals in their order, so what was popped is an initial segment, each of it
done or with exactly one consumer.

**Session numbers.** The inductive invariant of `SessionIds` says that a session is in
the table under its own number only (`NumbersAreKept`), and that the map may have a
socket that no session holds, opened by a session that was replaced (`SocketsAreKept`).
With these a `destroySelf` erases its own entry and no younger session's, an orphan is
freed as soon as a session at its address asks for a socket, and `crashed` needs an
orphan.

**The codec.** Nothing but that a buffer holds bytes (`Buffered`) is needed of the
behaviour: the four theorems hold of every sequence of bytes, so of messages longer
than `MaxLength` too. Each decoder asks for the exact length, and the bytes it computes
that length from are in any beginning it accepts: so no proper beginning decodes.
`DecodeThenEncode` joins the fields of a message, which are adjacent (`Joined`), up to
the whole buffer. It is proved without the condition that the encoder accepts the
fields.

**Optional.** `StorageIsSound` is inductive by one lemma for each member
(`ConstructOutcome`, `AssignOutcome`, `CopyOutcome`): what it returns and what it leaves
when something throws. A variable out of scope has no object, so a constructor never
builds over one. `OrderIsTotal` is then arithmetic about sound storages, with
`CopyIsEqual` for the call that was last.

**Connections.** `PipesAreTracked` is inductive with the types of the table: a pipe is
added with its receiver's hash, and a hash is forgotten with all pipes of the receiver,
unless the receiver is careless. `PipesAreOwned` follows. `StaysConnected` needs that a
pipe is under the hash of its slot (`KeyInvariant`), so that only a slot of that hash
replaces or erases it; `WaitingIsQueued` that ids are counted up (`IdsAreCounted`), so
that two callbacks never share one and the queue has no id twice: what `Dispatch` takes
is then in the queue no more. `DeliveryReaches` rests on `LoopIsSound`: the pipes
ahead of the loop are in the table, every pipe it began with is called, ahead, erased or
behind a node that was erased or moved, and a lone receiver is called first. What a
deletion does to the list depends on how many pipes are left, so the table's lists have
to be finite (`TableIsFinite`).

**The select handler.** `LoopInvariant` adds to the properties that a watched socket is
connected and was not reported closed, unless the loop is in its `onConnectionClosed`
(`WatchedIsOpen`), and that a socket which exists has a number (`AcceptedHaveNumbers`).
The parts need each other: `select` fails on a number that is closed, and by
`NumbersAreKept` that is the number of a socket on its way out, which the copy has only
if it was deleted under the round. `SetSize` plays no part: nothing is assumed of it.

**Data of any length.** What a loop computes for every input is proved by induction over
numbers, which `DataProofs` derives from one theorem of the library: every non-empty set
has a minimal element of a well-founded relation (`WFMin`), so a set of numbers has a
least one (`LeastNumber`), so a set that has 0 and the successor of each of its numbers
has them all (`Induction`). `Recursion` and `RecursionDown` derive likewise that a
recursive function of the model exists and obeys its equation, upwards, or downwards for
one that calls itself at later positions.

*Buffers.* The cursors stay in the buffer because a sum that passes `Fits` is in it or
has wrapped, and the sizes the library itself asks for (up to 8, or a 2-byte length) are
too small to wrap. `ReadsExact` is about both directions of each read: what it consumed
is an encoding of what it gives, and where it fails nothing at its cursor is one. For a
scalar that is division by the base, byte by byte (`BytesOfScalar`). A vector is read in
steps; `LoopInvariant` says that the elements read so far, encoded and joined, are
the bytes between the count and the cursor, and that the count is theirs and that of the
elements to come (`Loop`, `Alone`). When an element is missing no vector was there
(`NextThere`): its encoding would begin with the same elements, and go on with the next.

*Logins.* `SplitEquations` unrolls the loop of `stringSplit`: from where a field begins
it takes the field up to the next delimiter, and goes on behind it, or ends with the
line. That nothing is lost follows by induction from the end of the line to its start
(`SplitKeeps`). `LoginsOfLastLine` needs that a line can be taken apart in one way only
(`UniqueField`), so the first two fields are the name and the password exactly if
the line begins as `Says` demands (`NameOfLine`, `PasswordOfLine`), and then induction
over the lines: a line either has two fields and replaces its user's pair, or is skipped.

Only model-checked: liveness (`HangUpEndsSession`, `ConnectResolves`, `QueuedIsWritten`,
`NumbersComeBack`, `ExecutedOrStopped`, `CloseIsReported`), which rests on fairness and
is out of the prover's reach. The type invariants of `Descriptors`, `SessionIds` and
`SignalHandler` and the inductive invariants are proved and are no properties of the
runs.

## 8. Not modelled

- Command-line arguments; `libevent_global_shutdown` before the destructors, whose
  consequences are internal to libevent.
- Back-pressure: the code has none, and `MaxChunks` bounds the data.
- Two threads in one `std::set` at once (`NQObject.h:57`): undefined behaviour of a
  container has no states to speak of. `SignalConnections` is single-threaded.
- The class `TcpServer` with its `TcpSocket`s: a file that is not compiled, and on Unix a
  loop that reports nothing, as `select` gets 0 for `nfds`. `~ExSocketHandler` while its
  loop runs in another thread, and the end of a listening `ExSocket`.
- Sockets beyond `FD_SETSIZE` are not served until others go: the code does not count
  them, so nothing can be claimed of them.
- Receivers of signals that do not begin with their `NQObject`
  (`SignalConnectionStorage.h:87`).
- `tryPop` and `size` of the queue, `add` twice and `del` of the signal listener: nothing
  calls them.
- `Event/EventSocket` (no object is made), `Event2Server.cpp` (one comment), `InetUtils`
  and the other one-line wrappers, logging, the wording of exceptions, tests.

## 9. Plan

Done: the models of sections 2 to 5 and the theorems of section 7, which state every
safety and action property of the runs. Next, in this order:

1. `StateMachine` alone, with an owner that may do anything its interface allows.
2. `SocksService` as the abstract side of `SessionIds` too: what its clients are still
   promised when numbers wrap.
