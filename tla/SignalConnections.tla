------------------------- MODULE SignalConnections -------------------------
(* Signals and slots of libratel: SignalConnectionStorage, NQObject and the
   callbacks they share.

   An object is its address, so an address may be used again. The storage keeps the
   address of the receiver, and ~NQObject looks for its own: they are one only where
   NQObject is at the start of the receiver, which a receiver with virtual functions
   denies it, as NQObject has none. The storage maps the
   hash of a signal to its connection, the list of pipes, which are told apart by
   the hash of their callback. The order of the list is left open: of the pipes
   that are ahead of a loop over it any may be the next.

   Everything runs in one thread, the one that calls runOnce: SignalHandler has the
   threads and the queue's lock. connect and disconnect are called on the receiver,
   as in the example of Event2Server.cpp. User code is free to create, delete,
   connect, disconnect and emit, in a slot as well as outside. Operators whose
   comment begins with Fault are not part of the model: each is a plausible slip in
   the operator below it. *)
EXTENDS Naturals, Sequences, FiniteSets

CONSTANTS
  Objects,   \* addresses of NQObjects
  Signals,   \* pairs of an object and the name of a signal
  Slots,     \* pairs of an object and the name of a slot
  Hash,      \* makeHash of each of these pairs; two pairs may have one hash
  MaxEmits   \* bound: signals emitted in a behaviour

ASSUME PairsAssumption ==
  Signals \subseteq Objects \X STRING /\ Slots \subseteq Objects \X STRING
ASSUME HashAssumption == Hash \in [Signals \cup Slots -> Nat]
ASSUME MaxEmitsAssumption == MaxEmits \in Nat

SignalHashes == {Hash[x] : x \in Signals}
SlotHashes == {Hash[x] : x \in Slots}
Pipes == [object : Objects, slot : Slots]
Idle == [hash |-> 0, first |-> {}, several |-> FALSE, left |-> {}, calls |-> {}, done |-> {},
         node |-> {}, lost |-> FALSE, shifted |-> FALSE]

VARIABLES
  crashed,
  live,      \* the objects that exist
  sigMap,    \* SignalConnectionStorage::_sigMap, a map of maps from hash to pipe
  hashes,    \* NQObject::_hashes
  waiting,   \* NQObject::_waitingSignals; an id stands for a callback
  queue,     \* the handler's queue of callback ids and hashes
  nextId,
  loop,      \* onSignalEmmited: the pipes it found, those ahead of its iterator, the
             \* slot it calls, those it has called, the pipe in the node it is at,
             \* whether that node was erased, and whether pipes have moved to other
             \* nodes under it
  made,      \* history: the connections of an object since it was created
  emitted,   \* history: the callbacks it has queued since then
  careless   \* history: objects that disconnected one of several slots of a signal,
             \* or met another object's pipe with the hash of their slot

vars == <<crashed, live, sigMap, hashes, waiting, queue, nextId, loop, made, emitted, careless>>

Init ==
  /\ crashed = FALSE
  /\ live = {}
  /\ sigMap = [h \in {} |-> {}]
  /\ hashes = [o \in Objects |-> {}]
  /\ waiting = [o \in Objects |-> {}]
  /\ queue = <<>>
  /\ nextId = 1
  /\ loop = Idle
  /\ made = [o \in Objects |-> {}]
  /\ emitted = [o \in Objects |-> {}]
  /\ careless = {}

Running == ~crashed /\ (loop = Idle \/ loop.calls # {})

Without(f, xs) == [x \in DOMAIN f \ xs |-> f[x]]
With(f, x, v) == [y \in DOMAIN f \cup {x} |-> IF y = x THEN v ELSE f[y]]

\* list::erase of the pipe of k with its node: the other nodes stay.
LoopErases(h, k) ==
  loop' = IF loop.hash = h /\ loop.several
          THEN [loop EXCEPT !.left = @ \ {k}, !.lost = @ \/ k \in loop.node]
          ELSE loop

\* remove_if moves the pipes that stay to the first nodes of the list, and then the
\* last nodes are erased. For every erased pipe that the loop was at or had passed,
\* one that was ahead comes to be behind, the last of them in the node of the loop; if
\* they do not suffice, the node is gone.
LoopCompacts(h, erased) ==
  LET ahead == loop.left \ erased
      passed == erased \ loop.left
  IN
  IF loop.hash # h \/ ~loop.several \/ erased = {} THEN loop' = loop
  ELSE IF Cardinality(ahead) < Cardinality(passed)
  THEN loop' = [loop EXCEPT !.left = {}, !.lost = TRUE, !.shifted = TRUE]
  ELSE \E missed \in SUBSET ahead :
         /\ Cardinality(missed) = Cardinality(passed)
         /\ \E node \in {{k} : k \in missed} \cup (IF passed = {} THEN {loop.node} ELSE {}) :
              loop' = [loop EXCEPT !.left = ahead \ missed, !.node = node,
                                   !.shifted = @ \/ passed # {}]

-----------------------------------------------------------------------------

Create(o) ==
  /\ Running
  /\ o \notin live
  /\ live' = live \cup {o}
  /\ UNCHANGED <<crashed, sigMap, hashes, waiting, queue, nextId, loop, made, emitted, careless>>

\* connect: a new connection, the pipe with this slot's hash made new, or one more
\* pipe at the end. The pipe that is made new keeps its object.
Connect(signal, slot) ==
  LET h == Hash[signal]
      k == Hash[slot]
      conn == IF h \in DOMAIN sigMap THEN sigMap[h] ELSE [x \in {} |-> {}]
      known == k \in DOMAIN conn
      pipe == [object |-> IF known THEN conn[k].object ELSE slot[1], slot |-> slot]
  IN
  /\ Running
  /\ signal[1] \in live /\ slot[1] \in live
  /\ sigMap' = With(sigMap, h, With(conn, k, pipe))
  /\ loop' = IF loop.hash = h /\ loop.several /\ ~known
             THEN [loop EXCEPT !.left = @ \cup {k}] ELSE loop
  /\ hashes' = [hashes EXCEPT ![slot[1]] = @ \cup {h}]
  /\ made' = [made EXCEPT ![slot[1]] = @ \cup {<<h, slot>>}]
  /\ careless' = IF pipe.object = slot[1] THEN careless ELSE careless \cup {slot[1]}
  /\ UNCHANGED <<crashed, live, waiting, queue, nextId, emitted>>

\* Fault: the connection goes with its first pipe.
DisconnectAll(signal, slot) ==
  LET h == Hash[signal] o == slot[1] IN
  /\ Running
  /\ signal[1] \in live /\ o \in live
  /\ h \in DOMAIN sigMap /\ Hash[slot] \in DOMAIN sigMap[h]
  /\ sigMap' = Without(sigMap, {h})
  /\ LoopErases(h, Hash[slot])
  /\ hashes' = [hashes EXCEPT ![o] = @ \ {h}]
  /\ made' = [made EXCEPT ![o] = @ \ {<<h, slot>>}]
  /\ UNCHANGED <<crashed, live, waiting, queue, nextId, emitted, careless>>

\* disconnect erases the pipe, the connection if it was the last one, and the hash
\* from the receiver, which may have other pipes in this connection.
Disconnect(signal, slot) ==
  LET h == Hash[signal]
      k == Hash[slot]
      o == slot[1]
      rest == Without(sigMap[h], {k})
  IN
  /\ Running
  /\ signal[1] \in live /\ o \in live
  /\ h \in DOMAIN sigMap /\ k \in DOMAIN sigMap[h]
  /\ sigMap' = IF DOMAIN rest = {} THEN Without(sigMap, {h}) ELSE With(sigMap, h, rest)
  /\ LoopErases(h, k)
  /\ hashes' = [hashes EXCEPT ![o] = @ \ {h}]
  /\ made' = [made EXCEPT ![o] = @ \ {<<h, slot>>}]
  /\ careless' = IF \E j \in DOMAIN rest : o \in {rest[j].object, rest[j].slot[1]}
                 THEN careless \cup {o} ELSE careless
  /\ UNCHANGED <<crashed, live, waiting, queue, nextId, emitted>>

OwnPipes(h, o) == {k \in DOMAIN sigMap[h] : sigMap[h][k].object = o}

\* Fault: the connection is erased only when it has become empty.
DestroyIfAlone(o) ==
  LET alone == {h \in hashes[o] \cap DOMAIN sigMap : OwnPipes(h, o) = DOMAIN sigMap[h]} IN
  /\ Running
  /\ o \in live
  /\ live' = live \ {o}
  /\ sigMap' = Without(sigMap, alone)
  /\ IF loop.hash \in alone THEN LoopCompacts(loop.hash, OwnPipes(loop.hash, o))
     ELSE UNCHANGED loop
  /\ hashes' = [hashes EXCEPT ![o] = {}]
  /\ waiting' = [waiting EXCEPT ![o] = {}]
  /\ made' = [made EXCEPT ![o] = {}]
  /\ emitted' = [emitted EXCEPT ![o] = {}]
  /\ UNCHANGED <<crashed, queue, nextId, careless>>

\* Fault: the callbacks that wait stay.
DestroyKeepsWaiting(o) ==
  /\ Running
  /\ o \in live
  /\ live' = live \ {o}
  /\ sigMap' = [h \in DOMAIN sigMap |->
                  IF h \in hashes[o] THEN Without(sigMap[h], OwnPipes(h, o)) ELSE sigMap[h]]
  /\ IF loop.hash \in hashes[o] \cap DOMAIN sigMap
     THEN LoopCompacts(loop.hash, OwnPipes(loop.hash, o))
     ELSE UNCHANGED loop
  /\ hashes' = [hashes EXCEPT ![o] = {}]
  /\ made' = [made EXCEPT ![o] = {}]
  /\ emitted' = [emitted EXCEPT ![o] = {}]
  /\ UNCHANGED <<crashed, waiting, queue, nextId, careless>>

\* ~NQObject: its pipes go from the connections it has hashes of, which may be left
\* empty; callbacks that wait die with it. What is connected to it stays.
Destroy(o) ==
  /\ Running
  /\ o \in live
  /\ live' = live \ {o}
  /\ sigMap' = [h \in DOMAIN sigMap |->
                  IF h \in hashes[o] THEN Without(sigMap[h], OwnPipes(h, o)) ELSE sigMap[h]]
  /\ IF loop.hash \in hashes[o] \cap DOMAIN sigMap
     THEN LoopCompacts(loop.hash, OwnPipes(loop.hash, o))
     ELSE UNCHANGED loop
  /\ hashes' = [hashes EXCEPT ![o] = {}]
  /\ waiting' = [waiting EXCEPT ![o] = {}]
  /\ made' = [made EXCEPT ![o] = {}]
  /\ emitted' = [emitted EXCEPT ![o] = {}]
  /\ UNCHANGED <<crashed, queue, nextId, careless>>

\* emitAll: nothing without a connection, else a callback is queued.
EmitAll(signal) ==
  /\ Running
  /\ signal[1] \in live
  /\ Hash[signal] \in DOMAIN sigMap
  /\ nextId <= MaxEmits
  /\ waiting' = [waiting EXCEPT ![signal[1]] = @ \cup {nextId}]
  /\ emitted' = [emitted EXCEPT ![signal[1]] = @ \cup {nextId}]
  /\ queue' = Append(queue, [id |-> nextId, hash |-> Hash[signal]])
  /\ nextId' = nextId + 1
  /\ UNCHANGED <<crashed, live, sigMap, hashes, loop, made, careless>>

-----------------------------------------------------------------------------

\* Fault: a connection with one pipe goes the way of the others.
StartsLoop(h) ==
  loop' = [Idle EXCEPT !.hash = h, !.first = DOMAIN sigMap[h], !.left = DOMAIN sigMap[h],
                       !.several = TRUE]

\* A connection with one pipe is called without a loop over the list.
Starts(h) ==
  loop' = [Idle EXCEPT !.hash = h, !.first = DOMAIN sigMap[h], !.left = DOMAIN sigMap[h],
                       !.several = \A k \in DOMAIN sigMap[h] : DOMAIN sigMap[h] # {k}]

\* SignalStorage::call and the start of onSignalEmmited: nothing if the callback died
\* with its object, or if nobody is connected any more.
Dispatch ==
  LET sig == Head(queue) IN
  /\ ~crashed
  /\ loop = Idle
  /\ queue # <<>>
  /\ queue' = Tail(queue)
  /\ waiting' = [o \in Objects |-> waiting[o] \ {sig.id}]
  /\ IF (\E o \in Objects : sig.id \in waiting[o]) /\ sig.hash \in DOMAIN sigMap
     THEN Starts(sig.hash)
     ELSE UNCHANGED loop
  /\ UNCHANGED <<crashed, live, sigMap, hashes, nextId, made, emitted, careless>>

\* The iterator is at the pipe of k. A slot of a deleted object is undefined: it
\* crashes, or does nothing before it returns.
CallSlot(k) ==
  /\ ~crashed
  /\ loop # Idle /\ loop.calls = {}
  /\ k \in loop.left
  /\ loop' = [loop EXCEPT !.left = @ \ {k}, !.calls = {k}, !.node = {k}, !.done = @ \cup {k}]
  /\ \/ UNCHANGED crashed
     \/ sigMap[loop.hash][k].slot[1] \notin live /\ crashed' = TRUE
  /\ UNCHANGED <<live, sigMap, hashes, waiting, queue, nextId, made, emitted, careless>>

\* The slot returns. If its node was erased, the step to the next one is undefined:
\* it crashes, finds the next one, or ends the loop.
SlotReturns ==
  /\ ~crashed
  /\ loop.calls # {}
  /\ \/ loop' = [loop EXCEPT !.calls = {}, !.node = {}] /\ UNCHANGED crashed
     \/ /\ loop.lost /\ loop' = [loop EXCEPT !.calls = {}, !.node = {}, !.left = {}]
        /\ UNCHANGED crashed
     \/ loop.lost /\ UNCHANGED loop /\ crashed' = TRUE
  /\ UNCHANGED <<live, sigMap, hashes, waiting, queue, nextId, made, emitted, careless>>

LoopEnds ==
  /\ ~crashed
  /\ loop # Idle /\ loop.calls = {} /\ loop.left = {}
  /\ loop' = Idle
  /\ UNCHANGED <<crashed, live, sigMap, hashes, waiting, queue, nextId, made, emitted, careless>>

Next ==
  \/ \E o \in Objects : Create(o) \/ Destroy(o)
  \/ \E signal \in Signals, slot \in Slots :
       Connect(signal, slot) \/ Disconnect(signal, slot)
  \/ \E signal \in Signals : EmitAll(signal)
  \/ Dispatch
  \/ \E k \in loop.left : CallSlot(k)
  \/ SlotReturns
  \/ LoopEnds

Spec == Init /\ [][Next]_vars

-----------------------------------------------------------------------------
(* Properties *)

\* A slot is only called for an object that lives and connected it: a pipe to a
\* deleted object, or to one that was created at its address since, is left over
\* from an object that disconnected one of several slots of a signal, or whose slot
\* met another with its hash.
PipesAreOwned ==
  \A h \in DOMAIN sigMap : \A k \in DOMAIN sigMap[h] :
    LET slot == sigMap[h][k].slot IN
      <<h, slot>> \in made[slot[1]] \/ slot[1] \in careless

\* A connection is lost only by its own disconnect and with its receiver, if no other
\* slot has its hash: other receivers come and go beside it, in slots too.
StaysConnected ==
  \A o \in Objects : \A h \in SignalHashes, slot \in Slots :
    /\ <<h, slot>> \in made[o]
    /\ \A other \in Slots : Hash[other] = Hash[slot] => other = slot
    => h \in DOMAIN sigMap /\ Hash[slot] \in DOMAIN sigMap[h]

\* The callbacks an object keeps are those it has emitted since it was created that the
\* handler has still to take from the queue: none is dropped before, none is kept
\* longer, they die with their object, and what is created at its address has none.
WaitingIsQueued ==
  /\ \A o \in Objects :
       waiting[o] = {id \in emitted[o] : \E n \in DOMAIN queue : queue[n].id = id}
  /\ \A o, p \in Objects : o # p => waiting[o] \cap waiting[p] = {}

\* A slot that was connected when the delivery began, and still is, has been called or
\* will be, whatever slots connect and disconnect meanwhile. Only the deletion of an
\* object whose pipe the loop has passed can hide one.
ReceiversAreReached ==
  loop # Idle /\ loop.hash \in DOMAIN sigMap /\ ~loop.lost /\ ~loop.shifted =>
    loop.first \cap DOMAIN sigMap[loop.hash] \subseteq loop.done \cup loop.left

\* The only receiver of a signal may disconnect itself or be deleted in its slot. The
\* handler is not safe with several: the loop steps on from the node that was erased.
OnlyReceiverMayLeave == crashed /\ careless = {} => \A k \in loop.first : loop.first # {k}

\* A delivery in which slots change the connection: it reaches its receivers, and
\* what it must not survive takes several of them.
DeliveryReaches == ReceiversAreReached /\ OnlyReceiverMayLeave
=============================================================================
