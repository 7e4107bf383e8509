---------------------- MODULE SignalConnectionsProofs ----------------------
(* Proofs about SignalConnections, for all objects, signals and slots, whatever
   their hashes. *)
EXTENDS SignalConnections, FiniteSetTheorems, TLAPS

(* The inductive invariant of the proofs *)

\* What ~NQObject goes by: the pipe names its receiver, which has the signal's hash.
PipesAreTracked ==
  \A h \in DOMAIN sigMap : \A k \in DOMAIN sigMap[h] :
    LET pipe == sigMap[h][k] o == pipe.slot[1] IN
      o \notin careless =>
        /\ pipe.object = o
        /\ h \in hashes[o]
        /\ <<h, pipe.slot>> \in made[o]

\* The callback that runs: the pipes ahead of it are in the table; a lone receiver is
\* called first and nothing is done to the loop then; and what a node that was erased
\* leads to takes several receivers, or one that is careless.
LoopIsSound ==
  /\ loop \in [hash : Nat, first : SUBSET SlotHashes, several : BOOLEAN,
               left : SUBSET SlotHashes, calls : SUBSET SlotHashes,
               done : SUBSET SlotHashes, node : SUBSET SlotHashes,
               lost : BOOLEAN, shifted : BOOLEAN]
  /\ loop.lost => loop.several
  /\ loop.several => \A k \in loop.first : loop.first # {k}
  /\ ~loop.several => /\ loop.first \subseteq loop.done \cup loop.left
                      /\ \A j, k \in loop.left : j = k
                      /\ loop.calls # {} => loop.left = {}
  /\ loop.left # {} => /\ loop.hash \in DOMAIN sigMap
                       /\ loop.left \subseteq DOMAIN sigMap[loop.hash]
  /\ loop.hash \in DOMAIN sigMap /\ ~loop.lost /\ ~loop.shifted =>
       loop.first \cap DOMAIN sigMap[loop.hash] \subseteq loop.done \cup loop.left
  /\ crashed /\ careless = {} => loop.several

\* Connections are finite, and of objects that live.
TableIsFinite ==
  /\ \A h \in DOMAIN sigMap :
       DOMAIN sigMap[h] \subseteq SlotHashes /\ IsFiniteSet(DOMAIN sigMap[h])
  /\ \A o \in Objects : made[o] # {} => o \in live

\* What the table, the hashes and the history consist of, as far as pipes go.
TableTypes ==
  /\ hashes \in [Objects -> SUBSET SignalHashes]
  /\ made \in [Objects -> SUBSET (SignalHashes \X Slots)]
  /\ \A h \in DOMAIN sigMap : \A k \in DOMAIN sigMap[h] : sigMap[h][k].slot \in Slots

TableInvariant == TableTypes /\ PipesAreTracked

\* The receiver of a slot is an object, and the hash of a signal one of a signal.
LEMMA PairParts ==
  /\ \A slot \in Slots : slot[1] \in Objects
  /\ \A signal \in Signals : Hash[signal] \in SignalHashes
  BY PairsAssumption DEF SignalHashes

-----------------------------------------------------------------------------
(* The steps that change the table *)

\* A new pipe is tracked, unless it has taken the place of another object's.
LEMMA ConnectKeepsTable ==
  ASSUME TableInvariant, NEW signal \in Signals, NEW slot \in Slots, Connect(signal, slot)
  PROVE  TableInvariant'
<1> USE PairParts
<1> DEFINE h == Hash[signal]
           k == Hash[slot]
           o == slot[1]
           conn == IF h \in DOMAIN sigMap THEN sigMap[h] ELSE [x \in {} |-> {}]
           pipe == [object |-> IF k \in DOMAIN conn THEN conn[k].object ELSE o, slot |-> slot]
<1>1. /\ sigMap' = With(sigMap, h, With(conn, k, pipe))
      /\ hashes' = [hashes EXCEPT ![o] = @ \cup {h}]
      /\ made' = [made EXCEPT ![o] = @ \cup {<<h, slot>>}]
      /\ careless' = IF pipe.object = o THEN careless ELSE careless \cup {o}
  BY DEF Connect
<1>2. h \in SignalHashes /\ o \in Objects /\ pipe.slot = slot
  OBVIOUS
<1>3. \A j \in DOMAIN conn : h \in DOMAIN sigMap /\ conn[j] = sigMap[h][j] /\ j \in DOMAIN sigMap[h]
  OBVIOUS
<1> HIDE DEF h, k, o, conn, pipe
\* Where each pipe of the new table comes from.
<1>4. ASSUME NEW g \in DOMAIN sigMap', NEW j \in DOMAIN sigMap'[g]
      PROVE  \/ g = h /\ sigMap'[g][j] = pipe
             \/ /\ g \in DOMAIN sigMap /\ j \in DOMAIN sigMap[g]
                /\ sigMap'[g][j] = sigMap[g][j]
  <2> DEFINE new == With(conn, k, pipe)
  <2>1. /\ DOMAIN new = DOMAIN conn \cup {k} /\ new[k] = pipe
        /\ \A i \in DOMAIN conn : i # k => new[i] = conn[i]
    BY DEF With
  <2>2. sigMap' = With(sigMap, h, new)
    BY <1>1
  <2> HIDE DEF new
  <2>3. /\ DOMAIN sigMap' = DOMAIN sigMap \cup {h} /\ sigMap'[h] = new
        /\ \A i \in DOMAIN sigMap : i # h => sigMap'[i] = sigMap[i]
    BY <2>2 DEF With
  <2>4. CASE g = h
    BY <2>1, <2>3, <2>4, <1>3
  <2>5. CASE g # h
    BY <2>3, <2>5
  <2>6. QED
    BY <2>4, <2>5
<1>5. TableTypes'
  <2>1. /\ hashes' \in [Objects -> SUBSET SignalHashes]
        /\ made' \in [Objects -> SUBSET (SignalHashes \X Slots)]
    BY <1>1, <1>2 DEF TableInvariant, TableTypes
  <2>2. QED
    BY <2>1, <1>2, <1>4 DEF TableInvariant, TableTypes
<1>6. /\ \A p \in Objects : hashes[p] \subseteq hashes'[p] /\ made[p] \subseteq made'[p]
      /\ h \in hashes'[o] /\ <<h, slot>> \in made'[o]
  BY <1>1, <1>2 DEF TableInvariant, TableTypes
<1>7. careless \subseteq careless' /\ (o \notin careless' => pipe.object = o)
  BY <1>1
<1>8. ASSUME NEW g \in DOMAIN sigMap', NEW j \in DOMAIN sigMap'[g],
             sigMap'[g][j].slot[1] \notin careless'
      PROVE  LET q == sigMap'[g][j] IN
               /\ q.object = q.slot[1]
               /\ g \in hashes'[q.slot[1]]
               /\ <<g, q.slot>> \in made'[q.slot[1]]
  <2>1. CASE g = h /\ sigMap'[g][j] = pipe
    <3>1. pipe.slot[1] = o
      BY <1>2 DEF o
    <3>2. QED
      BY <2>1, <3>1, <1>2, <1>6, <1>7, <1>8
  <2>2. CASE g \in DOMAIN sigMap /\ j \in DOMAIN sigMap[g] /\ sigMap'[g][j] = sigMap[g][j]
    BY <2>2, <1>6, <1>7, <1>8 DEF TableInvariant, TableTypes, PipesAreTracked
  <2>3. QED
    BY <1>4, <2>1, <2>2
<1>9. PipesAreTracked'
  BY <1>8 DEF PipesAreTracked
<1>10. QED
  BY <1>5, <1>9 DEF TableInvariant

\* Without a pipe its receiver forgets the signal: whoever has another pipe in the
\* connection is careless from then on.
LEMMA DisconnectKeepsTable ==
  ASSUME TableInvariant, NEW signal \in Signals, NEW slot \in Slots, Disconnect(signal, slot)
  PROVE  TableInvariant'
<1> USE PairParts
<1> DEFINE h == Hash[signal]
           k == Hash[slot]
           o == slot[1]
           rest == Without(sigMap[h], {k})
<1>1. /\ h \in DOMAIN sigMap /\ k \in DOMAIN sigMap[h]
      /\ sigMap' = IF DOMAIN rest = {} THEN Without(sigMap, {h}) ELSE With(sigMap, h, rest)
      /\ hashes' = [hashes EXCEPT ![o] = @ \ {h}]
      /\ made' = [made EXCEPT ![o] = @ \ {<<h, slot>>}]
      /\ careless' = IF \E j \in DOMAIN rest : o \in {rest[j].object, rest[j].slot[1]}
                     THEN careless \cup {o} ELSE careless
  BY DEF Disconnect
<1>2. o \in Objects
  OBVIOUS
<1>3. \A j \in DOMAIN rest : j \in DOMAIN sigMap[h] /\ rest[j] = sigMap[h][j]
  <2>1. DOMAIN rest = DOMAIN sigMap[h] \ {k}
    BY DEF Without
  <2>2. \A j \in DOMAIN sigMap[h] \ {k} : rest[j] = sigMap[h][j]
    BY DEF Without
  <2>3. QED
    BY <2>1, <2>2
<1> HIDE DEF h, k, o, rest
<1>4. ASSUME NEW g \in DOMAIN sigMap', NEW j \in DOMAIN sigMap'[g]
      PROVE  /\ g \in DOMAIN sigMap /\ j \in DOMAIN sigMap[g]
             /\ sigMap'[g][j] = sigMap[g][j]
             /\ g = h => j \in DOMAIN rest /\ sigMap[g][j] = rest[j]
  <2>1. CASE DOMAIN rest = {}
    <3>1. sigMap' = Without(sigMap, {h})
      BY <1>1, <2>1
    <3>2. DOMAIN sigMap' = DOMAIN sigMap \ {h} /\ \A i \in DOMAIN sigMap \ {h} : sigMap'[i] = sigMap[i]
      BY <3>1 DEF Without
    <3>3. QED
      BY <3>2
  <2>2. CASE DOMAIN rest # {}
    <3>1. sigMap' = With(sigMap, h, rest)
      BY <1>1, <2>2
    <3>2. /\ DOMAIN sigMap' = DOMAIN sigMap \cup {h} /\ sigMap'[h] = rest
          /\ \A i \in DOMAIN sigMap : i # h => sigMap'[i] = sigMap[i]
      BY <3>1 DEF With
    <3>3. QED
      BY <1>1, <1>3, <3>2
  <2>3. QED
    BY <2>1, <2>2
<1>5. TableTypes'
  <2>1. /\ hashes' \in [Objects -> SUBSET SignalHashes]
        /\ made' \in [Objects -> SUBSET (SignalHashes \X Slots)]
    BY <1>1, <1>2 DEF TableInvariant, TableTypes
  <2>2. QED
    BY <2>1, <1>4 DEF TableInvariant, TableTypes
<1>6. ASSUME NEW g \in DOMAIN sigMap', NEW j \in DOMAIN sigMap'[g],
             sigMap'[g][j].slot[1] \notin careless'
      PROVE  LET q == sigMap'[g][j] IN
               /\ q.object = q.slot[1]
               /\ g \in hashes'[q.slot[1]]
               /\ <<g, q.slot>> \in made'[q.slot[1]]
  <2> DEFINE q == sigMap[g][j]
             p == q.slot[1]
  <2>1. g \in DOMAIN sigMap /\ j \in DOMAIN sigMap[g] /\ sigMap'[g][j] = q
    BY <1>4
  <2>2. p \notin careless /\ p \in Objects /\ q.slot \in Slots
    BY <1>1, <1>6, <2>1 DEF TableInvariant, TableTypes
  <2>3. q.object = p /\ g \in hashes[p] /\ <<g, q.slot>> \in made[p]
    BY <2>1, <2>2 DEF TableInvariant, PipesAreTracked
  <2>4. p # o \/ g # h
    BY <1>1, <1>4, <1>6, <2>1
  <2>5. g \in hashes'[p] /\ <<g, q.slot>> \in made'[p]
    BY <1>1, <1>2, <2>2, <2>3, <2>4 DEF TableInvariant, TableTypes
  <2>6. QED
    BY <2>1, <2>3, <2>5
<1>7. PipesAreTracked'
  BY <1>6 DEF PipesAreTracked
<1>8. QED
  BY <1>5, <1>7 DEF TableInvariant

\* A deleted object takes its own pipes along: the connections it has the hashes of are
\* all those it has pipes in.
LEMMA DestroyKeepsTable ==
  ASSUME TableInvariant, NEW o \in Objects, Destroy(o)
  PROVE  TableInvariant'
<1>1. /\ sigMap' = [h \in DOMAIN sigMap |->
                      IF h \in hashes[o] THEN Without(sigMap[h], OwnPipes(h, o)) ELSE sigMap[h]]
      /\ hashes' = [hashes EXCEPT ![o] = {}]
      /\ made' = [made EXCEPT ![o] = {}]
      /\ careless' = careless
  BY DEF Destroy
<1>2. ASSUME NEW g \in DOMAIN sigMap', NEW j \in DOMAIN sigMap'[g]
      PROVE  /\ g \in DOMAIN sigMap /\ j \in DOMAIN sigMap[g]
             /\ sigMap'[g][j] = sigMap[g][j]
             /\ g \in hashes[o] => sigMap[g][j].object # o
  <2>1. g \in DOMAIN sigMap
    BY <1>1
  <2>2. CASE g \in hashes[o]
    <3>1. sigMap'[g] = Without(sigMap[g], OwnPipes(g, o))
      BY <1>1, <2>1, <2>2
    <3>2. j \in DOMAIN sigMap[g] \ OwnPipes(g, o) /\ sigMap'[g][j] = sigMap[g][j]
      BY <3>1 DEF Without
    <3>3. QED
      BY <2>1, <3>2 DEF OwnPipes
  <2>3. CASE g \notin hashes[o]
    BY <1>1, <2>1, <2>3
  <2>4. QED
    BY <2>2, <2>3
<1>3. TableTypes'
  <2>1. /\ hashes' \in [Objects -> SUBSET SignalHashes]
        /\ made' \in [Objects -> SUBSET (SignalHashes \X Slots)]
    BY <1>1 DEF TableInvariant, TableTypes
  <2>2. QED
    BY <2>1, <1>2 DEF TableInvariant, TableTypes
<1>4. ASSUME NEW g \in DOMAIN sigMap', NEW j \in DOMAIN sigMap'[g],
             sigMap'[g][j].slot[1] \notin careless'
      PROVE  LET q == sigMap'[g][j] IN
               /\ q.object = q.slot[1]
               /\ g \in hashes'[q.slot[1]]
               /\ <<g, q.slot>> \in made'[q.slot[1]]
  <2> DEFINE q == sigMap[g][j]
             p == q.slot[1]
  <2>1. g \in DOMAIN sigMap /\ j \in DOMAIN sigMap[g] /\ sigMap'[g][j] = q
    BY <1>2
  <2>2. p \notin careless /\ p \in Objects
    BY <1>1, <1>4, <2>1, PairParts DEF TableInvariant, TableTypes
  <2>3. q.object = p /\ g \in hashes[p] /\ <<g, q.slot>> \in made[p]
    BY <2>1, <2>2 DEF TableInvariant, PipesAreTracked
  <2>4. p # o
    BY <1>2, <2>1, <2>3
  <2>5. hashes'[p] = hashes[p] /\ made'[p] = made[p]
    BY <1>1, <2>2, <2>4 DEF TableInvariant, TableTypes
  <2>6. QED
    BY <2>1, <2>3, <2>5
<1>5. PipesAreTracked'
  BY <1>4 DEF PipesAreTracked
<1>6. QED
  BY <1>3, <1>5 DEF TableInvariant

-----------------------------------------------------------------------------
(* The invariant and the theorem *)

\* No step leaves the invariant; only connect, disconnect and deletion touch the table.
LEMMA TableStep == TableInvariant /\ [Next]_vars => TableInvariant'
<1> SUFFICES ASSUME TableInvariant, [Next]_vars PROVE TableInvariant'
  OBVIOUS
<1>1. CASE UNCHANGED <<sigMap, hashes, made, careless>>
  BY <1>1 DEF TableInvariant, TableTypes, PipesAreTracked
<1>2. ASSUME NEW o \in Objects, Create(o) \/ Destroy(o) PROVE TableInvariant'
  BY <1>1, <1>2, DestroyKeepsTable DEF Create
<1>3. ASSUME NEW signal \in Signals, NEW slot \in Slots,
             Connect(signal, slot) \/ Disconnect(signal, slot)
      PROVE  TableInvariant'
  BY <1>3, ConnectKeepsTable, DisconnectKeepsTable
<1>4. ASSUME NEW signal \in Signals, EmitAll(signal) PROVE TableInvariant'
  BY <1>1, <1>4 DEF EmitAll
<1>5. CASE Dispatch
  BY <1>1, <1>5 DEF Dispatch
<1>6. ASSUME NEW k \in loop.left, CallSlot(k) PROVE TableInvariant'
  BY <1>1, <1>6 DEF CallSlot
<1>7. CASE SlotReturns
  BY <1>1, <1>7 DEF SlotReturns
<1>8. CASE LoopEnds
  BY <1>1, <1>8 DEF LoopEnds
<1>9. CASE UNCHANGED vars
  BY <1>1, <1>9 DEF vars
<1>10. QED
  BY <1>2, <1>3, <1>4, <1>5, <1>6, <1>7, <1>8, <1>9 DEF Next

\* Every pipe names its receiver, which has the signal's hash, unless the receiver
\* disconnected one of several slots or met another with the hash of its slot.
THEOREM PipesTracked == Spec => []PipesAreTracked
<1>1. Init => TableInvariant
  BY DEF Init, TableInvariant, TableTypes, PipesAreTracked
<1>2. TableInvariant => PipesAreTracked
  BY DEF TableInvariant
<1>3. QED
  BY <1>1, <1>2, TableStep, PTL DEF Spec

\* A slot is only called for an object that connected it since it was created.
THEOREM PipesOwned == Spec => []PipesAreOwned
<1>1. PipesAreTracked => PipesAreOwned
  BY DEF PipesAreTracked, PipesAreOwned
<1>2. QED
  BY <1>1, PipesTracked, PTL

-----------------------------------------------------------------------------
(* Connections stay *)

\* No other slot has the hash of this one.
Lone(slot) == \A other \in Slots : Hash[other] = Hash[slot] => other = slot

\* A pipe is found by the hash of its slot, and one whose slot is alone with its hash
\* has never been another object's.
PipesAreKeyed ==
  \A h \in DOMAIN sigMap : \A k \in DOMAIN sigMap[h] :
    LET pipe == sigMap[h][k] IN
      /\ pipe.slot \in Slots /\ Hash[pipe.slot] = k
      /\ Lone(pipe.slot) => pipe.object = pipe.slot[1]

\* What an object has connected is in the table, and of nobody else.
MadeIsThere ==
  \A o \in Objects : \A h \in SignalHashes, slot \in Slots :
    <<h, slot>> \in made[o] =>
      /\ slot[1] = o
      /\ Lone(slot) => h \in DOMAIN sigMap /\ Hash[slot] \in DOMAIN sigMap[h]

KeyInvariant == TableTypes /\ PipesAreKeyed /\ MadeIsThere

\* What connect does to the table: the pipe of the slot is new, the others are there.
Adds(h, k, slot) ==
  /\ DOMAIN sigMap' = DOMAIN sigMap \cup {h}
  /\ \A g \in DOMAIN sigMap : g # h => sigMap'[g] = sigMap[g]
  /\ DOMAIN sigMap'[h] = {k} \cup (IF h \in DOMAIN sigMap THEN DOMAIN sigMap[h] ELSE {})
  /\ \A j \in DOMAIN sigMap'[h] : j # k =>
       h \in DOMAIN sigMap /\ j \in DOMAIN sigMap[h] /\ sigMap'[h][j] = sigMap[h][j]
  /\ sigMap'[h][k].slot = slot
  /\ sigMap'[h][k].object = IF h \in DOMAIN sigMap /\ k \in DOMAIN sigMap[h]
                            THEN sigMap[h][k].object ELSE slot[1]

LEMMA ConnectAdds ==
  ASSUME NEW signal \in Signals, NEW slot \in Slots, Connect(signal, slot),
         NEW h, h = Hash[signal], NEW k, k = Hash[slot]
  PROVE  Adds(h, k, slot)
<1> DEFINE conn == IF h \in DOMAIN sigMap THEN sigMap[h] ELSE [x \in {} |-> {}]
           pipe == [object |-> IF k \in DOMAIN conn THEN conn[k].object ELSE slot[1],
                    slot |-> slot]
           new == With(conn, k, pipe)
<1>1. sigMap' = With(sigMap, h, new)
  BY DEF Connect
<1>2. DOMAIN conn = (IF h \in DOMAIN sigMap THEN DOMAIN sigMap[h] ELSE {})
      /\ \A j \in DOMAIN conn : h \in DOMAIN sigMap /\ conn[j] = sigMap[h][j]
  OBVIOUS
<1>3. pipe.slot = slot /\ pipe.object = IF k \in DOMAIN conn THEN conn[k].object ELSE slot[1]
  OBVIOUS
<1> HIDE DEF conn, pipe
<1>4. DOMAIN new = DOMAIN conn \cup {k} /\ new[k] = pipe
      /\ \A y \in DOMAIN conn : y # k => new[y] = conn[y]
  BY DEF With
<1> HIDE DEF new
<1>5. DOMAIN sigMap' = DOMAIN sigMap \cup {h} /\ sigMap'[h] = new
      /\ \A y \in DOMAIN sigMap : y # h => sigMap'[y] = sigMap[y]
  BY <1>1 DEF With
<1>6. QED
  BY <1>2, <1>3, <1>4, <1>5 DEF Adds

\* What disconnect does to it: the pipe goes, and the connection with the last one.
Erases(h, k) ==
  /\ h \in DOMAIN sigMap /\ k \in DOMAIN sigMap[h]
  /\ DOMAIN sigMap' = IF DOMAIN sigMap[h] = {k} THEN DOMAIN sigMap \ {h} ELSE DOMAIN sigMap
  /\ \A g \in DOMAIN sigMap' :
       /\ g # h => sigMap'[g] = sigMap[g]
       /\ g = h => DOMAIN sigMap'[h] = DOMAIN sigMap[h] \ {k}
       /\ \A j \in DOMAIN sigMap'[g] : sigMap'[g][j] = sigMap[g][j]

LEMMA DisconnectErases ==
  ASSUME NEW signal \in Signals, NEW slot \in Slots, Disconnect(signal, slot),
         NEW h, h = Hash[signal], NEW k, k = Hash[slot]
  PROVE  Erases(h, k)
<1> DEFINE rest == Without(sigMap[h], {k})
<1>1. /\ h \in DOMAIN sigMap /\ k \in DOMAIN sigMap[h]
      /\ sigMap' = IF DOMAIN rest = {} THEN Without(sigMap, {h}) ELSE With(sigMap, h, rest)
  BY DEF Disconnect
<1>2. DOMAIN rest = DOMAIN sigMap[h] \ {k} /\ \A j \in DOMAIN rest : rest[j] = sigMap[h][j]
  BY DEF Without
<1> HIDE DEF rest
<1>3. ASSUME DOMAIN rest = {} PROVE Erases(h, k)
  <2>1. sigMap' = Without(sigMap, {h})
    BY <1>1, <1>3
  <2>2. /\ DOMAIN sigMap' = DOMAIN sigMap \ {h}
        /\ \A g \in DOMAIN sigMap \ {h} : sigMap'[g] = sigMap[g]
    BY <2>1 DEF Without
  <2>3. DOMAIN sigMap[h] = {k}
    BY <1>1, <1>2, <1>3
  <2>4. \A g \in DOMAIN sigMap' : g # h /\ sigMap'[g] = sigMap[g]
    BY <2>2
  <2>5. QED
    BY <1>1, <2>2, <2>3, <2>4 DEF Erases
<1>4. ASSUME DOMAIN rest # {} PROVE Erases(h, k)
  <2>1. DOMAIN sigMap' = DOMAIN sigMap \cup {h} /\ sigMap'[h] = rest
        /\ \A g \in DOMAIN sigMap : g # h => sigMap'[g] = sigMap[g]
    BY <1>1, <1>4 DEF With
  <2>2. QED
    BY <1>1, <1>2, <1>4, <2>1 DEF Erases
<1>5. QED
  BY <1>3, <1>4

\* What a deletion does to it: of the connections the object has the hashes of, the
\* pipes that name it go.
LEMMA DestroyErases ==
  ASSUME NEW o \in Objects, Destroy(o)
  PROVE  /\ DOMAIN sigMap' = DOMAIN sigMap
         /\ \A g \in DOMAIN sigMap :
              /\ DOMAIN sigMap'[g] = IF g \in hashes[o] THEN DOMAIN sigMap[g] \ OwnPipes(g, o)
                                     ELSE DOMAIN sigMap[g]
              /\ \A j \in DOMAIN sigMap'[g] : sigMap'[g][j] = sigMap[g][j]
<1>1. sigMap' = [h \in DOMAIN sigMap |->
                   IF h \in hashes[o] THEN Without(sigMap[h], OwnPipes(h, o)) ELSE sigMap[h]]
  BY DEF Destroy
<1>2. ASSUME NEW g \in DOMAIN sigMap
      PROVE  /\ DOMAIN sigMap'[g] = IF g \in hashes[o] THEN DOMAIN sigMap[g] \ OwnPipes(g, o)
                                    ELSE DOMAIN sigMap[g]
             /\ \A j \in DOMAIN sigMap'[g] : sigMap'[g][j] = sigMap[g][j]
  <2>1. CASE g \in hashes[o]
    <3>1. sigMap'[g] = Without(sigMap[g], OwnPipes(g, o))
      BY <1>1, <2>1
    <3>2. QED
      BY <2>1, <3>1 DEF Without
  <2>2. CASE g \notin hashes[o]
    BY <1>1, <2>2
  <2>3. QED
    BY <2>1, <2>2
<1>3. QED
  BY <1>1, <1>2

LEMMA ConnectKeepsKeys ==
  ASSUME KeyInvariant, TableTypes', NEW signal \in Signals, NEW slot \in Slots,
         Connect(signal, slot)
  PROVE  KeyInvariant'
<1>1. PICK h, k : h = Hash[signal] /\ k = Hash[slot]
  OBVIOUS
<1>2. /\ DOMAIN sigMap' = DOMAIN sigMap \cup {h}
      /\ \A g \in DOMAIN sigMap : g # h => sigMap'[g] = sigMap[g]
      /\ DOMAIN sigMap'[h] = {k} \cup (IF h \in DOMAIN sigMap THEN DOMAIN sigMap[h] ELSE {})
      /\ \A j \in DOMAIN sigMap'[h] : j # k =>
           h \in DOMAIN sigMap /\ j \in DOMAIN sigMap[h] /\ sigMap'[h][j] = sigMap[h][j]
      /\ sigMap'[h][k].slot = slot
      /\ sigMap'[h][k].object = IF h \in DOMAIN sigMap /\ k \in DOMAIN sigMap[h]
                                THEN sigMap[h][k].object ELSE slot[1]
  <2>1. Adds(h, k, slot)
    BY <1>1, ConnectAdds
  <2>2. QED
    BY <2>1 DEF Adds
<1>3. made' = [made EXCEPT ![slot[1]] = @ \cup {<<h, slot>>}] /\ slot[1] \in Objects
  BY <1>1, PairParts DEF Connect
<1>4. PipesAreKeyed'
  <2> SUFFICES ASSUME NEW g \in DOMAIN sigMap', NEW j \in DOMAIN sigMap'[g]
               PROVE  /\ sigMap'[g][j].slot \in Slots /\ Hash[sigMap'[g][j].slot] = j
                      /\ Lone(sigMap'[g][j].slot) =>
                           sigMap'[g][j].object = sigMap'[g][j].slot[1]
    BY DEF PipesAreKeyed
  <2>1. CASE g = h /\ j = k
    <3>1. sigMap'[g][j].slot = slot
      BY <1>2, <2>1
    <3>2. ASSUME Lone(slot) PROVE sigMap'[g][j].object = slot[1]
      BY <1>1, <1>2, <2>1, <3>2 DEF KeyInvariant, PipesAreKeyed, Lone
    <3>3. QED
      BY <1>1, <2>1, <3>1, <3>2
  <2>2. CASE ~(g = h /\ j = k)
    <3>1. g \in DOMAIN sigMap /\ j \in DOMAIN sigMap[g] /\ sigMap'[g][j] = sigMap[g][j]
      BY <1>2, <2>2
    <3>2. QED
      BY <3>1 DEF KeyInvariant, PipesAreKeyed
  <2>3. QED
    BY <2>1, <2>2
<1>5. MadeIsThere'
  <2> SUFFICES ASSUME NEW o \in Objects, NEW g \in SignalHashes, NEW other \in Slots,
                      <<g, other>> \in made'[o]
               PROVE  /\ other[1] = o
                      /\ Lone(other) => g \in DOMAIN sigMap' /\ Hash[other] \in DOMAIN sigMap'[g]
    BY DEF MadeIsThere
  <2>1. <<g, other>> \in made[o] \/ (o = slot[1] /\ g = h /\ other = slot)
    BY <1>3 DEF KeyInvariant, TableTypes
  <2>2. CASE <<g, other>> \in made[o]
    <3>1. /\ other[1] = o
          /\ Lone(other) => g \in DOMAIN sigMap /\ Hash[other] \in DOMAIN sigMap[g]
      BY <2>2 DEF KeyInvariant, MadeIsThere
    <3>2. QED
      BY <1>2, <3>1
  <2>3. CASE o = slot[1] /\ g = h /\ other = slot
    BY <1>1, <1>2, <2>3
  <2>4. QED
    BY <2>1, <2>2, <2>3
<1>6. QED
  BY <1>4, <1>5 DEF KeyInvariant

LEMMA DisconnectKeepsKeys ==
  ASSUME KeyInvariant, TableTypes', NEW signal \in Signals, NEW slot \in Slots,
         Disconnect(signal, slot)
  PROVE  KeyInvariant'
<1>1. PICK h, k : h = Hash[signal] /\ k = Hash[slot]
  OBVIOUS
<1>2. /\ h \in DOMAIN sigMap /\ k \in DOMAIN sigMap[h]
      /\ DOMAIN sigMap' = IF DOMAIN sigMap[h] = {k} THEN DOMAIN sigMap \ {h} ELSE DOMAIN sigMap
      /\ \A g \in DOMAIN sigMap' :
           /\ g # h => sigMap'[g] = sigMap[g]
           /\ g = h => DOMAIN sigMap'[h] = DOMAIN sigMap[h] \ {k}
           /\ \A j \in DOMAIN sigMap'[g] : sigMap'[g][j] = sigMap[g][j]
  <2>1. Erases(h, k)
    BY <1>1, DisconnectErases
  <2>2. QED
    BY <2>1 DEF Erases
<1>3. made' = [made EXCEPT ![slot[1]] = @ \ {<<h, slot>>}] /\ slot[1] \in Objects
  BY <1>1, PairParts DEF Disconnect
<1>4. PipesAreKeyed'
  <2>1. ASSUME NEW g \in DOMAIN sigMap', NEW j \in DOMAIN sigMap'[g]
        PROVE  g \in DOMAIN sigMap /\ j \in DOMAIN sigMap[g] /\ sigMap'[g][j] = sigMap[g][j]
    BY <1>2
  <2>2. QED
    BY <2>1 DEF KeyInvariant, PipesAreKeyed
<1>5. MadeIsThere'
  <2> SUFFICES ASSUME NEW o \in Objects, NEW g \in SignalHashes, NEW other \in Slots,
                      <<g, other>> \in made'[o]
               PROVE  /\ other[1] = o
                      /\ Lone(other) => g \in DOMAIN sigMap' /\ Hash[other] \in DOMAIN sigMap'[g]
    BY DEF MadeIsThere
  <2>1. <<g, other>> \in made[o] /\ ~(o = slot[1] /\ g = h /\ other = slot)
    BY <1>3 DEF KeyInvariant, TableTypes
  <2>2. /\ other[1] = o
        /\ Lone(other) => g \in DOMAIN sigMap /\ Hash[other] \in DOMAIN sigMap[g]
    BY <2>1 DEF KeyInvariant, MadeIsThere
  <2>3. ASSUME Lone(other) PROVE g # h \/ Hash[other] # k
    BY <1>1, <2>1, <2>2, <2>3 DEF Lone
  <2>4. ASSUME Lone(other), g = h
        PROVE  g \in DOMAIN sigMap' /\ Hash[other] \in DOMAIN sigMap'[g]
    <3>1. Hash[other] \in DOMAIN sigMap[h] \ {k}
      BY <2>2, <2>3, <2>4
    <3>2. DOMAIN sigMap[h] # {k}
      BY <3>1
    <3>3. QED
      BY <1>2, <2>4, <3>1, <3>2
  <2>5. ASSUME Lone(other), g # h
        PROVE  g \in DOMAIN sigMap' /\ Hash[other] \in DOMAIN sigMap'[g]
    <3>1. g \in DOMAIN sigMap'
      BY <1>2, <2>2, <2>5
    <3>2. QED
      BY <1>2, <2>2, <2>5, <3>1
  <2>6. QED
    BY <2>2, <2>4, <2>5
<1>6. QED
  BY <1>4, <1>5 DEF KeyInvariant

LEMMA DestroyKeepsKeys ==
  ASSUME KeyInvariant, TableTypes', NEW o \in Objects, Destroy(o)
  PROVE  KeyInvariant'
<1>1. /\ DOMAIN sigMap' = DOMAIN sigMap
      /\ \A g \in DOMAIN sigMap :
           /\ DOMAIN sigMap'[g] = IF g \in hashes[o] THEN DOMAIN sigMap[g] \ OwnPipes(g, o)
                                  ELSE DOMAIN sigMap[g]
           /\ \A j \in DOMAIN sigMap'[g] : sigMap'[g][j] = sigMap[g][j]
  BY DestroyErases
<1>2. made' = [made EXCEPT ![o] = {}]
  BY DEF Destroy
<1>3. PipesAreKeyed'
  <2>1. ASSUME NEW g \in DOMAIN sigMap', NEW j \in DOMAIN sigMap'[g]
        PROVE  g \in DOMAIN sigMap /\ j \in DOMAIN sigMap[g] /\ sigMap'[g][j] = sigMap[g][j]
    BY <1>1
  <2>2. QED
    BY <2>1 DEF KeyInvariant, PipesAreKeyed
<1>4. MadeIsThere'
  <2> SUFFICES ASSUME NEW p \in Objects, NEW g \in SignalHashes, NEW slot \in Slots,
                      <<g, slot>> \in made'[p]
               PROVE  /\ slot[1] = p
                      /\ Lone(slot) => g \in DOMAIN sigMap' /\ Hash[slot] \in DOMAIN sigMap'[g]
    BY DEF MadeIsThere
  <2>1. p # o /\ <<g, slot>> \in made[p]
    BY <1>2 DEF KeyInvariant, TableTypes
  <2>2. /\ slot[1] = p
        /\ Lone(slot) => g \in DOMAIN sigMap /\ Hash[slot] \in DOMAIN sigMap[g]
    BY <2>1 DEF KeyInvariant, MadeIsThere
  <2>3. ASSUME Lone(slot) PROVE Hash[slot] \notin OwnPipes(g, o)
    <3>1. sigMap[g][Hash[slot]].slot = slot /\ sigMap[g][Hash[slot]].object = slot[1]
      BY <2>2, <2>3 DEF KeyInvariant, PipesAreKeyed, Lone
    <3>2. QED
      BY <2>1, <2>2, <3>1 DEF OwnPipes
  <2>4. QED
    BY <1>1, <2>2, <2>3
<1>5. QED
  BY <1>3, <1>4 DEF KeyInvariant

\* Only connect, disconnect and deletion touch the table and its history.
LEMMA TableKept ==
  ASSUME [Next]_vars,
         ~\E o \in Objects : Destroy(o),
         ~\E signal \in Signals, slot \in Slots : Connect(signal, slot) \/ Disconnect(signal, slot)
  PROVE  UNCHANGED <<sigMap, hashes, made, careless>>
  BY DEF Next, Create, EmitAll, Dispatch, CallSlot, SlotReturns, LoopEnds, vars

LEMMA KeyStep == TableInvariant /\ KeyInvariant /\ [Next]_vars => KeyInvariant'
<1> SUFFICES ASSUME TableInvariant, KeyInvariant, [Next]_vars PROVE KeyInvariant'
  OBVIOUS
<1>1. TableTypes'
  BY TableStep DEF TableInvariant
<1>2. CASE UNCHANGED <<sigMap, hashes, made, careless>>
  BY <1>1, <1>2 DEF KeyInvariant, PipesAreKeyed, MadeIsThere
<1>3. QED
  BY <1>1, <1>2, TableKept, ConnectKeepsKeys, DisconnectKeepsKeys, DestroyKeepsKeys

\* A connection is lost only by its own disconnect and with its receiver, if no other
\* slot has the hash of its slot: other receivers come and go beside it.
THEOREM ConnectionsStay == Spec => []StaysConnected
<1>1. Init => TableInvariant /\ KeyInvariant
  BY DEF Init, TableInvariant, TableTypes, PipesAreTracked, KeyInvariant, PipesAreKeyed,
     MadeIsThere
<1>2. KeyInvariant => StaysConnected
  BY DEF KeyInvariant, MadeIsThere, StaysConnected, Lone
<1>3. QED
  BY <1>1, <1>2, TableStep, KeyStep, PTL DEF Spec

-----------------------------------------------------------------------------
(* Callbacks that wait *)

Queued(id) == \E n \in DOMAIN queue : queue[n].id = id

\* Ids are counted up, so that no two callbacks in the queue or of objects share one.
IdsAreCounted ==
  /\ nextId \in Nat
  /\ queue \in Seq([id : Nat, hash : Nat])
  /\ emitted \in [Objects -> SUBSET Nat]
  /\ \A n \in 1 .. Len(queue) : queue[n].id < nextId
  /\ \A m, n \in 1 .. Len(queue) : m # n => queue[m].id # queue[n].id
  /\ \A o \in Objects : \A id \in emitted[o] : id < nextId
  /\ \A o, p \in Objects : o # p => emitted[o] \cap emitted[p] = {}

\* Every object keeps what it emitted and the queue still has.
KeptAreQueued ==
  /\ waiting \in [Objects -> SUBSET Nat]
  /\ \A o \in Objects : \A id \in Nat : id \in waiting[o] <=> id \in emitted[o] /\ Queued(id)

WaitingInvariant == IdsAreCounted /\ KeptAreQueued

\* A new callback has an id of its own.
LEMMA EmitKeepsWaiting ==
  ASSUME WaitingInvariant, NEW signal \in Signals, EmitAll(signal)
  PROVE  WaitingInvariant'
<1>1. signal[1] \in Objects /\ Hash[signal] \in Nat
  BY PairsAssumption, HashAssumption
<1>2. PICK sig \in [id : Nat, hash : Nat] :
        sig.id = nextId /\ queue' = Append(queue, sig)
  BY <1>1 DEF EmitAll, WaitingInvariant, IdsAreCounted
<1>3. /\ waiting' = [waiting EXCEPT ![signal[1]] = @ \cup {nextId}]
      /\ emitted' = [emitted EXCEPT ![signal[1]] = @ \cup {nextId}]
      /\ nextId' = nextId + 1 /\ nextId \in Nat
      /\ queue \in Seq([id : Nat, hash : Nat])
      /\ waiting \in [Objects -> SUBSET Nat] /\ emitted \in [Objects -> SUBSET Nat]
  BY DEF EmitAll, WaitingInvariant, IdsAreCounted, KeptAreQueued
<1>4. /\ queue' \in Seq([id : Nat, hash : Nat]) /\ Len(queue') = Len(queue) + 1
      /\ Len(queue) \in Nat /\ queue'[Len(queue) + 1] = sig
      /\ \A n \in 1 .. Len(queue) : queue'[n] = queue[n] /\ queue[n].id \in Nat
  <2>1. queue \in Seq([id : Nat, hash : Nat]) /\ queue' = Append(queue, sig)
    BY <1>2, <1>3
  <2>2. PICK Ids : Ids = [id : Nat, hash : Nat]
    OBVIOUS
  <2>3. queue \in Seq(Ids) /\ sig \in Ids
    BY <2>1, <2>2
  <2>4. /\ queue' \in Seq(Ids) /\ Len(queue') = Len(queue) + 1
        /\ Len(queue) \in Nat /\ queue'[Len(queue) + 1] = sig
        /\ \A n \in 1 .. Len(queue) : queue'[n] = queue[n] /\ queue[n] \in Ids
    BY <2>1, <2>3
  <2>5. \A s \in Ids : s.id \in Nat
    BY <2>2
  <2>6. QED
    BY <2>2, <2>4, <2>5
<1>5. /\ waiting' \in [Objects -> SUBSET Nat] /\ emitted' \in [Objects -> SUBSET Nat]
      /\ \A o \in Objects :
           /\ waiting'[o] = IF o = signal[1] THEN waiting[o] \cup {nextId} ELSE waiting[o]
           /\ emitted'[o] = IF o = signal[1] THEN emitted[o] \cup {nextId} ELSE emitted[o]
  BY <1>1, <1>3
<1>6. /\ \A o \in Objects : \A id \in emitted[o] : id \in Nat /\ id < nextId
      /\ \A o, p \in Objects : o # p => emitted[o] \cap emitted[p] = {}
      /\ \A n \in 1 .. Len(queue) : queue[n].id < nextId
      /\ \A m, n \in 1 .. Len(queue) : m # n => queue[m].id # queue[n].id
  BY DEF WaitingInvariant, IdsAreCounted
<1>7. \A o \in Objects : nextId \notin emitted[o]
  BY <1>3, <1>6
<1>8. IdsAreCounted'
  <2>1. ASSUME NEW n \in 1 .. Len(queue') PROVE queue'[n].id < nextId'
    <3>1. CASE n = Len(queue) + 1
      BY <1>2, <1>3, <1>4, <3>1
    <3>2. CASE n # Len(queue) + 1
      <4>1. n \in 1 .. Len(queue) /\ queue'[n] = queue[n]
        BY <1>4, <3>2
      <4>2. queue[n].id \in Nat /\ queue[n].id < nextId
        BY <1>4, <1>6, <4>1
      <4>3. nextId' = nextId + 1 /\ nextId \in Nat
        BY <1>3
      <4>4. QED
        BY <4>1, <4>2, <4>3
    <3>3. QED
      BY <3>1, <3>2
  <2>2. ASSUME NEW m \in 1 .. Len(queue'), NEW n \in 1 .. Len(queue'), m # n
        PROVE  queue'[m].id # queue'[n].id
    <3>1. ASSUME NEW i \in 1 .. Len(queue') PROVE i \in 1 .. Len(queue) \/ i = Len(queue) + 1
      BY <1>4
    <3>2. ASSUME NEW i \in 1 .. Len(queue)
          PROVE  queue'[i].id # queue'[Len(queue) + 1].id
      BY <1>2, <1>3, <1>4, <1>6
    <3>3. CASE m \in 1 .. Len(queue) /\ n \in 1 .. Len(queue)
      BY <1>4, <1>6, <2>2, <3>3
    <3>4. CASE m = Len(queue) + 1
      <4>1. n \in 1 .. Len(queue)
        BY <2>2, <3>1, <3>4
      <4>2. QED
        BY <3>2, <3>4, <4>1
    <3>5. CASE n = Len(queue) + 1
      <4>1. m \in 1 .. Len(queue)
        BY <2>2, <3>1, <3>5
      <4>2. QED
        BY <3>2, <3>5, <4>1
    <3>6. QED
      BY <3>1, <3>3, <3>4, <3>5
  <2>3. \A o \in Objects : \A id \in emitted'[o] : id < nextId'
    BY <1>3, <1>5, <1>6
  <2>4. \A o, p \in Objects : o # p => emitted'[o] \cap emitted'[p] = {}
    BY <1>5, <1>6, <1>7
  <2>5. QED
    BY <1>3, <1>4, <1>5, <2>1, <2>2, <2>3, <2>4 DEF IdsAreCounted
\* The queue has the new id besides those it had.
<1>9. ASSUME NEW id \in Nat PROVE Queued(id)' <=> Queued(id) \/ id = nextId
  <2>1. DOMAIN queue = 1 .. Len(queue) /\ DOMAIN queue' = 1 .. Len(queue')
    BY <1>3, <1>4
  <2>2. ASSUME NEW n \in DOMAIN queue', queue'[n].id = id PROVE Queued(id) \/ id = nextId
    <3>1. CASE n = Len(queue) + 1
      BY <1>2, <1>4, <2>2, <3>1
    <3>2. CASE n # Len(queue) + 1
      <4>1. n \in 1 .. Len(queue) /\ queue'[n] = queue[n]
        BY <1>4, <2>1, <3>2
      <4>2. QED
        BY <2>1, <2>2, <4>1 DEF Queued
    <3>3. QED
      BY <3>1, <3>2
  <2>3. ASSUME NEW n \in DOMAIN queue, queue[n].id = id PROVE Queued(id)'
    <3>1. n \in DOMAIN queue' /\ queue'[n].id = id
      BY <1>4, <2>1, <2>3
    <3>2. QED
      BY <3>1 DEF Queued
  <2>4. ASSUME id = nextId PROVE Queued(id)'
    <3>1. Len(queue) + 1 \in DOMAIN queue' /\ queue'[Len(queue) + 1].id = id
      BY <1>2, <1>4, <2>1, <2>4
    <3>2. QED
      BY <3>1 DEF Queued
  <2>5. QED
    BY <2>2, <2>3, <2>4 DEF Queued
<1>10. KeptAreQueued'
  <2>1. ASSUME NEW o \in Objects, NEW id \in Nat
        PROVE  id \in waiting'[o] <=> id \in emitted'[o] /\ Queued(id)'
    <3>1. id \in waiting[o] <=> id \in emitted[o] /\ Queued(id)
      BY DEF WaitingInvariant, KeptAreQueued
    <3>2. id \in emitted[o] => id # nextId
      BY <1>7
    <3>3. /\ id \in waiting'[o] <=> id \in waiting[o] \/ (o = signal[1] /\ id = nextId)
          /\ id \in emitted'[o] <=> id \in emitted[o] \/ (o = signal[1] /\ id = nextId)
      BY <1>5
    <3>4. QED
      BY <1>9, <3>1, <3>2, <3>3
  <2>2. QED
    BY <1>5, <2>1 DEF KeptAreQueued
<1>11. QED
  BY <1>8, <1>10 DEF WaitingInvariant

\* The callback at the head leaves the queue, and the object it waited in.
LEMMA DispatchKeepsWaiting ==
  ASSUME WaitingInvariant, Dispatch
  PROVE  WaitingInvariant'
<1>1. /\ queue # <<>> /\ queue' = Tail(queue) /\ nextId' = nextId /\ emitted' = emitted
      /\ waiting' = [o \in Objects |-> waiting[o] \ {Head(queue).id}]
      /\ queue \in Seq([id : Nat, hash : Nat]) /\ waiting \in [Objects -> SUBSET Nat]
  BY DEF Dispatch, WaitingInvariant, IdsAreCounted, KeptAreQueued
<1>2. /\ queue' \in Seq([id : Nat, hash : Nat]) /\ Len(queue') = Len(queue) - 1
      /\ Len(queue) \in Nat /\ Len(queue) >= 1 /\ Head(queue) = queue[1]
      /\ \A n \in 1 .. Len(queue) - 1 : queue'[n] = queue[n + 1]
  BY <1>1
<1>3. IdsAreCounted'
  <2>1. \A n \in 1 .. Len(queue) - 1 : n + 1 \in 1 .. Len(queue)
    BY <1>2
  <2>2. \A n \in 1 .. Len(queue') : queue'[n].id < nextId'
    BY <1>1, <1>2, <2>1 DEF WaitingInvariant, IdsAreCounted
  <2>3. ASSUME NEW m \in 1 .. Len(queue'), NEW n \in 1 .. Len(queue'), m # n
        PROVE  queue'[m].id # queue'[n].id
    <3>1. m + 1 \in 1 .. Len(queue) /\ n + 1 \in 1 .. Len(queue) /\ m + 1 # n + 1
      BY <1>2, <2>3
    <3>2. queue[m + 1].id # queue[n + 1].id
      BY <3>1 DEF WaitingInvariant, IdsAreCounted
    <3>3. QED
      BY <1>2, <3>2
  <2>4. QED
    BY <1>1, <1>2, <2>2, <2>3 DEF IdsAreCounted, WaitingInvariant
\* No other callback in the queue has the id of its head.
<1>4. ASSUME NEW id \in Nat PROVE Queued(id)' <=> Queued(id) /\ id # Head(queue).id
  <2>1. DOMAIN queue = 1 .. Len(queue) /\ DOMAIN queue' = 1 .. Len(queue) - 1
    BY <1>1, <1>2
  <2>2. ASSUME NEW n \in DOMAIN queue', queue'[n].id = id
        PROVE  Queued(id) /\ id # Head(queue).id
    <3>1. /\ n + 1 \in 1 .. Len(queue) /\ 1 \in 1 .. Len(queue) /\ n + 1 # 1
          /\ queue'[n] = queue[n + 1]
      BY <1>2, <2>1
    <3>2. queue[n + 1].id # queue[1].id
      BY <3>1 DEF WaitingInvariant, IdsAreCounted
    <3>3. QED
      BY <1>2, <2>1, <2>2, <3>1, <3>2 DEF Queued
  <2>3. ASSUME NEW n \in DOMAIN queue, queue[n].id = id, id # Head(queue).id PROVE Queued(id)'
    <3>1. n - 1 \in DOMAIN queue' /\ n = (n - 1) + 1
      BY <1>2, <2>1, <2>3
    <3>2. queue'[n - 1].id = id
      BY <1>2, <2>1, <2>3, <3>1
    <3>3. QED
      BY <3>1, <3>2 DEF Queued
  <2>4. QED
    BY <2>2, <2>3 DEF Queued
<1>5. KeptAreQueued'
  <2>1. ASSUME NEW o \in Objects, NEW id \in Nat
        PROVE  id \in waiting'[o] <=> id \in emitted'[o] /\ Queued(id)'
    <3>1. id \in waiting[o] <=> id \in emitted[o] /\ Queued(id)
      BY DEF WaitingInvariant, KeptAreQueued
    <3>2. id \in waiting'[o] <=> id \in waiting[o] /\ id # Head(queue).id
      BY <1>1
    <3>3. QED
      BY <1>1, <1>4, <3>1, <3>2
  <2>2. waiting' \in [Objects -> SUBSET Nat]
    BY <1>1
  <2>3. QED
    BY <2>1, <2>2 DEF KeptAreQueued
<1>6. QED
  BY <1>3, <1>5 DEF WaitingInvariant

\* What a deleted object kept goes with what it had emitted.
LEMMA DeathKeepsWaiting ==
  ASSUME WaitingInvariant, NEW o \in Objects, Destroy(o)
  PROVE  WaitingInvariant'
<1>1. /\ waiting' = [waiting EXCEPT ![o] = {}] /\ emitted' = [emitted EXCEPT ![o] = {}]
      /\ UNCHANGED <<queue, nextId>>
  BY DEF Destroy
<1>2. /\ waiting' \in [Objects -> SUBSET Nat] /\ emitted' \in [Objects -> SUBSET Nat]
      /\ waiting'[o] = {} /\ emitted'[o] = {}
      /\ \A p \in Objects \ {o} : waiting'[p] = waiting[p] /\ emitted'[p] = emitted[p]
  BY <1>1 DEF WaitingInvariant, IdsAreCounted, KeptAreQueued
<1>3. IdsAreCounted'
  BY <1>1, <1>2 DEF WaitingInvariant, IdsAreCounted
<1>4. \A id \in Nat : Queued(id)' <=> Queued(id)
  BY <1>1 DEF Queued
<1>5. KeptAreQueued'
  BY <1>2, <1>4 DEF WaitingInvariant, KeptAreQueued
<1>6. QED
  BY <1>3, <1>5 DEF WaitingInvariant

LEMMA WaitingStep == WaitingInvariant /\ [Next]_vars => WaitingInvariant'
<1> SUFFICES ASSUME WaitingInvariant, [Next]_vars PROVE WaitingInvariant'
  OBVIOUS
<1>1. CASE UNCHANGED <<waiting, queue, nextId, emitted>>
  BY <1>1 DEF WaitingInvariant, IdsAreCounted, KeptAreQueued, Queued
<1>2. ASSUME ~\E o \in Objects : Destroy(o), ~\E signal \in Signals : EmitAll(signal), ~Dispatch
      PROVE  UNCHANGED <<waiting, queue, nextId, emitted>>
  BY <1>2, ZenonT(30) DEF Next, Create, Connect, Disconnect, CallSlot, SlotReturns, LoopEnds, vars
<1>3. QED
  BY <1>1, <1>2, EmitKeepsWaiting, DispatchKeepsWaiting, DeathKeepsWaiting

\* The callbacks an object keeps are those it has emitted since it was created that the
\* handler has still to take, and no two objects share one.
THEOREM CallbacksWait == Spec => []WaitingIsQueued
<1>1. Init => WaitingInvariant
  BY DEF Init, WaitingInvariant, IdsAreCounted, KeptAreQueued, Queued
<1>2. WaitingInvariant => WaitingIsQueued
  <2> SUFFICES ASSUME WaitingInvariant PROVE WaitingIsQueued
    OBVIOUS
  <2>1. ASSUME NEW o \in Objects
        PROVE  waiting[o] = {id \in emitted[o] : \E n \in DOMAIN queue : queue[n].id = id}
    <3>1. waiting[o] \subseteq Nat /\ emitted[o] \subseteq Nat
      BY DEF WaitingInvariant, IdsAreCounted, KeptAreQueued
    <3>2. \A id \in Nat : id \in waiting[o] <=>
            id \in emitted[o] /\ \E n \in DOMAIN queue : queue[n].id = id
      BY DEF WaitingInvariant, KeptAreQueued, Queued
    <3>3. QED
      BY <3>1, <3>2
  <2>2. ASSUME NEW o \in Objects, NEW p \in Objects, o # p
        PROVE  waiting[o] \cap waiting[p] = {}
    <3>1. emitted[o] \cap emitted[p] = {}
      BY <2>2 DEF WaitingInvariant, IdsAreCounted
    <3>2. QED
      BY <2>1, <3>1
  <2>3. QED
    BY <2>1, <2>2 DEF WaitingIsQueued
<1>3. QED
  BY <1>1, <1>2, WaitingStep, PTL DEF Spec

-----------------------------------------------------------------------------
(* Deliveries, and what slots may do to the connection meanwhile *)

LEMMA HashesOfSlots ==
  /\ \A slot \in Slots : Hash[slot] \in SlotHashes /\ Hash[slot] \in Nat
  /\ \A signal \in Signals : Hash[signal] \in Nat
  BY HashAssumption DEF SlotHashes

\* The connections stay finite, and made by the living.
LEMMA FiniteStep == TableInvariant /\ TableIsFinite /\ [Next]_vars => TableIsFinite'
<1> SUFFICES ASSUME TableInvariant, TableIsFinite, [Next]_vars PROVE TableIsFinite'
  OBVIOUS
<1>1. ASSUME NEW signal \in Signals, NEW slot \in Slots, Connect(signal, slot)
      PROVE  TableIsFinite'
  <2>1. PICK h, k : h = Hash[signal] /\ k = Hash[slot]
    OBVIOUS
  <2>2. /\ DOMAIN sigMap' = DOMAIN sigMap \cup {h}
        /\ \A g \in DOMAIN sigMap : g # h => sigMap'[g] = sigMap[g]
        /\ DOMAIN sigMap'[h] = {k} \cup (IF h \in DOMAIN sigMap THEN DOMAIN sigMap[h] ELSE {})
    <3>1. Adds(h, k, slot)
      BY <1>1, <2>1, ConnectAdds
    <3>2. QED
      BY <3>1 DEF Adds
  <2>3. ASSUME NEW S, IsFiniteSet(S) PROVE IsFiniteSet({k} \cup S)
    BY <2>3, FS_AddElement, {k} \cup S = S \cup {k}
  <2>4. DOMAIN sigMap'[h] \subseteq SlotHashes /\ IsFiniteSet(DOMAIN sigMap'[h])
    <3>1. k \in SlotHashes
      BY <2>1, HashesOfSlots
    <3>2. CASE h \in DOMAIN sigMap
      BY <2>2, <2>3, <3>1, <3>2 DEF TableIsFinite
    <3>3. CASE h \notin DOMAIN sigMap
      BY <2>2, <2>3, <3>1, <3>3, FS_EmptySet
    <3>4. QED
      BY <3>2, <3>3
  <2>5. live' = live /\ made' = [made EXCEPT ![slot[1]] = @ \cup {<<h, slot>>}] /\ slot[1] \in live
    BY <1>1, <2>1 DEF Connect
  <2>6. \A o \in Objects : made'[o] # {} => o \in live'
    BY <2>5 DEF TableIsFinite, TableInvariant, TableTypes
  <2>7. QED
    BY <2>2, <2>4, <2>6 DEF TableIsFinite
<1>2. ASSUME NEW signal \in Signals, NEW slot \in Slots, Disconnect(signal, slot)
      PROVE  TableIsFinite'
  <2>1. \A g \in DOMAIN sigMap' : g \in DOMAIN sigMap /\ DOMAIN sigMap'[g] \subseteq DOMAIN sigMap[g]
    <3>1. PICK h, k : h = Hash[signal] /\ k = Hash[slot]
      OBVIOUS
    <3>2. Erases(h, k)
      BY <1>2, <3>1, DisconnectErases
    <3>3. QED
      BY <3>2 DEF Erases
  <2>2. live' = live /\ \A o \in Objects : made'[o] \subseteq made[o]
    BY <1>2 DEF Disconnect, TableInvariant, TableTypes
  <2>3. QED
    BY <2>1, <2>2, FS_Subset DEF TableIsFinite
<1>3. ASSUME NEW o \in Objects, Destroy(o) PROVE TableIsFinite'
  <2>1. \A g \in DOMAIN sigMap' : g \in DOMAIN sigMap /\ DOMAIN sigMap'[g] \subseteq DOMAIN sigMap[g]
    BY <1>3, DestroyErases
  <2>2. /\ live' = live \ {o} /\ made'[o] = {}
        /\ \A p \in Objects : p # o => made'[p] = made[p]
    BY <1>3 DEF Destroy, TableInvariant, TableTypes
  <2>3. \A p \in Objects : made'[p] # {} => p \in live'
    BY <2>2 DEF TableIsFinite
  <2>4. QED
    BY <2>1, <2>3, FS_Subset DEF TableIsFinite
<1>4. ASSUME ~\E o \in Objects : Destroy(o),
             ~\E signal \in Signals, slot \in Slots :
                Connect(signal, slot) \/ Disconnect(signal, slot)
      PROVE  TableIsFinite'
  <2>1. UNCHANGED <<sigMap, made>>
    BY <1>4, TableKept
  <2>2. live \subseteq live'
    BY <1>4 DEF Next, Create, EmitAll, Dispatch, CallSlot, SlotReturns, LoopEnds, vars
  <2>3. QED
    BY <2>1, <2>2 DEF TableIsFinite
<1>5. QED
  BY <1>1, <1>2, <1>3, <1>4

\* A new pipe is ahead of a loop over its connection.
LEMMA ConnectKeepsLoop ==
  ASSUME LoopIsSound, NEW signal \in Signals, NEW slot \in Slots, Connect(signal, slot)
  PROVE  LoopIsSound'
<1>1. PICK h, k : h = Hash[signal] /\ k = Hash[slot]
  OBVIOUS
<1>2. /\ DOMAIN sigMap' = DOMAIN sigMap \cup {h}
      /\ \A g \in DOMAIN sigMap : g # h => sigMap'[g] = sigMap[g]
      /\ DOMAIN sigMap'[h] = {k} \cup (IF h \in DOMAIN sigMap THEN DOMAIN sigMap[h] ELSE {})
  <2>1. Adds(h, k, slot)
    BY <1>1, ConnectAdds
  <2>2. QED
    BY <2>1 DEF Adds
<1>3. PICK known : known = (h \in DOMAIN sigMap /\ k \in DOMAIN sigMap[h])
  OBVIOUS
<1>4. /\ loop' = IF loop.hash = h /\ loop.several /\ ~known
                 THEN [loop EXCEPT !.left = @ \cup {k}] ELSE loop
      /\ ~crashed /\ crashed' = crashed
  <2>1. (k \in DOMAIN (IF h \in DOMAIN sigMap THEN sigMap[h] ELSE [x \in {} |-> {}])) <=> known
    BY <1>3
  <2>2. QED
    BY <1>1, <2>1 DEF Connect, Running
<1>5. k \in SlotHashes
  BY <1>1, HashesOfSlots
<1>6. CASE loop' = loop /\ ~(loop.hash = h /\ loop.several /\ ~known)
  <2>1. loop.hash \in DOMAIN sigMap => /\ loop.hash \in DOMAIN sigMap'
                                       /\ DOMAIN sigMap[loop.hash] \subseteq DOMAIN sigMap'[loop.hash]
    BY <1>2
  <2>2. ASSUME loop.several, loop.hash \in DOMAIN sigMap'
        PROVE  loop.hash \in DOMAIN sigMap /\ DOMAIN sigMap'[loop.hash] = DOMAIN sigMap[loop.hash]
    BY <1>2, <1>3, <1>6, <2>2
  <2>3. loop.hash \in DOMAIN sigMap' /\ ~loop.lost /\ ~loop.shifted =>
          loop.first \cap DOMAIN sigMap'[loop.hash] \subseteq loop.done \cup loop.left
    BY <2>2 DEF LoopIsSound
  <2>4. QED
    BY <1>4, <1>6, <2>1, <2>3 DEF LoopIsSound
<1>7. CASE loop.hash = h /\ loop.several /\ ~known
  <2>1. loop' = [loop EXCEPT !.left = @ \cup {k}]
    BY <1>4, <1>7
  <2>2. /\ loop'.hash = loop.hash /\ loop'.first = loop.first /\ loop'.several = loop.several
        /\ loop'.done = loop.done /\ loop'.lost = loop.lost /\ loop'.shifted = loop.shifted
        /\ loop'.left = loop.left \cup {k} /\ loop'.calls = loop.calls
    BY <2>1 DEF LoopIsSound
  <2>3. loop' \in [hash : Nat, first : SUBSET SlotHashes, several : BOOLEAN,
                   left : SUBSET SlotHashes, calls : SUBSET SlotHashes,
                   done : SUBSET SlotHashes, node : SUBSET SlotHashes,
                   lost : BOOLEAN, shifted : BOOLEAN]
    BY <1>5, <2>1 DEF LoopIsSound
  <2>4. loop'.left \subseteq DOMAIN sigMap'[h] /\ h \in DOMAIN sigMap'
    BY <1>2, <1>7, <2>2 DEF LoopIsSound
  <2>5. ~loop.lost /\ ~loop.shifted =>
          loop.first \cap DOMAIN sigMap'[h] \subseteq loop.done \cup loop'.left
    BY <1>2, <1>7, <2>2 DEF LoopIsSound
  <2>6. QED
    BY <1>4, <1>7, <2>2, <2>3, <2>4, <2>5 DEF LoopIsSound
<1>8. QED
  BY <1>4, <1>6, <1>7

\* An erased pipe is no longer ahead; if the loop was at it, its node is gone.
LEMMA DisconnectKeepsLoop ==
  ASSUME LoopIsSound, NEW signal \in Signals, NEW slot \in Slots, Disconnect(signal, slot)
  PROVE  LoopIsSound'
<1>1. PICK h, k : h = Hash[signal] /\ k = Hash[slot]
  OBVIOUS
<1>2. /\ h \in DOMAIN sigMap /\ k \in DOMAIN sigMap[h]
      /\ DOMAIN sigMap' = IF DOMAIN sigMap[h] = {k} THEN DOMAIN sigMap \ {h} ELSE DOMAIN sigMap
      /\ \A g \in DOMAIN sigMap' :
           /\ g # h => sigMap'[g] = sigMap[g]
           /\ g = h => DOMAIN sigMap'[h] = DOMAIN sigMap[h] \ {k}
           /\ \A j \in DOMAIN sigMap'[g] : sigMap'[g][j] = sigMap[g][j]
  <2>1. Erases(h, k)
    BY <1>1, DisconnectErases
  <2>2. QED
    BY <2>1 DEF Erases
<1>3. /\ loop' = IF loop.hash = h /\ loop.several
                 THEN [loop EXCEPT !.left = @ \ {k}, !.lost = @ \/ k \in loop.node]
                 ELSE loop
      /\ ~crashed /\ crashed' = crashed /\ (loop = Idle \/ loop.calls # {})
  BY <1>1 DEF Disconnect, Running, LoopErases
<1>4. \A g \in DOMAIN sigMap' : g \in DOMAIN sigMap /\ DOMAIN sigMap'[g] \subseteq DOMAIN sigMap[g]
  BY <1>2
<1>5. CASE ~(loop.hash = h /\ loop.several)
  <2>1. loop' = loop
    BY <1>3, <1>5
  <2>2. loop.left # {} => /\ loop.hash \in DOMAIN sigMap'
                          /\ DOMAIN sigMap'[loop.hash] = DOMAIN sigMap[loop.hash]
    <3>1. loop.left # {} => loop.several /\ loop.hash # h /\ loop.hash \in DOMAIN sigMap
      BY <1>3, <1>5 DEF LoopIsSound, Idle
    <3>2. QED
      BY <1>2, <3>1
  <2>3. QED
    BY <1>3, <1>4, <2>1, <2>2 DEF LoopIsSound
<1>6. CASE loop.hash = h /\ loop.several
  <2>1. loop' = [loop EXCEPT !.left = @ \ {k}, !.lost = @ \/ k \in loop.node]
    BY <1>3, <1>6
  <2>2. /\ loop'.hash = loop.hash /\ loop'.first = loop.first /\ loop'.several = loop.several
        /\ loop'.done = loop.done /\ loop'.shifted = loop.shifted
        /\ loop'.left = loop.left \ {k} /\ loop'.calls = loop.calls
        /\ loop'.lost = (loop.lost \/ k \in loop.node)
    BY <2>1 DEF LoopIsSound
  <2>3. loop' \in [hash : Nat, first : SUBSET SlotHashes, several : BOOLEAN,
                   left : SUBSET SlotHashes, calls : SUBSET SlotHashes,
                   done : SUBSET SlotHashes, node : SUBSET SlotHashes,
                   lost : BOOLEAN, shifted : BOOLEAN]
    BY <2>1 DEF LoopIsSound
  <2>4. loop'.left # {} => h \in DOMAIN sigMap' /\ loop'.left \subseteq DOMAIN sigMap'[h]
    <3>1. loop'.left # {} => loop'.left \subseteq DOMAIN sigMap[h] \ {k}
      BY <1>6, <2>2 DEF LoopIsSound
    <3>2. QED
      BY <1>2, <3>1
  <2>5. h \in DOMAIN sigMap' /\ ~loop'.lost /\ ~loop.shifted =>
          loop.first \cap DOMAIN sigMap'[h] \subseteq loop.done \cup loop'.left
    <3>1. ~loop'.lost => ~loop.lost
      BY <2>2
    <3>2. ~loop.lost /\ ~loop.shifted =>
            loop.first \cap DOMAIN sigMap[h] \subseteq loop.done \cup loop.left
      BY <1>2, <1>6 DEF LoopIsSound
    <3>3. QED
      BY <1>2, <2>2, <3>1, <3>2
  <2>6. QED
    BY <1>3, <1>6, <2>2, <2>3, <2>4, <2>5 DEF LoopIsSound
<1>7. QED
  BY <1>5, <1>6

\* After a deletion the loop goes on past the pipes that are left, and misses as many
\* as were erased behind it; with none there it misses none.
LEMMA DestroyKeepsLoop ==
  ASSUME LoopIsSound, TableIsFinite, NEW o \in Objects, Destroy(o)
  PROVE  LoopIsSound'
<1>1. /\ DOMAIN sigMap' = DOMAIN sigMap
      /\ \A g \in DOMAIN sigMap :
           DOMAIN sigMap'[g] = IF g \in hashes[o] THEN DOMAIN sigMap[g] \ OwnPipes(g, o)
                               ELSE DOMAIN sigMap[g]
  BY DestroyErases
<1>2. ~crashed /\ crashed' = crashed /\ (loop = Idle \/ loop.calls # {})
  BY DEF Destroy, Running
<1>3. PICK erased : erased = OwnPipes(loop.hash, o)
  OBVIOUS
<1> DEFINE ahead == loop.left \ erased
           passed == erased \ loop.left
           hit == loop.hash \in hashes[o] /\ loop.hash \in DOMAIN sigMap
<1>4. CASE loop' = loop
  <2>1. loop.left # {} => ~hit \/ ~loop.several \/ erased = {}
          \/ DOMAIN sigMap'[loop.hash] = DOMAIN sigMap[loop.hash]
          \/ loop.left \subseteq DOMAIN sigMap'[loop.hash]
    <3>1. CASE loop.left # {} /\ hit /\ loop.several /\ erased # {}
      <4>1. \/ loop' = [loop EXCEPT !.left = {}, !.lost = TRUE, !.shifted = TRUE]
            \/ \E missed \in SUBSET ahead :
                 \E node \in {{k} : k \in missed} \cup {loop.node} :
                   loop' = [loop EXCEPT !.left = ahead \ missed, !.node = node,
                                        !.shifted = @ \/ passed # {}]
        BY <1>3, <3>1 DEF Destroy, LoopCompacts
      <4>2. loop'.left \subseteq ahead
        BY <4>1 DEF LoopIsSound
      <4>3. loop.left \cap erased = {}
        BY <1>4, <4>2
      <4>4. QED
        BY <1>1, <1>3, <3>1, <4>3 DEF LoopIsSound
    <3>2. QED
      BY <3>1
  <2>2. loop.left # {} => /\ loop.hash \in DOMAIN sigMap'
                          /\ loop.left \subseteq DOMAIN sigMap'[loop.hash]
    <3>1. loop.left # {} => loop.several /\ loop.hash \in DOMAIN sigMap
                            /\ loop.left \subseteq DOMAIN sigMap[loop.hash]
      BY <1>2 DEF LoopIsSound, Idle
    <3>2. QED
      BY <1>1, <1>3, <2>1, <3>1
  <2>3. loop.hash \in DOMAIN sigMap' => DOMAIN sigMap'[loop.hash] \subseteq DOMAIN sigMap[loop.hash]
    BY <1>1
  <2>4. QED
    BY <1>1, <1>2, <1>4, <2>2, <2>3 DEF LoopIsSound
<1>5. CASE loop' = [loop EXCEPT !.left = {}, !.lost = TRUE, !.shifted = TRUE] /\ loop.several
  <2>1. /\ loop'.first = loop.first /\ loop'.several = loop.several
        /\ loop'.left = {} /\ loop'.lost /\ loop'.hash = loop.hash
    BY <1>5 DEF LoopIsSound
  <2>2. loop' \in [hash : Nat, first : SUBSET SlotHashes, several : BOOLEAN,
                   left : SUBSET SlotHashes, calls : SUBSET SlotHashes,
                   done : SUBSET SlotHashes, node : SUBSET SlotHashes,
                   lost : BOOLEAN, shifted : BOOLEAN]
    BY <1>5 DEF LoopIsSound
  <2>3. QED
    BY <1>2, <1>5, <2>1, <2>2 DEF LoopIsSound
<1>6. ASSUME NEW missed \in SUBSET ahead, Cardinality(missed) = Cardinality(passed),
             NEW node \in {{k} : k \in missed} \cup {loop.node}, loop.several, hit,
             loop' = [loop EXCEPT !.left = ahead \ missed, !.node = node,
                                  !.shifted = @ \/ passed # {}]
      PROVE  LoopIsSound'
  <2>1. /\ loop'.hash = loop.hash /\ loop'.first = loop.first /\ loop'.several = loop.several
        /\ loop'.done = loop.done /\ loop'.lost = loop.lost /\ loop'.calls = loop.calls
        /\ loop'.left = ahead \ missed /\ loop'.shifted = (loop.shifted \/ passed # {})
    BY <1>6 DEF LoopIsSound
  <2>2. loop' \in [hash : Nat, first : SUBSET SlotHashes, several : BOOLEAN,
                   left : SUBSET SlotHashes, calls : SUBSET SlotHashes,
                   done : SUBSET SlotHashes, node : SUBSET SlotHashes,
                   lost : BOOLEAN, shifted : BOOLEAN]
    <3>1. node \in SUBSET SlotHashes
      BY <1>6 DEF LoopIsSound
    <3>2. QED
      BY <1>6, <3>1 DEF LoopIsSound
  <2>3. DOMAIN sigMap'[loop.hash] = DOMAIN sigMap[loop.hash] \ erased
    BY <1>1, <1>3, <1>6
  <2>4. loop'.left # {} => /\ loop.hash \in DOMAIN sigMap'
                           /\ loop'.left \subseteq DOMAIN sigMap'[loop.hash]
    BY <1>1, <1>6, <2>1, <2>3 DEF LoopIsSound
  <2>5. passed = {} => missed = {}
    <3>1. IsFiniteSet(missed)
      <4>1. loop.left # {} => IsFiniteSet(loop.left)
        BY FS_Subset DEF LoopIsSound, TableIsFinite
      <4>2. IsFiniteSet(loop.left)
        BY <4>1, FS_EmptySet
      <4>3. QED
        BY <4>2, FS_Subset
    <3>2. QED
      BY <1>6, <3>1, FS_EmptySet
  <2>6. ~loop'.lost /\ ~loop'.shifted =>
          loop.first \cap DOMAIN sigMap'[loop.hash] \subseteq loop.done \cup loop'.left
    <3>1. ~loop'.lost /\ ~loop'.shifted => ~loop.lost /\ ~loop.shifted /\ passed = {}
      BY <2>1
    <3>2. ~loop.lost /\ ~loop.shifted =>
            loop.first \cap DOMAIN sigMap[loop.hash] \subseteq loop.done \cup loop.left
      BY <1>6 DEF LoopIsSound
    <3>3. QED
      BY <2>1, <2>3, <2>5, <3>1, <3>2
  <2>7. QED
    BY <1>2, <1>6, <2>1, <2>2, <2>4, <2>6 DEF LoopIsSound
<1>7. \/ loop' = loop
      \/ loop' = [loop EXCEPT !.left = {}, !.lost = TRUE, !.shifted = TRUE] /\ loop.several
      \/ /\ loop.several /\ hit
         /\ \E missed \in SUBSET ahead :
              /\ Cardinality(missed) = Cardinality(passed)
              /\ \E node \in {{k} : k \in missed} \cup {loop.node} :
                   loop' = [loop EXCEPT !.left = ahead \ missed, !.node = node,
                                        !.shifted = @ \/ passed # {}]
  <2>1. CASE ~hit
    BY <2>1 DEF Destroy
  <2>2. CASE hit
    <3>1. LoopCompacts(loop.hash, erased)
      BY <1>3, <2>2 DEF Destroy
    <3>2. CASE ~loop.several \/ erased = {} \/ Cardinality(ahead) < Cardinality(passed)
      BY <3>1, <3>2 DEF LoopCompacts
    <3>3. CASE loop.several /\ erased # {} /\ ~(Cardinality(ahead) < Cardinality(passed))
      <4>1. \E missed \in SUBSET ahead :
              /\ Cardinality(missed) = Cardinality(passed)
              /\ \E node \in {{k} : k \in missed}
                               \cup (IF passed = {} THEN {loop.node} ELSE {}) :
                   loop' = [loop EXCEPT !.left = ahead \ missed, !.node = node,
                                        !.shifted = @ \/ passed # {}]
        BY <3>1, <3>3 DEF LoopCompacts
      <4>2. PICK missed \in SUBSET ahead :
              /\ Cardinality(missed) = Cardinality(passed)
              /\ \E node \in {{k} : k \in missed}
                               \cup (IF passed = {} THEN {loop.node} ELSE {}) :
                   loop' = [loop EXCEPT !.left = ahead \ missed, !.node = node,
                                        !.shifted = @ \/ passed # {}]
        BY <4>1
      <4>3. PICK node \in {{k} : k \in missed} \cup (IF passed = {} THEN {loop.node} ELSE {}) :
              loop' = [loop EXCEPT !.left = ahead \ missed, !.node = node,
                                   !.shifted = @ \/ passed # {}]
        BY <4>2
      <4>4. node \in {{k} : k \in missed} \cup {loop.node}
        BY <4>3
      <4>5. QED
        BY <2>2, <3>3, <4>2, <4>3, <4>4
    <3>4. QED
      BY <3>2, <3>3
  <2>3. QED
    BY <2>1, <2>2
<1>8. QED
  BY <1>4, <1>5, <1>6, <1>7

\* The steps of the handler itself.
LEMMA HandlerKeepsLoop ==
  ASSUME TableInvariant, WaitingInvariant, TableIsFinite, LoopIsSound,
         Dispatch \/ SlotReturns \/ LoopEnds \/ \E k \in loop.left : CallSlot(k)
  PROVE  LoopIsSound'
<1> DEFINE LoopTypes == [hash : Nat, first : SUBSET SlotHashes, several : BOOLEAN,
                         left : SUBSET SlotHashes, calls : SUBSET SlotHashes,
                         done : SUBSET SlotHashes, node : SUBSET SlotHashes,
                         lost : BOOLEAN, shifted : BOOLEAN]
<1>1. loop \in LoopTypes /\ sigMap' = sigMap /\ careless' = careless
  BY DEF LoopIsSound, Dispatch, SlotReturns, LoopEnds, CallSlot
<1>2. Idle \in LoopTypes
  BY DEF Idle
<1>3. CASE loop' = Idle /\ ~crashed'
  BY <1>1, <1>2, <1>3 DEF LoopIsSound, Idle
<1>4. CASE loop' = loop /\ (crashed' = crashed \/ loop.several)
  BY <1>1, <1>4 DEF LoopIsSound
<1>5. ASSUME NEW h \in DOMAIN sigMap, h \in Nat, Starts(h), ~crashed' PROVE LoopIsSound'
  <2> DEFINE D == DOMAIN sigMap[h]
             b == \A k \in D : D # {k}
  <2>1. D \subseteq SlotHashes
    BY DEF TableIsFinite
  <2>2. /\ loop' = [hash |-> h, first |-> D, several |-> b, left |-> D, calls |-> {},
                    done |-> {}, node |-> {}, lost |-> FALSE, shifted |-> FALSE]
    BY <1>5 DEF Starts, Idle
  <2>3. ~b => \E k : D = {k}
    OBVIOUS
  <2>4. b \in BOOLEAN
    OBVIOUS
  <2> HIDE DEF b
  <2>5. /\ loop'.hash = h /\ loop'.first = D /\ loop'.several = b /\ loop'.left = D
        /\ loop'.calls = {} /\ loop'.done = {} /\ loop'.lost = FALSE
    BY <2>2
  <2>6. loop' \in LoopTypes
    BY <1>5, <2>1, <2>2, <2>4
  <2>7. b => \A k \in D : D # {k}
    BY DEF b
  <2> HIDE DEF D
  <2>8. D = DOMAIN sigMap'[h] /\ h \in DOMAIN sigMap'
    BY <1>1 DEF D
  <2>9. ~b => \A j, k \in D : j = k
    BY <2>3
  <2>10. QED
    BY <1>5, <2>5, <2>6, <2>7, <2>8, <2>9 DEF LoopIsSound
<1>6. CASE Dispatch
  <2>1. Head(queue).hash \in Nat
    <3>1. queue # <<>> /\ queue \in Seq([id : Nat, hash : Nat])
      BY <1>6 DEF Dispatch, WaitingInvariant, IdsAreCounted
    <3>2. ASSUME NEW S, queue \in Seq(S) PROVE Head(queue) \in S
      BY <3>1, <3>2
    <3>3. QED
      BY <3>1, <3>2
  <2>2. /\ ~crashed' /\ loop = Idle
        /\ loop' = loop \/ (Head(queue).hash \in DOMAIN sigMap /\ Starts(Head(queue).hash))
    BY <1>6 DEF Dispatch
  <2>3. CASE loop' = loop
    BY <1>3, <2>2, <2>3
  <2>4. QED
    BY <1>5, <2>1, <2>2, <2>3
<1>7. ASSUME NEW k \in loop.left, CallSlot(k) PROVE LoopIsSound'
  <2>1. /\ loop' = [loop EXCEPT !.left = @ \ {k}, !.calls = {k}, !.node = {k}, !.done = @ \cup {k}]
        /\ ~crashed /\ loop.calls = {}
        /\ crashed' = crashed \/ sigMap[loop.hash][k].slot[1] \notin live
    BY <1>7 DEF CallSlot
  <2>2. /\ loop'.hash = loop.hash /\ loop'.first = loop.first /\ loop'.several = loop.several
        /\ loop'.lost = loop.lost /\ loop'.shifted = loop.shifted
        /\ loop'.left = loop.left \ {k} /\ loop'.done = loop.done \cup {k}
    BY <1>1, <2>1
  <2>3. loop' \in LoopTypes
    BY <1>1, <1>7, <2>1
  <2>4. loop.hash \in DOMAIN sigMap /\ k \in DOMAIN sigMap[loop.hash]
    BY <1>7 DEF LoopIsSound
  <2>5. ~crashed' \/ careless # {}
    <3> DEFINE slot == sigMap[loop.hash][k].slot
    <3>1. ASSUME careless = {} PROVE slot[1] \in live
      <4>1. slot \in Slots /\ slot[1] \in Objects
        BY <2>4, PairParts DEF TableInvariant, TableTypes
      <4>2. <<loop.hash, slot>> \in made[slot[1]]
        BY <2>4, <3>1 DEF TableInvariant, PipesAreTracked
      <4>3. QED
        BY <4>1, <4>2 DEF TableIsFinite
    <3>2. QED
      BY <2>1, <3>1
  <2>6. ~loop.several => loop.left \ {k} = {}
    BY <1>7 DEF LoopIsSound
  <2>7. loop.first \subseteq loop.done \cup loop.left => loop.first \subseteq loop'.done \cup loop'.left
    BY <2>2
  <2>8. loop.first \cap DOMAIN sigMap[loop.hash] \subseteq loop.done \cup loop.left =>
          loop.first \cap DOMAIN sigMap'[loop.hash] \subseteq loop'.done \cup loop'.left
    BY <1>1, <2>2
  <2>9. QED
    BY <1>1, <2>2, <2>3, <2>4, <2>5, <2>6, <2>7, <2>8 DEF LoopIsSound
<1>8. CASE SlotReturns
  <2>1. CASE loop' = [loop EXCEPT !.calls = {}, !.node = {}] /\ crashed' = crashed /\ ~crashed
    <3>1. /\ loop'.hash = loop.hash /\ loop'.first = loop.first /\ loop'.several = loop.several
          /\ loop'.lost = loop.lost /\ loop'.shifted = loop.shifted
          /\ loop'.left = loop.left /\ loop'.done = loop.done /\ loop'.calls = {}
      BY <1>1, <2>1
    <3>2. loop' \in LoopTypes
      BY <1>1, <2>1
    <3>3. QED
      BY <1>1, <2>1, <3>1, <3>2 DEF LoopIsSound
  <2>2. CASE loop.lost /\ loop' = [loop EXCEPT !.calls = {}, !.node = {}, !.left = {}] /\ ~crashed'
    <3>1. /\ loop'.hash = loop.hash /\ loop'.first = loop.first /\ loop'.several = loop.several
          /\ loop'.lost = loop.lost /\ loop'.left = {}
      BY <1>1, <2>2
    <3>2. loop' \in LoopTypes
      BY <1>1, <2>2
    <3>3. QED
      BY <1>1, <2>2, <3>1, <3>2 DEF LoopIsSound
  <2>3. CASE loop.lost /\ loop' = loop
    BY <1>4, <2>3 DEF LoopIsSound
  <2>4. QED
    BY <1>8, <2>1, <2>2, <2>3 DEF SlotReturns
<1>9. CASE LoopEnds
  BY <1>3, <1>9 DEF LoopEnds
<1>10. QED
  BY <1>6, <1>7, <1>8, <1>9

LEMMA LoopStep ==
  TableInvariant /\ WaitingInvariant /\ TableIsFinite /\ LoopIsSound /\ [Next]_vars =>
    LoopIsSound'
<1> SUFFICES ASSUME TableInvariant, WaitingInvariant, TableIsFinite, LoopIsSound, [Next]_vars
             PROVE  LoopIsSound'
  OBVIOUS
<1>1. CASE UNCHANGED <<crashed, sigMap, loop, careless>>
  BY <1>1 DEF LoopIsSound
<1>2. ASSUME NEW o \in Objects, Create(o) PROVE UNCHANGED <<crashed, sigMap, loop, careless>>
  BY <1>2 DEF Create
<1>3. ASSUME NEW signal \in Signals, EmitAll(signal)
      PROVE  UNCHANGED <<crashed, sigMap, loop, careless>>
  BY <1>3 DEF EmitAll
<1>4. CASE UNCHANGED vars
  BY <1>1, <1>4 DEF vars
<1>5. QED
  BY <1>1, <1>2, <1>3, <1>4, ConnectKeepsLoop, DisconnectKeepsLoop, DestroyKeepsLoop,
     HandlerKeepsLoop DEF Next

\* Of a delivery in which slots change the connection: whoever was connected when it
\* began, and still is, is called or is ahead of the loop; and a crash takes several
\* receivers, or one that was careless.
THEOREM DeliveriesReach == Spec => []DeliveryReaches
<1>1. Init => TableInvariant /\ WaitingInvariant /\ TableIsFinite /\ LoopIsSound
  <2>1. Init => TableInvariant /\ WaitingInvariant
    BY DEF Init, TableInvariant, TableTypes, PipesAreTracked, WaitingInvariant, IdsAreCounted,
       KeptAreQueued, Queued
  <2>2. Init => TableIsFinite
    BY DEF Init, TableIsFinite
  <2>3. Init => LoopIsSound
    BY DEF Init, LoopIsSound, Idle
  <2>4. QED
    BY <2>1, <2>2, <2>3
<1>2. LoopIsSound => DeliveryReaches
  BY DEF LoopIsSound, DeliveryReaches, ReceiversAreReached, OnlyReceiverMayLeave
<1>3. QED
  BY <1>1, <1>2, TableStep, WaitingStep, FiniteStep, LoopStep, PTL DEF Spec
=============================================================================
