--------------------------- MODULE LibratelProofs ---------------------------
(* Proofs about the parts of libratel that keep no table of their own: OptionalValue,
   for any variables and values, any conversion, whatever throws; and SelectHandler, for
   any set of sockets and numbers and any size of an fd_set. *)
EXTENDS OptionalValue, SelectHandler, TLAPS

-----------------------------------------------------------------------------
(* The inductive invariant of OptionalValue *)

\* A storage between calls.
Sound(s) == s \in Storage /\ (s.engaged <=> s.object # NoObject) /\ ~s.misused

\* A variable that is not in scope has nothing in its storage: its destructor, or the
\* unwinding of its constructor, has left none.
StorageIsSound ==
  /\ alive \subseteq Opts
  /\ opt \in [Opts -> Storage]
  /\ \A x \in Opts : Sound(opt[x]) /\ (x \notin alive => ~opt[x].engaged)

\* The value of the source is there after a copy that returned, and until the next call.
CopyIsEqual ==
  last.op \in {"copy", "assign"} /\ last.ok =>
    EqOO(opt[last.args[1]], opt[last.args[2]])

-----------------------------------------------------------------------------
(* What the members of OptionalBase__ leave in a storage *)

LEMMA SoundEmpty == Sound(Empty) /\ ~Empty.engaged
  BY ValuesAssumption DEF Sound, Empty, Storage

LEMMA SoundConstruct ==
  ASSUME NEW s, Sound(s), ~s.engaged, NEW v \in Values
  PROVE  /\ Sound(Construct(s, v)) /\ Construct(s, v).engaged
         /\ Construct(s, v).object = v
  BY ValuesAssumption DEF Sound, Construct, Storage

LEMMA SoundReset ==
  ASSUME NEW s, Sound(s)
  PROVE  Sound(Reset(s)) /\ ~Reset(s).engaged
  BY ValuesAssumption DEF Sound, Reset, Destruct, Storage

LEMMA SoundDestruct ==
  ASSUME NEW s, Sound(s), s.engaged
  PROVE  Sound(Destruct(s)) /\ ~Destruct(s).engaged
  BY ValuesAssumption DEF Sound, Destruct, Storage

LEMMA SoundAssign ==
  ASSUME NEW s, Sound(s), s.engaged, NEW v \in Values
  PROVE  /\ Sound(AssignObject(s, v)) /\ AssignObject(s, v).engaged
         /\ AssignObject(s, v).object = v
  BY ValuesAssumption DEF Sound, AssignObject, Storage

\* What is left of a source.
LEMMA SoundMoved ==
  ASSUME NEW y, Sound(opt[y]), NEW m \in MovedFrom(y)
  PROVE  Sound(m) /\ m.engaged = opt[y].engaged
  BY ValuesAssumption DEF Sound, MovedFrom, Storage

\* An engaged storage has a value in it.
LEMMA SoundObject ==
  ASSUME NEW s, Sound(s), s.engaged
  PROVE  s.object \in Values
  BY DEF Sound, Storage

\* construct__ returns with the value in the storage, or leaves it as it was.
LEMMA ConstructOutcome ==
  ASSUME NEW s, Sound(s), ~s.engaged, NEW v \in Values, NEW r \in Constructed(s, v)
  PROVE  /\ Sound(r.s) /\ r.ok \in BOOLEAN
         /\ r.ok => r.s.engaged /\ r.s.object = v
         /\ ~r.ok => r.s = s
<1>1. r = Returned(Construct(s, v)) \/ r = Thrown(s)
  BY DEF Constructed, Throws
<1>2. PICK t : t = Construct(s, v)
  OBVIOUS
<1>3. Sound(t) /\ t.engaged /\ t.object = v
  BY <1>2, SoundConstruct
<1>4. (r.s = t /\ r.ok = TRUE) \/ (r.s = s /\ r.ok = FALSE)
  BY <1>1, <1>2 DEF Returned, Thrown
<1>5. QED
  BY <1>3, <1>4

\* An assignment from another Optional returns with its value, or leaves the storage sound.
LEMMA AssignOutcome ==
  ASSUME NEW s, Sound(s), NEW source, Sound(source), NEW v, source.engaged => v \in Values,
         NEW r \in AssignFrom(s, source, v)
  PROVE  /\ Sound(r.s) /\ r.ok \in BOOLEAN
         /\ r.ok => r.s.engaged = source.engaged /\ (source.engaged => r.s.object = v)
<1>1. s.engaged \in BOOLEAN /\ source.engaged \in BOOLEAN
  BY DEF Sound, Storage
<1>2. CASE s.engaged /\ source.engaged
  <2>1. r \in Assigned(s, v)
    BY <1>2 DEF AssignFrom
  <2>2. r = Returned(AssignObject(s, v)) \/ \E w \in Values : r = Thrown(AssignObject(s, w))
    BY <2>1 DEF Assigned, Throws
  <2>3. PICK w \in Values \cup {v} :
          r = Returned(AssignObject(s, v)) \/ r = Thrown(AssignObject(s, w))
    BY <2>2
  <2>4. PICK t, u : t = AssignObject(s, v) /\ u = AssignObject(s, w)
    OBVIOUS
  <2>5. Sound(t) /\ t.engaged /\ t.object = v /\ Sound(u)
    <3>1. v \in Values /\ w \in Values
      BY <1>2, <2>3
    <3>2. QED
      BY <1>2, <2>4, <3>1, SoundAssign
  <2>6. (r.s = t /\ r.ok = TRUE) \/ (r.s = u /\ r.ok = FALSE)
    BY <2>3, <2>4 DEF Returned, Thrown
  <2>7. t.engaged \in BOOLEAN
    BY <2>5 DEF Sound, Storage
  <2>8. QED
    BY <1>2, <2>5, <2>6, <2>7
<1>3. CASE ~s.engaged /\ source.engaged
  <2>1. r \in Constructed(s, v)
    BY <1>3 DEF AssignFrom
  <2>2. QED
    BY <1>1, <1>3, <2>1, ConstructOutcome
<1>4. CASE ~source.engaged
  <2>1. r = Returned(Reset(s))
    BY <1>4 DEF AssignFrom
  <2>2. Sound(Reset(s)) /\ ~Reset(s).engaged /\ Reset(s).engaged \in BOOLEAN
    BY SoundReset DEF Sound, Storage
  <2>3. QED
    BY <1>1, <1>4, <2>1, <2>2 DEF Returned
<1>5. QED
  BY <1>2, <1>3, <1>4

\* A constructor from another Optional.
LEMMA CopyOutcome ==
  ASSUME NEW y, Sound(opt[y]), NEW v, opt[y].engaged => v \in Values, NEW r \in Copies(y, v)
  PROVE  /\ Sound(r.s) /\ r.ok \in BOOLEAN
         /\ r.ok => r.s.engaged = opt[y].engaged /\ (opt[y].engaged => r.s.object = v)
<1>1. opt[y].engaged \in BOOLEAN
  BY DEF Sound, Storage
<1>2. CASE opt[y].engaged
  <2>1. r \in Constructed(Empty, v)
    BY <1>2 DEF Copies
  <2>2. QED
    BY <1>1, <1>2, <2>1, SoundEmpty, ConstructOutcome
<1>3. CASE ~opt[y].engaged
  <2>1. r = Returned(Empty)
    BY <1>3 DEF Copies
  <2>2. QED
    BY <1>1, <1>3, <2>1, SoundEmpty DEF Returned, Empty
<1>4. QED
  BY <1>2, <1>3

-----------------------------------------------------------------------------
(* What a call leaves in the variables *)

\* One variable has another storage, and only it may come into scope or leave it.
LEMMA OneChanges ==
  ASSUME StorageIsSound, NEW x \in Opts, NEW t, Sound(t), opt' = [opt EXCEPT ![x] = t],
         alive' \subseteq Opts, alive' \ {x} = alive \ {x}, x \notin alive' => ~t.engaged
  PROVE  StorageIsSound'
<1>1. t \in Storage
  BY DEF Sound
<1>2. /\ opt \in [Opts -> Storage]
      /\ \A y \in Opts : Sound(opt[y]) /\ (y \notin alive => ~opt[y].engaged)
  BY DEF StorageIsSound
<1>3. opt' \in [Opts -> Storage]
  BY <1>1, <1>2
<1>4. \A y \in Opts : opt'[y] = IF y = x THEN t ELSE opt[y]
  BY <1>2
<1>5. \A y \in Opts : Sound(opt'[y]) /\ (y \notin alive' => ~opt'[y].engaged)
  <2> SUFFICES ASSUME NEW y \in Opts
               PROVE  Sound(opt'[y]) /\ (y \notin alive' => ~opt'[y].engaged)
    OBVIOUS
  <2>1. CASE y = x
    BY <1>4, <2>1
  <2>2. CASE y # x
    <3>1. opt'[y] = opt[y] /\ (y \in alive' <=> y \in alive)
      BY <1>4, <2>2
    <3>2. QED
      BY <1>2, <3>1
  <2>3. QED
    BY <2>1, <2>2
<1>6. QED
  BY <1>3, <1>5 DEF StorageIsSound, Sound, Storage

\* Two variables have other storages; the second, a source, stays in scope.
LEMMA TwoChange ==
  ASSUME StorageIsSound, NEW x \in Opts, NEW y \in alive, x # y, NEW t, Sound(t), NEW u, Sound(u),
         opt' = [opt EXCEPT ![x] = t, ![y] = u],
         alive' \subseteq Opts, alive' \ {x} = alive \ {x}, x \notin alive' => ~t.engaged
  PROVE  StorageIsSound'
<1>1. t \in Storage /\ u \in Storage /\ y \in Opts
  BY DEF Sound, StorageIsSound
<1>2. /\ opt \in [Opts -> Storage]
      /\ \A z \in Opts : Sound(opt[z]) /\ (z \notin alive => ~opt[z].engaged)
  BY DEF StorageIsSound
<1>3. opt' \in [Opts -> Storage]
  BY <1>1, <1>2
<1>4. \A z \in Opts : opt'[z] = IF z = y THEN u ELSE IF z = x THEN t ELSE opt[z]
  BY <1>1, <1>2
<1>5. \A z \in Opts : Sound(opt'[z]) /\ (z \notin alive' => ~opt'[z].engaged)
  <2> SUFFICES ASSUME NEW z \in Opts
               PROVE  Sound(opt'[z]) /\ (z \notin alive' => ~opt'[z].engaged)
    OBVIOUS
  <2>1. CASE z = x
    <3>1. opt'[z] = t
      BY <1>4, <2>1
    <3>2. QED
      BY <2>1, <3>1
  <2>2. CASE z = y
    <3>1. opt'[z] = u /\ z \in alive'
      BY <1>4, <2>2
    <3>2. QED
      BY <3>1
  <2>3. CASE z # x /\ z # y
    <3>1. opt'[z] = opt[z] /\ (z \in alive' <=> z \in alive)
      BY <1>4, <2>3
    <3>2. QED
      BY <1>2, <3>1
  <2>4. QED
    BY <2>1, <2>2, <2>3
<1>6. QED
  BY <1>3, <1>5 DEF StorageIsSound, Sound, Storage

\* A variable that is constructed is in scope if its constructor returned.
LEMMA BornSound ==
  ASSUME StorageIsSound, NEW x \in Opts \ alive, NEW op, NEW args, args[1] = x,
         NEW outcomes, \A r \in outcomes : Sound(r.s), Born(op, args, outcomes)
  PROVE  StorageIsSound'
<1>1. PICK r \in outcomes :
        /\ opt' = [opt EXCEPT ![x] = IF r.ok THEN r.s ELSE Empty]
        /\ alive' = IF r.ok THEN alive \cup {x} ELSE alive
  BY DEF Born
<1>2. PICK t : t = IF r.ok THEN r.s ELSE Empty
  OBVIOUS
<1>3. Sound(t) /\ (~r.ok => ~t.engaged)
  BY <1>2, SoundEmpty
<1>4. alive \subseteq Opts
  BY DEF StorageIsSound
<1>5. alive' \subseteq Opts /\ alive' \ {x} = alive \ {x} /\ (x \notin alive' => ~r.ok)
  BY <1>1, <1>4
<1>6. opt' = [opt EXCEPT ![x] = t]
  BY <1>1, <1>2
<1>7. QED
  BY <1>3, <1>5, <1>6, OneChanges

\* The same, when the source has been moved from.
LEMMA BornFromMoved ==
  ASSUME StorageIsSound, NEW x \in Opts \ alive, NEW y \in alive,
         NEW outcomes, \A r \in outcomes : Sound(r.s),
         \E r \in outcomes, m \in MovedFrom(y) :
           /\ opt' = [opt EXCEPT ![x] = IF r.ok THEN r.s ELSE Empty, ![y] = m]
           /\ alive' = IF r.ok THEN alive \cup {x} ELSE alive
  PROVE  StorageIsSound'
<1>0. PICK r \in outcomes, m \in MovedFrom(y) :
        /\ opt' = [opt EXCEPT ![x] = IF r.ok THEN r.s ELSE Empty, ![y] = m]
        /\ alive' = IF r.ok THEN alive \cup {x} ELSE alive
  OBVIOUS
<1>1. PICK t : t = IF r.ok THEN r.s ELSE Empty
  OBVIOUS
<1>2. Sound(t) /\ (~r.ok => ~t.engaged)
  BY <1>1, SoundEmpty
<1>3. alive \subseteq Opts /\ Sound(opt[y])
  BY DEF StorageIsSound
<1>4. alive' \subseteq Opts /\ alive' \ {x} = alive \ {x} /\ (x \notin alive' => ~r.ok) /\ x # y
  BY <1>0, <1>3
<1>5. opt' = [opt EXCEPT ![x] = t, ![y] = m]
  BY <1>0, <1>1
<1>6. Sound(m)
  BY <1>3, SoundMoved
<1>7. x \in Opts /\ (x \notin alive' => ~t.engaged)
  BY <1>2, <1>4
<1>8. QED
  BY <1>2, <1>4, <1>5, <1>6, <1>7, TwoChange

\* A variable in scope is given another storage.
LEMMA ChangedSound ==
  ASSUME StorageIsSound, NEW x \in alive, NEW op, NEW args, args[1] = x,
         NEW outcomes, \A r \in outcomes : Sound(r.s), Changed(op, args, outcomes)
  PROVE  StorageIsSound'
<1>1. PICK r \in outcomes : opt' = [opt EXCEPT ![x] = r.s] /\ alive' = alive
  BY DEF Changed
<1>2. PICK t : t = r.s
  OBVIOUS
<1>3. Sound(t) /\ opt' = [opt EXCEPT ![x] = t]
  BY <1>1, <1>2
<1>4. x \in Opts /\ alive' \subseteq Opts /\ alive' \ {x} = alive \ {x} /\ x \in alive'
  BY <1>1 DEF StorageIsSound
<1>5. QED
  BY <1>3, <1>4, OneChanges

\* A pair in scope, the second of which is a source.
LEMMA PairSound ==
  ASSUME StorageIsSound, NEW x \in alive, NEW y \in alive, x # y, NEW t, Sound(t), NEW u, Sound(u),
         opt' = [opt EXCEPT ![x] = t, ![y] = u], alive' = alive
  PROVE  StorageIsSound'
<1>1. x \in Opts /\ alive' \subseteq Opts /\ alive' \ {x} = alive \ {x} /\ x \in alive'
  BY DEF StorageIsSound
<1>2. QED
  BY <1>1, TwoChange

-----------------------------------------------------------------------------
(* Every call *)

\* A variable that has been given an object, or none, from another one or a value.
LEMMA InScope ==
  ASSUME StorageIsSound, NEW y \in alive
  PROVE  /\ y \in Opts /\ Sound(opt[y]) /\ opt[y].engaged \in BOOLEAN
         /\ opt[y].engaged => opt[y].object \in Values
  BY SoundObject DEF StorageIsSound, Sound, Storage

LEMMA ConstructorsSound ==
  ASSUME StorageIsSound, NEW x \in Opts,
         \/ ConstructEmpty(x)
         \/ \E v \in Values : ConstructValue(x, v)
         \/ \E y \in Opts : CopyConstruct(x, y) \/ MoveConstruct(x, y) \/ ConvertConstruct(x, y)
  PROVE  StorageIsSound'
<1>1. CASE ConstructEmpty(x)
  <2>1. x \in Opts \ alive /\ Born("empty", <<x>>, {Returned(Empty)}) /\ <<x>>[1] = x
    BY <1>1 DEF ConstructEmpty
  <2>2. \A r \in {Returned(Empty)} : Sound(r.s)
    BY SoundEmpty DEF Returned
  <2>3. QED
    BY <2>1, <2>2, BornSound
<1>2. ASSUME NEW v \in Values, ConstructValue(x, v) PROVE StorageIsSound'
  <2>1. /\ x \in Opts \ alive /\ Born("value", <<x>>, Constructed(Empty, v)) /\ <<x>>[1] = x
    BY <1>2 DEF ConstructValue
  <2>2. \A r \in Constructed(Empty, v) : Sound(r.s)
    BY SoundEmpty, ConstructOutcome
  <2>3. QED
    BY <2>1, <2>2, BornSound
<1>3. ASSUME NEW y \in Opts, CopyConstruct(x, y) PROVE StorageIsSound'
  <2>1. /\ x \in Opts \ alive /\ y \in alive /\ <<x, y>>[1] = x
        /\ Born("copy", <<x, y>>, Copies(y, opt[y].object))
    BY <1>3 DEF CopyConstruct
  <2>2. \A r \in Copies(y, opt[y].object) : Sound(r.s)
    BY <2>1, InScope, CopyOutcome
  <2>3. QED
    BY <2>1, <2>2, BornSound
<1>4. ASSUME NEW y \in Opts, MoveConstruct(x, y) PROVE StorageIsSound'
  <2>1. /\ x \in Opts \ alive /\ y \in alive
        /\ \E r \in Copies(y, opt[y].object), m \in MovedFrom(y) :
             /\ opt' = [opt EXCEPT ![x] = IF r.ok THEN r.s ELSE Empty, ![y] = m]
             /\ alive' = IF r.ok THEN alive \cup {x} ELSE alive
    BY <1>4 DEF MoveConstruct
  <2>2. \A r \in Copies(y, opt[y].object) : Sound(r.s)
    BY <2>1, InScope, CopyOutcome
  <2>3. QED
    BY <2>1, <2>2, BornFromMoved
<1>5. ASSUME NEW y \in Opts, ConvertConstruct(x, y) PROVE StorageIsSound'
  <2>1. PICK outcomes :
          outcomes = IF opt[y].engaged THEN Copies(y, Convert[opt[y].object]) ELSE {Returned(Empty)}
    OBVIOUS
  <2>2. /\ x \in Opts \ alive /\ y \in alive
        /\ \E r \in outcomes, m \in MovedFrom(y) :
             /\ opt' = [opt EXCEPT ![x] = IF r.ok THEN r.s ELSE Empty, ![y] = m]
             /\ alive' = IF r.ok THEN alive \cup {x} ELSE alive
    BY <1>5, <2>1 DEF ConvertConstruct
  <2>3. \A r \in outcomes : Sound(r.s)
    <3>1. CASE opt[y].engaged
      <4>1. Convert[opt[y].object] \in Values
        BY <2>2, <3>1, InScope, ValuesAssumption
      <4>2. \A r \in Copies(y, Convert[opt[y].object]) : Sound(r.s)
        BY <2>2, <4>1, InScope, CopyOutcome
      <4>3. QED
        BY <2>1, <3>1, <4>2
    <3>2. CASE ~opt[y].engaged
      BY <2>1, <3>2, SoundEmpty DEF Returned
    <3>3. QED
      BY <3>1, <3>2
  <2>4. QED
    BY <2>2, <2>3, BornFromMoved
<1>6. QED
  BY <1>1, <1>2, <1>3, <1>4, <1>5

LEMMA AssignmentsSound ==
  ASSUME StorageIsSound, NEW x \in Opts,
         \/ AssignNull(x)
         \/ \E v \in Values : AssignValue(x, v) \/ Emplace(x, v)
         \/ \E y \in Opts : CopyAssign(x, y) \/ MoveAssign(x, y) \/ ConvertAssign(x, y)
  PROVE  StorageIsSound'
<1>1. CASE AssignNull(x)
  <2>1. x \in alive /\ Changed("reset", <<x>>, {Returned(Reset(opt[x]))}) /\ <<x>>[1] = x
    BY <1>1 DEF AssignNull
  <2>2. \A r \in {Returned(Reset(opt[x]))} : Sound(r.s)
    BY <2>1, InScope, SoundReset DEF Returned
  <2>3. QED
    BY <2>1, <2>2, ChangedSound
<1>2. ASSUME NEW v \in Values, AssignValue(x, v) PROVE StorageIsSound'
  <2>1. /\ x \in alive /\ Changed("assignValue", <<x, v>>, {Returned(opt[x])})
        /\ <<x, v>>[1] = x
    BY <1>2 DEF AssignValue
  <2>2. \A r \in {Returned(opt[x])} : Sound(r.s)
    BY <2>1, InScope DEF Returned
  <2>3. QED
    BY <2>1, <2>2, ChangedSound
<1>3. ASSUME NEW v \in Values, Emplace(x, v) PROVE StorageIsSound'
  <2>1. /\ x \in alive /\ Changed("emplace", <<x>>, Constructed(Reset(opt[x]), v))
        /\ <<x>>[1] = x
    BY <1>3 DEF Emplace
  <2>2. Sound(Reset(opt[x])) /\ ~Reset(opt[x]).engaged
    BY <2>1, InScope, SoundReset
  <2>3. \A r \in Constructed(Reset(opt[x]), v) : Sound(r.s)
    BY <2>2, ConstructOutcome
  <2>4. QED
    BY <2>1, <2>3, ChangedSound
<1>4. ASSUME NEW y \in Opts, CopyAssign(x, y) PROVE StorageIsSound'
  <2>1. /\ x \in alive /\ y \in alive /\ <<x, y>>[1] = x
        /\ Changed("assign", <<x, y>>, AssignFrom(opt[x], opt[y], opt[y].object))
    BY <1>4 DEF CopyAssign
  <2>2. \A r \in AssignFrom(opt[x], opt[y], opt[y].object) : Sound(r.s)
    BY <2>1, InScope, AssignOutcome
  <2>3. QED
    BY <2>1, <2>2, ChangedSound
<1>5. ASSUME NEW y \in Opts, MoveAssign(x, y) PROVE StorageIsSound'
  <2>1. x \in alive /\ y \in alive /\ alive' = alive
    BY <1>5 DEF MoveAssign
  <2>2. PICK r \in AssignFrom(opt[x], opt[y], opt[y].object), m \in MovedFrom(y) :
          opt' = IF x = y THEN [opt EXCEPT ![x] = r.s] ELSE [opt EXCEPT ![x] = r.s, ![y] = m]
    BY <1>5 DEF MoveAssign
  <2>3. PICK t : t = r.s
    OBVIOUS
  <2>4. Sound(t) /\ Sound(m)
    BY <2>1, <2>3, InScope, AssignOutcome, SoundMoved
  <2>5. CASE x = y
    <3>1. opt' = [opt EXCEPT ![x] = t]
      BY <2>2, <2>3, <2>5
    <3>2. alive' \subseteq Opts /\ alive' \ {x} = alive \ {x} /\ x \in alive'
      BY <2>1 DEF StorageIsSound
    <3>3. QED
      BY <2>4, <3>1, <3>2, OneChanges
  <2>6. CASE x # y
    <3>1. opt' = [opt EXCEPT ![x] = t, ![y] = m]
      BY <2>2, <2>3, <2>6
    <3>2. QED
      BY <2>1, <2>4, <2>6, <3>1, PairSound
  <2>7. QED
    BY <2>5, <2>6
<1>6. ASSUME NEW y \in Opts, ConvertAssign(x, y) PROVE StorageIsSound'
  <2>1. PICK v : v = IF opt[y].engaged THEN Convert[opt[y].object] ELSE NoObject
    OBVIOUS
  <2>2. x \in alive /\ y \in alive /\ x # y /\ alive' = alive
    BY <1>6 DEF ConvertAssign
  <2>3. PICK r \in AssignFrom(opt[x], opt[y], v), m \in MovedFrom(y) :
          opt' = [opt EXCEPT ![x] = r.s, ![y] = m]
    BY <1>6, <2>1 DEF ConvertAssign
  <2>4. opt[y].engaged => v \in Values
    BY <2>1, <2>2, InScope, ValuesAssumption
  <2>5. PICK t : t = r.s
    OBVIOUS
  <2>6. Sound(t) /\ Sound(m)
    BY <2>2, <2>4, <2>5, InScope, AssignOutcome, SoundMoved
  <2>7. opt' = [opt EXCEPT ![x] = t, ![y] = m]
    BY <2>3, <2>5
  <2>8. QED
    BY <2>2, <2>6, <2>7, PairSound
<1>7. QED
  BY <1>1, <1>2, <1>3, <1>4, <1>5, <1>6

\* Half of a swap leaves a sound storage, given two that agree on the flag.
LEMMA SwapHalf ==
  ASSUME NEW s, Sound(s), NEW t, Sound(t), s.engaged = t.engaged
  PROVE  Sound([s EXCEPT !.object = t.object])
  BY DEF Sound, Storage

LEMMA SwapsSound ==
  ASSUME StorageIsSound, NEW x \in Opts, NEW y \in Opts, SwapOne(x, y) \/ SwapBoth(x, y)
  PROVE  StorageIsSound'
<1>1. CASE SwapOne(x, y)
  <2>1. x \in alive /\ y \in alive /\ x # y /\ alive' = alive /\ opt[x].engaged /\ ~opt[y].engaged
    BY <1>1 DEF SwapOne
  <2>2. PICK r \in Constructed(opt[y], opt[x].object), m \in MovedFrom(x) :
          opt' = [opt EXCEPT ![x] = IF r.ok THEN Destruct(m) ELSE m, ![y] = r.s]
    BY <1>1 DEF SwapOne
  <2>3. PICK t, u : t = (IF r.ok THEN Destruct(m) ELSE m) /\ u = r.s
    OBVIOUS
  <2>4. Sound(u)
    <3>1. Sound(opt[y]) /\ opt[x].object \in Values
      BY <2>1, InScope
    <3>2. QED
      BY <2>1, <2>3, <3>1, ConstructOutcome
  <2>5. Sound(m) /\ m.engaged
    BY <2>1, InScope, SoundMoved
  <2>6. Sound(t)
    BY <2>3, <2>5, SoundDestruct
  <2>7. opt' = [opt EXCEPT ![x] = t, ![y] = u]
    BY <2>2, <2>3
  <2>8. QED
    BY <2>1, <2>4, <2>6, <2>7, PairSound
<1>2. CASE SwapBoth(x, y)
  <2>1. x \in alive /\ y \in alive /\ alive' = alive /\ opt[x].engaged = opt[y].engaged
    BY <1>2 DEF SwapBoth
  <2>2. /\ x \in Opts /\ y \in Opts /\ Sound(opt[x]) /\ Sound(opt[y])
        /\ opt \in [Opts -> Storage] /\ alive' \subseteq Opts /\ alive' \ {x} = alive \ {x}
    BY <2>1, InScope DEF StorageIsSound
  <2>3. PICK t, u : /\ t = [opt[x] EXCEPT !.object = opt[y].object]
                    /\ u = [opt[y] EXCEPT !.object = opt[x].object]
    OBVIOUS
  <2>4. Sound(t) /\ Sound(u)
    BY <2>1, <2>2, <2>3, SwapHalf
  <2>5. CASE opt' = [opt EXCEPT ![x].object = opt[y].object, ![y].object = opt[x].object]
    <3>1. CASE x = y
      <4>1. t = opt[x] /\ opt' = [opt EXCEPT ![x] = opt[x]]
        <5>1. opt[x] \in Storage
          BY <2>2
        <5>2. t = opt[x]
          BY <2>3, <3>1, <5>1 DEF Storage
        <5>3. opt' \in [Opts -> Storage] /\ \A z \in Opts : opt'[z] = opt[z]
          BY <2>2, <2>3, <2>5, <3>1, <5>1, <5>2 DEF Storage
        <5>4. opt' = [opt EXCEPT ![x] = opt[x]]
          BY <2>2, <5>3
        <5>5. QED
          BY <5>2, <5>4
      <4>2. QED
        BY <2>1, <2>2, <4>1, OneChanges
    <3>2. CASE x # y
      <4>1. opt' = [opt EXCEPT ![x] = t, ![y] = u]
        BY <2>2, <2>3, <2>5, <3>2
      <4>2. QED
        BY <2>1, <2>4, <3>2, <4>1, PairSound
    <3>3. QED
      BY <3>1, <3>2
  <2>6. ASSUME NEW m \in MovedFrom(x), NEW n \in MovedFrom(y), opt' = [opt EXCEPT ![x] = m, ![y] = n]
        PROVE  StorageIsSound'
    <3>1. Sound(m) /\ Sound(n)
      BY <2>2, SoundMoved
    <3>2. CASE x = y
      <4>1. opt' = [opt EXCEPT ![x] = n]
        BY <2>2, <2>6, <3>2
      <4>2. QED
        BY <2>1, <2>2, <3>1, <4>1, OneChanges
    <3>3. CASE x # y
      BY <2>1, <2>6, <3>1, <3>3, PairSound
    <3>4. QED
      BY <3>2, <3>3
  <2>7. QED
    BY <1>2, <2>5, <2>6 DEF SwapBoth
<1>3. QED
  BY <1>1, <1>2

LEMMA DestroySound ==
  ASSUME StorageIsSound, NEW x \in Opts, Destroy(x)
  PROVE  StorageIsSound'
<1>1. x \in alive /\ alive' = alive \ {x} /\ opt' = [opt EXCEPT ![x] = Reset(opt[x])]
  BY DEF Destroy, StorageIsSound
<1>2. PICK t : t = Reset(opt[x])
  OBVIOUS
<1>3. Sound(t) /\ ~t.engaged
  BY <1>1, <1>2, InScope, SoundReset
<1>4. alive' \subseteq Opts /\ alive' \ {x} = alive \ {x} /\ opt' = [opt EXCEPT ![x] = t]
  BY <1>1, <1>2 DEF StorageIsSound
<1>5. QED
  BY <1>3, <1>4, OneChanges

\* No call leaves a storage whose flag and object disagree, whatever it lets out.
LEMMA StorageStep == StorageIsSound /\ [Next]_vars => StorageIsSound'
<1> SUFFICES ASSUME StorageIsSound, [Next]_vars PROVE StorageIsSound'
  OBVIOUS
<1>1. ASSUME NEW x \in Opts,
             \/ ConstructEmpty(x) \/ AssignNull(x) \/ Destroy(x)
             \/ \E v \in Values : ConstructValue(x, v) \/ AssignValue(x, v) \/ Emplace(x, v)
             \/ \E y \in Opts :
                  \/ CopyConstruct(x, y) \/ MoveConstruct(x, y) \/ ConvertConstruct(x, y)
                  \/ CopyAssign(x, y) \/ MoveAssign(x, y) \/ ConvertAssign(x, y)
                  \/ SwapOne(x, y) \/ SwapBoth(x, y)
      PROVE  StorageIsSound'
  BY <1>1, ConstructorsSound, AssignmentsSound, SwapsSound, DestroySound
<1>2. CASE UNCHANGED vars
  BY <1>2 DEF StorageIsSound, Sound, Storage, vars
<1>3. QED
  BY <1>1, <1>2 DEF Next

LEMMA StoragesAreSound == Spec => []StorageIsSound
<1>1. Init => StorageIsSound
  BY SoundEmpty DEF Init, StorageIsSound, Sound
<1>2. QED
  BY <1>1, StorageStep, PTL DEF Spec

\* An object is there exactly if the flag says so, whatever has thrown: no member uses
\* or destroys one that is not there, leaves one behind or builds one over it.
THEOREM FlagIsObject == Spec => []EngagedIsObject
<1>1. StorageIsSound => EngagedIsObject
  BY DEF StorageIsSound, Sound, EngagedIsObject
<1>2. QED
  BY <1>1, StoragesAreSound, PTL

-----------------------------------------------------------------------------
(* Comparisons *)

LEMMA EqualToItself ==
  ASSUME NEW s
  PROVE  EqOO(s, s)
  BY DEF EqOO

LEMMA CopyConstructEqual ==
  ASSUME StorageIsSound, NEW x \in Opts, NEW y \in Opts, CopyConstruct(x, y)
  PROVE  CopyIsEqual'
<1>1. /\ x \notin alive /\ y \in alive /\ x # y
  BY DEF CopyConstruct
<1>2. PICK r \in Copies(y, opt[y].object) :
        /\ opt' = [opt EXCEPT ![x] = IF r.ok THEN r.s ELSE Empty]
        /\ last' = [op |-> "copy", args |-> <<x, y>>, ok |-> r.ok]
  BY DEF CopyConstruct, Born, Called
<1>3. /\ r.ok \in BOOLEAN
      /\ r.ok => r.s.engaged = opt[y].engaged /\ (opt[y].engaged => r.s.object = opt[y].object)
  BY <1>1, InScope, CopyOutcome
<1>4. last'.ok = r.ok /\ last'.args[1] = x /\ last'.args[2] = y
  BY <1>2
<1>5. opt'[y] = opt[y] /\ (r.ok => opt'[x] = r.s)
  BY <1>1, <1>2 DEF StorageIsSound
<1>6. opt[y].engaged \in BOOLEAN
  BY <1>1, InScope
<1>7. r.ok => EqOO(opt'[x], opt'[y])
  BY <1>3, <1>5, <1>6 DEF EqOO
<1>8. QED
  BY <1>4, <1>7, Zenon DEF CopyIsEqual, EqOO

LEMMA CopyAssignEqual ==
  ASSUME StorageIsSound, NEW x \in Opts, NEW y \in Opts, CopyAssign(x, y)
  PROVE  CopyIsEqual'
<1>1. x \in alive /\ y \in alive
  BY DEF CopyAssign
<1>2. PICK r \in AssignFrom(opt[x], opt[y], opt[y].object) :
        /\ opt' = [opt EXCEPT ![x] = r.s]
        /\ last' = [op |-> "assign", args |-> <<x, y>>, ok |-> r.ok]
  BY DEF CopyAssign, Changed, Called
<1>3. /\ r.ok \in BOOLEAN
      /\ r.ok => r.s.engaged = opt[y].engaged /\ (opt[y].engaged => r.s.object = opt[y].object)
  BY <1>1, InScope, AssignOutcome
<1>4. last'.ok = r.ok /\ last'.args[1] = x /\ last'.args[2] = y
  BY <1>2
<1>5. r.ok => EqOO(opt'[x], opt'[y])
  <2>1. CASE x = y
    BY <2>1, EqualToItself
  <2>2. CASE x # y
    <3>1. opt'[y] = opt[y] /\ opt'[x] = r.s
      BY <1>2, <2>2 DEF StorageIsSound
    <3>2. opt[y].engaged \in BOOLEAN
      BY <1>1, InScope
    <3>3. QED
      BY <1>3, <3>1, <3>2 DEF EqOO
  <2>3. QED
    BY <2>1, <2>2
<1>6. QED
  BY <1>4, <1>5, Zenon DEF CopyIsEqual, EqOO

\* A copy is equal to its source when the call returns; other calls are no copies.
LEMMA CopyStep == StorageIsSound /\ CopyIsEqual /\ [Next]_vars => CopyIsEqual'
<1> SUFFICES ASSUME StorageIsSound, CopyIsEqual, [Next]_vars PROVE CopyIsEqual'
  OBVIOUS
<1>1. ASSUME last'.op \notin {"copy", "assign"} PROVE CopyIsEqual'
  BY <1>1 DEF CopyIsEqual
<1>2. ASSUME NEW x \in Opts, ConstructEmpty(x) \/ AssignNull(x) \/ Destroy(x)
      PROVE  CopyIsEqual'
  <2>1. last'.op \notin {"copy", "assign"}
    BY <1>2 DEF ConstructEmpty, AssignNull, Destroy, Born, Changed, Called
  <2>2. QED
    BY <1>1, <2>1
<1>3. ASSUME NEW x \in Opts, NEW v \in Values,
             ConstructValue(x, v) \/ AssignValue(x, v) \/ Emplace(x, v)
      PROVE  CopyIsEqual'
  <2>1. last'.op \notin {"copy", "assign"}
    BY <1>3 DEF ConstructValue, AssignValue, Emplace, Born, Changed, Called
  <2>2. QED
    BY <1>1, <2>1
<1>4. ASSUME NEW x \in Opts, NEW y \in Opts,
             \/ MoveConstruct(x, y) \/ ConvertConstruct(x, y) \/ MoveAssign(x, y)
             \/ ConvertAssign(x, y) \/ SwapOne(x, y) \/ SwapBoth(x, y)
      PROVE  CopyIsEqual'
  <2>1. \E op \in {"move", "convert", "moveAssign", "convertAssign", "swap"} : \E ok :
          last' = [op |-> op, args |-> <<x, y>>, ok |-> ok]
    BY <1>4, Zenon DEF MoveConstruct, ConvertConstruct, MoveAssign, ConvertAssign, SwapOne,
                       SwapBoth, Called
  <2>2. last'.op \notin {"copy", "assign"}
    BY <2>1
  <2>3. QED
    BY <1>1, <2>2
<1>5. CASE UNCHANGED vars
  BY <1>5 DEF CopyIsEqual, EqOO, vars
<1>6. QED
  BY <1>2, <1>3, <1>4, <1>5, CopyConstructEqual, CopyAssignEqual DEF Next

LEMMA CopiesAreEqual == Spec => []CopyIsEqual
<1>1. Init => CopyIsEqual
  BY DEF Init, CopyIsEqual
<1>2. QED
  BY <1>1, StoragesAreSound, CopyStep, PTL DEF Spec

\* Each comparison of two sound storages is that of the order.
LEMMA OptionalsInOrder ==
  ASSUME NEW l, Sound(l), NEW r, Sound(r)
  PROVE  OptionalsAgree(l, r)
<1>1. /\ l.engaged \in BOOLEAN /\ r.engaged \in BOOLEAN
      /\ l.engaged => l.object \in Int
      /\ r.engaged => r.object \in Int
  BY SoundObject, ValuesAssumption DEF Sound, Storage
<1>2. /\ LtOO(l, r) = Before(l, r) /\ GtOO(l, r) = Before(r, l)
      /\ LeOO(l, r) = ~Before(r, l) /\ GeOO(l, r) = ~Before(l, r)
  BY <1>1 DEF LtOO, GtOO, LeOO, GeOO, Before
<1>3. EqOO(l, r) <=> ~Before(l, r) /\ ~Before(r, l)
  BY <1>1 DEF EqOO, Before
<1>4. Agree(l, Empty, LtON(l), GtON(l), LeON(l), GeON(l))
  BY <1>1 DEF Agree, Before, Empty, LtON, GtON, LeON, GeON
<1>5. Agree(Empty, r, LtNO(r), GtNO(r), LeNO(r), GeNO(r))
  BY <1>1 DEF Agree, Before, Empty, LtNO, GtNO, LeNO, GeNO
<1>6. QED
  BY <1>2, <1>3, <1>4, <1>5 DEF OptionalsAgree, Agree

\* And each of a sound storage and a value, but for the two.
LEMMA MixedInOrder ==
  ASSUME NEW o, Sound(o), NEW v \in Values
  PROVE  MixedAgree(o, v)
<1>1. /\ o.engaged \in BOOLEAN /\ v \in Int
      /\ o.engaged => o.object \in Int
  BY SoundObject, ValuesAssumption DEF Sound, Storage
<1>2. Of(v).engaged = TRUE /\ Of(v).object = v
  BY DEF Of
<1>3. Agree(Of(v), o, LtVO(v, o), GtVO(v, o), LeVO(v, o), GeVO(v, o))
  BY <1>1, <1>2 DEF Agree, Before, LtVO, GtVO, LeVO, GeVO
<1>4. GtOV(o, v) = Before(Of(v), o) /\ GeOV(o, v) = ~Before(o, Of(v))
  BY <1>1, <1>2 DEF Before, GtOV, GeOV
<1>5. EqOV(o, v) = EqOO(o, Of(v)) /\ EqVO(v, o) = EqOO(o, Of(v))
  BY <1>1, <1>2 DEF EqOO, EqOV, EqVO
<1>6. NeOV(o, v) = ~EqOO(o, Of(v)) /\ NeVO(v, o) = ~EqOO(o, Of(v))
  BY <1>1, <1>2 DEF EqOO, NeOV, NeVO
<1>7. LtOV(o, v) # Before(o, Of(v)) <=> ~o.engaged
  BY <1>1, <1>2 DEF LtOV, Before
<1>8. LeOV(o, v) # ~Before(Of(v), o) <=> ~EqOO(o, Of(v))
  <2>1. LeOV(o, v) <=> o.engaged /\ v <= o.object
    BY <1>1 DEF LeOV, LtOV
  <2>2. ~Before(Of(v), o) <=> ~(o.engaged /\ v < o.object)
    BY <1>1, <1>2 DEF Before
  <2>3. EqOO(o, Of(v)) <=> o.engaged /\ o.object = v
    BY <1>1, <1>2 DEF EqOO
  <2>4. (LeOV(o, v) <=> ~Before(Of(v), o)) <=> EqOO(o, Of(v))
    BY <1>1, <2>1, <2>2, <2>3
  <2>5. LeOV(o, v) \in BOOLEAN /\ (~Before(Of(v), o)) \in BOOLEAN
    BY DEF LeOV, Before
  <2>6. QED
    BY <2>4, <2>5
<1>9. QED
  BY <1>3, <1>4, <1>5, <1>6, <1>7, <1>8, Zenon DEF MixedAgree

\* The comparisons are those of one total order with nullOpt at its start, whatever the
\* calls have made of the variables, but for < and <= of an Optional and a value.
THEOREM OneOrder == Spec => []OrderIsTotal
<1>1. StorageIsSound /\ CopyIsEqual => OrderIsTotal
  <2> SUFFICES ASSUME StorageIsSound, CopyIsEqual PROVE OrderIsTotal
    OBVIOUS
  <2>1. \A x, y \in alive : OptionalsAgree(opt[x], opt[y])
    BY InScope, OptionalsInOrder
  <2>2. \A x \in alive : \A v \in Values : MixedAgree(opt[x], v)
    BY InScope, MixedInOrder
  <2>3. QED
    BY <2>1, <2>2, Zenon DEF OrderIsTotal, CopyIsEqual
<1>2. QED
  BY <1>1, StoragesAreSound, CopiesAreEqual, PTL

-----------------------------------------------------------------------------
(* SelectHandler *)

Phases == {"next", "select", "read", "closed", "write", "error", "ended"}
Stages == {"unborn", "alive", "unlisted", "shut", "deleted"}

\* Where the loop can be, and which sockets and numbers its sets and tables can have.
LoopTypes ==
  /\ at \in [phase : Phases, sock : Socks \cup {Server}]
  /\ object \in [Socks -> Stages]
  /\ connected \in [Socks -> BOOLEAN]
  /\ fd \in [Socks -> Numbers \cup {None}]
  /\ file \in [Numbers -> Socks \cup {None}]
  /\ left \subseteq Socks \cup {Server}
  /\ watched \subseteq Socks \cup {Server}

\* A socket that exists has a number, and only one that was accepted was reported closed.
AcceptedHaveNumbers ==
  \A s \in Socks :
    /\ Exists(s) => fd[s] \in Numbers
    /\ s \in told => object[s] # "unborn"

\* A watched socket is connected and was not reported closed, or the user is being told.
WatchedIsOpen ==
  \A s \in Socks \cap watched :
    \/ at.phase = "closed" /\ at.sock = s
    \/ connected[s] /\ s \notin told

LoopInvariant ==
  /\ LoopTypes
  /\ AcceptedHaveNumbers
  /\ WatchedIsOpen
  /\ TouchesOnlyCaught
  /\ LoopEndsOnlyByDeletes
  /\ NumbersAreKept

\* The kernel's table and the sockets' numbers speak for themselves.
LEMMA NumbersStay ==
  ASSUME LoopInvariant, UNCHANGED <<object, fd, file, told, overlapped>>
  PROVE  AcceptedHaveNumbers' /\ NumbersAreKept'
  BY DEF LoopInvariant, AcceptedHaveNumbers, NumbersAreKept, Exists

\* The steps of the loop that are not at a socket.
LEMMA CopyKeepsRounds ==
  ASSUME LoopInvariant, CopySockets
  PROVE  LoopInvariant'
<1>1. AcceptedHaveNumbers' /\ NumbersAreKept'
  BY NumbersStay DEF CopySockets, kernel
<1>2. LoopTypes' /\ WatchedIsOpen' /\ TouchesOnlyCaught' /\ LoopEndsOnlyByDeletes'
  BY DEF LoopInvariant, LoopTypes, Phases, WatchedIsOpen, TouchesOnlyCaught,
         LoopEndsOnlyByDeletes, CopySockets, Alive, Visited, kernel
<1>3. QED
  BY <1>1, <1>2 DEF LoopInvariant

\* select fails, or its numbers are read from a deleted socket, only if the copy has a
\* socket that was deleted under it, or one of its sockets has lost its number.
LEMMA SelectFailsByDeletes ==
  ASSUME LoopInvariant, SelectFails
  PROVE  caught # {} \/ overlapped # {}
<1>1. CASE \E asked \in Asked : \E n \in asked \ {Server} : file[n] = None
  <2>1. PICK n : n # Server /\ file[n] = None
                 /\ n \in {Number(s) : s \in {t \in left : t = Server \/ Exists(t)}}
    BY <1>1 DEF Asked
  <2>2. PICK s \in left : n = Number(s)
    BY <2>1
  <2>3. s \in Socks /\ n = fd[s]
    BY <2>1, <2>2 DEF Number, LoopInvariant, LoopTypes
  <2>4. CASE s \in Alive
    <3>1. overlapped = {} => file[fd[s]] = s
      BY <2>3, <2>4 DEF LoopInvariant, NumbersAreKept, Alive
    <3>2. QED
      BY <2>1, <2>3, <3>1, ServerAssumption
  <2>5. CASE s \notin Alive
    BY <2>2, <2>3, <2>5, ServerAssumption DEF LoopInvariant, TouchesOnlyCaught
  <2>6. QED
    BY <2>4, <2>5
<1>2. CASE \E s \in left \cap Socks : object[s] = "deleted"
  BY <1>2, ServerAssumption DEF LoopInvariant, TouchesOnlyCaught, Alive
<1>3. QED
  BY <1>1, <1>2 DEF SelectFails

LEMMA SelectKeepsRounds ==
  ASSUME LoopInvariant, Select
  PROVE  LoopInvariant'
<1>1. /\ ~crashed /\ at.phase = "select" /\ at \in [phase : Phases, sock : Socks \cup {Server}]
      /\ UNCHANGED <<object, connected, fd, file, watched, told, caught, overlapped>>
  BY DEF LoopInvariant, LoopTypes, Select, kernel
<1>2. \/ at' = Outside /\ left' = {} /\ crashed' = crashed
      \/ at' = [at EXCEPT !.phase = "next"] /\ left' = left /\ crashed' = crashed
      \/ SelectFails /\ left' = left /\ at' = [at EXCEPT !.phase = "ended"]
      \/ SelectFails /\ left' = left /\ at' = at
  <2>1. CASE SelectFails
    BY <2>1 DEF SelectFails
  <2>2. ASSUME NEW asked \in Asked, SelectReturns(asked)
        PROVE  \/ at' = Outside /\ left' = {} /\ crashed' = crashed
               \/ at' = [at EXCEPT !.phase = "next"] /\ left' = left /\ crashed' = crashed
    BY <2>2 DEF SelectReturns
  <2>3. QED
    BY <2>1, <2>2 DEF Select
<1>3. SelectFails => caught # {} \/ overlapped # {}
  BY SelectFailsByDeletes
<1>4. /\ at' \in [phase : Phases, sock : Socks \cup {Server}]
      /\ at'.phase \in {"next", "select", "ended"}
      /\ left' \subseteq left
  BY <1>1, <1>2 DEF Phases, Outside
<1>5. LoopTypes'
  BY <1>1, <1>4 DEF LoopInvariant, LoopTypes
<1>6. WatchedIsOpen'
  BY <1>1, <1>4 DEF LoopInvariant, WatchedIsOpen
<1>7. TouchesOnlyCaught'
  BY <1>1, <1>4 DEF LoopInvariant, TouchesOnlyCaught, Alive, Visited
<1>8. LoopEndsOnlyByDeletes'
  BY <1>1, <1>2, <1>3 DEF LoopEndsOnlyByDeletes, Outside, Phases
<1>9. QED
  BY <1>1, <1>5, <1>6, <1>7, <1>8, NumbersStay DEF LoopInvariant

LEMMA VisitKeepsRounds ==
  ASSUME LoopInvariant, VisitNext
  PROVE  LoopInvariant'
<1>1. PICK s \in left : at' = [phase |-> "read", sock |-> s] /\ left' = left \ {s}
  BY DEF VisitNext
<1>2. /\ ~crashed /\ at.phase = "next" /\ s \in Socks \cup {Server}
      /\ UNCHANGED <<crashed, object, connected, fd, file, watched, told, caught, overlapped>>
  BY DEF VisitNext, LoopInvariant, LoopTypes, kernel
<1>3. at' \in [phase : Phases, sock : Socks \cup {Server}] /\ at'.phase = "read" /\ at'.sock = s
  BY <1>1, <1>2 DEF Phases
<1>4. LoopTypes'
  BY <1>1, <1>2, <1>3 DEF LoopInvariant, LoopTypes
<1>5. WatchedIsOpen'
  BY <1>2, <1>3 DEF LoopInvariant, WatchedIsOpen
<1>6. Alive' = Alive /\ Visited' = {s}
  BY <1>2, <1>3 DEF Alive, Visited
<1>7. TouchesOnlyCaught'
  BY <1>1, <1>2, <1>6 DEF LoopInvariant, TouchesOnlyCaught
<1>8. LoopEndsOnlyByDeletes'
  BY <1>2, <1>3 DEF LoopEndsOnlyByDeletes
<1>9. QED
  BY <1>2, <1>4, <1>5, <1>7, <1>8, NumbersStay DEF LoopInvariant

\* The loop is at a socket under destruction only if that was in the copy when it was
\* deleted, and such a socket is not watched.
LEMMA TouchKeepsRounds ==
  ASSUME LoopInvariant, TouchDeleted
  PROVE  LoopInvariant'
<1>1. PICK s \in Visited \cap Socks : object[s] \in {"shut", "deleted"}
  BY DEF TouchDeleted
<1>2. /\ ~crashed /\ at \in [phase : Phases, sock : Socks \cup {Server}]
      /\ at.phase \in {"read", "closed", "write", "error"} /\ at.sock = s
      /\ s \notin Alive /\ s # Server
      /\ UNCHANGED <<object, connected, fd, file, watched, left, told, caught, overlapped>>
  BY <1>1, ServerAssumption DEF LoopInvariant, LoopTypes, TouchDeleted, Visited, Alive, kernel
<1>3. s \in Socks /\ s \in caught /\ s \notin watched
  BY <1>1, <1>2 DEF LoopInvariant, TouchesOnlyCaught
<1>4. /\ at' \in [phase : Phases, sock : Socks \cup {Server}]
      /\ at'.sock = at.sock
      /\ at'.phase # "ended"
  BY <1>2 DEF TouchDeleted, Goes, Phases
<1>5. LoopTypes'
  BY <1>2, <1>4 DEF LoopInvariant, LoopTypes
<1>6. WatchedIsOpen'
  BY <1>2, <1>3, <1>4 DEF LoopInvariant, WatchedIsOpen
<1>7. TouchesOnlyCaught'
  BY <1>2, <1>3, <1>4 DEF LoopInvariant, TouchesOnlyCaught, Alive, Visited
<1>8. LoopEndsOnlyByDeletes'
  BY <1>3 DEF TouchDeleted, LoopEndsOnlyByDeletes
<1>9. QED
  BY <1>2, <1>5, <1>6, <1>7, <1>8, NumbersStay DEF LoopInvariant

\* onRead of the server, which accepts a socket or finds none. The number it is given
\* belongs to no socket, or to one that has still to close it again.
LEMMA AcceptKeepsRounds ==
  ASSUME LoopInvariant, OnReadServer
  PROVE  LoopInvariant'
<1>1. /\ ~crashed /\ at.phase = "read" /\ at.sock = Server
      /\ at' = [at EXCEPT !.phase = "next"]
      /\ UNCHANGED <<crashed, left, told, caught>>
  BY DEF OnReadServer, Visits, Goes
<1>2. CASE Accept
  <2>1. PICK s \in Socks, n \in Numbers :
          /\ object[s] = "unborn" /\ file[n] = None
          /\ file' = [file EXCEPT ![n] = s]
          /\ object' = [object EXCEPT ![s] = "alive"]
          /\ connected' = [connected EXCEPT ![s] = TRUE]
          /\ fd' = [fd EXCEPT ![s] = n]
          /\ watched' = watched \cup {s}
          /\ overlapped' = IF \E t \in Socks : object[t] = "shut" /\ fd[t] = n
                           THEN overlapped \cup {s} ELSE overlapped
    BY <1>2 DEF Accept
  <2>2. LoopTypes'
    BY <1>1, <2>1 DEF LoopInvariant, LoopTypes, Phases, Stages
  <2>3. AcceptedHaveNumbers'
    BY <1>1, <2>1 DEF LoopInvariant, LoopTypes, AcceptedHaveNumbers, Exists
  <2>4. WatchedIsOpen'
    BY <1>1, <2>1 DEF LoopInvariant, LoopTypes, AcceptedHaveNumbers, WatchedIsOpen
  <2>5. TouchesOnlyCaught'
    <3>1. Alive \subseteq Alive' /\ s \in Alive'
      BY <2>1 DEF LoopInvariant, LoopTypes, Alive
    <3>2. Visited' = {}
      BY <1>1 DEF LoopInvariant, LoopTypes, Visited
    <3>3. QED
      BY <1>1, <2>1, <3>1, <3>2 DEF LoopInvariant, TouchesOnlyCaught
  <2>6. LoopEndsOnlyByDeletes'
    BY <1>1 DEF LoopInvariant, LoopTypes, LoopEndsOnlyByDeletes
  <2>7. NumbersAreKept'
    <3> SUFFICES ASSUME overlapped' = {}, NEW t \in Socks
                 PROVE  /\ object'[t] \in {"alive", "unlisted"} => file'[fd'[t]] = t
                        /\ object'[t] = "shut" => file'[fd'[t]] = None
      BY DEF NumbersAreKept
    <3>1. overlapped = {} /\ ~(object[t] = "shut" /\ fd[t] = n)
      BY <2>1
    <3>2. CASE t = s
      BY <2>1, <3>2 DEF LoopInvariant, LoopTypes
    <3>3. CASE t # s
      <4>1. object'[t] = object[t] /\ fd'[t] = fd[t]
        BY <2>1, <3>3 DEF LoopInvariant, LoopTypes
      <4>2. /\ object[t] \in {"alive", "unlisted"} => file[fd[t]] = t
            /\ object[t] = "shut" => file[fd[t]] = None
            /\ Exists(t) => fd[t] \in Numbers
        BY <3>1 DEF LoopInvariant, NumbersAreKept, AcceptedHaveNumbers
      <4>3. object[t] \in {"alive", "unlisted"} => fd[t] # n
        BY <2>1, <4>2, ServerAssumption
      <4>4. \A m \in Numbers \ {n} : file'[m] = file[m]
        BY <2>1 DEF LoopInvariant, LoopTypes
      <4>5. Exists(t) <=> object[t] \in {"alive", "unlisted", "shut"}
        BY DEF Exists
      <4>6. QED
        BY <3>1, <4>1, <4>2, <4>3, <4>4, <4>5
    <3>4. QED
      BY <3>2, <3>3
  <2>8. QED
    BY <2>2, <2>3, <2>4, <2>5, <2>6, <2>7 DEF LoopInvariant
<1>3. CASE UNCHANGED <<object, connected, fd, watched, file, overlapped>>
  <2>1. LoopTypes' /\ WatchedIsOpen' /\ TouchesOnlyCaught' /\ LoopEndsOnlyByDeletes'
    BY <1>1, <1>3 DEF LoopInvariant, LoopTypes, Phases, WatchedIsOpen,
       TouchesOnlyCaught, LoopEndsOnlyByDeletes, Alive, Visited
  <2>2. QED
    BY <1>1, <1>3, <2>1, NumbersStay DEF LoopInvariant
<1>4. QED
  BY <1>2, <1>3 DEF OnReadServer, AcceptFails

\* The calls of a socket that exists. A peer's end leaves it watched but in its
\* onConnectionClosed; the return drops it; onWrite connects only what is not watched.
LEMMA SocketKeepsRounds ==
  ASSUME LoopInvariant, NEW s \in Socks,
         OnRead(s) \/ AfterClosed(s) \/ OnWrite(s) \/ OnError(s)
  PROVE  LoopInvariant'
<1>1. /\ ~crashed /\ at \in [phase : Phases, sock : Socks \cup {Server}] /\ at.sock = s
      /\ Exists(s) /\ at.phase \in {"read", "closed", "write", "error"}
      /\ UNCHANGED <<crashed, object, fd, file, left, caught, overlapped>>
  BY DEF LoopInvariant, LoopTypes, OnRead, AfterClosed, OnWrite, OnError, Visits, kernel
<1>2. PICK f \in Phases \ {"ended"} : at' = [phase |-> f, sock |-> s]
  BY <1>1 DEF OnRead, AfterClosed, OnWrite, OnError, Goes, Phases
<1>3. /\ connected' \in [Socks -> BOOLEAN]
      /\ watched' \subseteq watched
      /\ told' \subseteq told \cup {s}
      /\ \A r \in Socks \ {s} : connected'[r] = connected[r]
  <2>1. CASE OnRead(s)
    <3>1. /\ watched' = watched
          /\ \/ connected' = [connected EXCEPT ![s] = FALSE] /\ told' = told \cup {s}
             \/ connected' = connected /\ told' = told
      BY <2>1 DEF OnRead
    <3>2. QED
      BY <3>1 DEF LoopInvariant, LoopTypes
  <2>2. CASE AfterClosed(s)
    BY <2>2 DEF LoopInvariant, LoopTypes, AfterClosed
  <2>3. CASE OnWrite(s)
    <3>1. PICK c : c = (<<fd[s], "write">> \in ready)
      OBVIOUS
    <3>2. /\ watched' = watched /\ told' = told
          /\ connected' = [connected EXCEPT ![s] = connected[s] \/ c]
      BY <2>3, <3>1 DEF OnWrite
    <3>3. (connected[s] \/ c) \in BOOLEAN
      OBVIOUS
    <3>4. QED
      BY <3>2, <3>3 DEF LoopInvariant, LoopTypes
  <2>4. CASE OnError(s)
    BY <2>4 DEF LoopInvariant, LoopTypes, OnError
  <2>5. QED
    BY <2>1, <2>2, <2>3, <2>4
<1>4. LoopTypes'
  BY <1>1, <1>2, <1>3 DEF LoopInvariant, LoopTypes
<1>5. s \in watched' =>
        \/ at'.phase = "closed" /\ at'.sock = s
        \/ connected'[s] /\ s \notin told'
  <2>1. s \in watched => at.phase = "closed" \/ (connected[s] /\ s \notin told)
    BY <1>1 DEF LoopInvariant, WatchedIsOpen
  <2>2. CASE OnRead(s)
    BY <2>1, <2>2 DEF LoopInvariant, LoopTypes, OnRead, Visits, Goes
  <2>3. CASE AfterClosed(s)
    BY <2>3 DEF AfterClosed
  <2>4. CASE OnWrite(s)
    <3>1. at.phase = "write" /\ watched' = watched /\ told' = told
          /\ connected' = [connected EXCEPT ![s] = connected[s] \/ <<fd[s], "write">> \in ready]
      BY <2>4 DEF OnWrite, Visits
    <3>2. connected[s] => connected'[s]
      BY <3>1 DEF LoopInvariant, LoopTypes
    <3>3. QED
      BY <2>1, <3>1, <3>2
  <2>5. CASE OnError(s)
    BY <2>1, <2>5 DEF LoopInvariant, LoopTypes, OnError, Visits, Goes
  <2>6. QED
    BY <2>2, <2>3, <2>4, <2>5
<1>6. WatchedIsOpen'
  <2>1. ASSUME NEW r \in Socks, r # s, r \in watched'
        PROVE  connected'[r] /\ r \notin told'
    BY <1>1, <1>3, <2>1 DEF LoopInvariant, WatchedIsOpen
  <2>2. QED
    BY <1>5, <2>1 DEF WatchedIsOpen
<1>7. TouchesOnlyCaught'
  <2>1. Alive' = Alive /\ Visited' \subseteq {s} /\ s \in Visited
    BY <1>1, <1>2 DEF Alive, Visited
  <2>2. QED
    BY <1>1, <1>3, <2>1 DEF LoopInvariant, TouchesOnlyCaught
<1>8. LoopEndsOnlyByDeletes'
  BY <1>1, <1>2 DEF LoopEndsOnlyByDeletes
<1>9. AcceptedHaveNumbers' /\ NumbersAreKept'
  <2>1. NumbersAreKept'
    BY <1>1 DEF LoopInvariant, NumbersAreKept
  <2>2. AcceptedHaveNumbers'
    BY <1>1, <1>3 DEF LoopInvariant, AcceptedHaveNumbers, Exists
  <2>3. QED
    BY <2>1, <2>2
<1>10. QED
  BY <1>4, <1>6, <1>7, <1>8, <1>9 DEF LoopInvariant

\* A deletion takes the socket from the set, and is remembered if it was in the copy.
LEMMA DeleteKeepsRounds ==
  ASSUME LoopInvariant, NEW s \in Socks, Delete(s)
  PROVE  LoopInvariant'
<1>1. /\ ~crashed /\ object[s] = "alive" /\ object' = [object EXCEPT ![s] = "unlisted"]
      /\ watched' = watched \ {s}
      /\ caught' = IF s \in left \cup Visited THEN caught \cup {s} ELSE caught
      /\ UNCHANGED <<crashed, connected, fd, file, at, left, told, overlapped>>
  BY DEF Delete, kernel
<1>2. LoopTypes'
  BY <1>1 DEF LoopInvariant, LoopTypes, Stages
<1>3. WatchedIsOpen'
  BY <1>1 DEF LoopInvariant, WatchedIsOpen
<1>4. Alive' = Alive \ {s} /\ Visited' = Visited
  BY <1>1 DEF LoopInvariant, LoopTypes, Alive, Visited
<1>5. TouchesOnlyCaught'
  BY <1>1, <1>4 DEF LoopInvariant, TouchesOnlyCaught
<1>6. LoopEndsOnlyByDeletes'
  BY <1>1 DEF LoopInvariant, LoopEndsOnlyByDeletes
<1>7. AcceptedHaveNumbers' /\ NumbersAreKept'
  BY <1>1 DEF LoopInvariant, LoopTypes, AcceptedHaveNumbers, NumbersAreKept, Exists
<1>8. QED
  BY <1>2, <1>3, <1>5, <1>6, <1>7 DEF LoopInvariant

\* Either close. A number that two sockets have is open for neither or was given to one
\* between the closes of the other, so that what is closed is one's own or nothing.
LEMMA CloseKeepsRounds ==
  ASSUME LoopInvariant, NEW s \in Socks, CloseSocket(s) \/ CloseAgain(s)
  PROVE  LoopInvariant'
<1>1. PICK to \in {"shut", "deleted"} :
        /\ ~crashed /\ object[s] \in {"unlisted", "shut"} /\ object' = [object EXCEPT ![s] = to]
        /\ file' = [file EXCEPT ![fd[s]] = None]
        /\ fd' = IF to = "shut" THEN fd ELSE [fd EXCEPT ![s] = None]
        /\ UNCHANGED <<crashed, connected, watched, at, left, told, caught, overlapped>>
  BY DEF CloseSocket, CloseAgain, Closes
<1>2. fd[s] \in Numbers
  BY <1>1 DEF LoopInvariant, AcceptedHaveNumbers, Exists
<1>3. \A t \in Socks \ {s} : object'[t] = object[t] /\ fd'[t] = fd[t]
  BY <1>1 DEF LoopInvariant, LoopTypes
<1>4. object'[s] = to /\ (to = "shut" => fd'[s] = fd[s])
  BY <1>1 DEF LoopInvariant, LoopTypes
<1>5. \A n \in Numbers : file'[n] = IF n = fd[s] THEN None ELSE file[n]
  BY <1>1 DEF LoopInvariant, LoopTypes
<1>6. LoopTypes'
  BY <1>1 DEF LoopInvariant, LoopTypes, Stages
<1>7. WatchedIsOpen'
  BY <1>1 DEF LoopInvariant, WatchedIsOpen
<1>8. Alive' = Alive /\ Visited' = Visited
  BY <1>1, <1>3, <1>4 DEF Alive, Visited
<1>9. TouchesOnlyCaught'
  BY <1>1, <1>8 DEF LoopInvariant, TouchesOnlyCaught
<1>10. LoopEndsOnlyByDeletes'
  BY <1>1 DEF LoopInvariant, LoopEndsOnlyByDeletes
<1>11. AcceptedHaveNumbers'
  BY <1>1, <1>2, <1>3, <1>4 DEF LoopInvariant, AcceptedHaveNumbers, Exists
<1>12. NumbersAreKept'
  <2> SUFFICES ASSUME overlapped = {}, NEW t \in Socks
               PROVE  /\ object'[t] \in {"alive", "unlisted"} => file'[fd'[t]] = t
                      /\ object'[t] = "shut" => file'[fd'[t]] = None
    BY <1>1 DEF NumbersAreKept
  <2>1. CASE t = s
    BY <1>1, <1>2, <1>4, <1>5, <2>1
  <2>2. CASE t # s
    <3>1. /\ object[t] \in {"alive", "unlisted"} => file[fd[t]] = t
          /\ object[t] = "shut" => file[fd[t]] = None
          /\ object[s] = "unlisted" => file[fd[s]] = s
          /\ object[s] = "shut" => file[fd[s]] = None
          /\ object[t] \in {"alive", "unlisted", "shut"} => fd[t] \in Numbers
      BY DEF LoopInvariant, NumbersAreKept, AcceptedHaveNumbers, Exists
    <3>2. object[t] \in {"alive", "unlisted"} => fd[t] # fd[s]
      BY <1>1, <2>2, <3>1, ServerAssumption
    <3>3. object'[t] = object[t] /\ fd'[t] = fd[t]
      BY <1>3, <2>2
    <3>4. QED
      BY <1>5, <3>1, <3>2, <3>3
  <2>3. QED
    BY <2>1, <2>2
<1>13. QED
  BY <1>6, <1>7, <1>9, <1>10, <1>11, <1>12 DEF LoopInvariant

LEMMA LoopInvariantHolds == LoopSpec => []LoopInvariant
<1>1. LoopInit => LoopInvariant
  BY ServerAssumption DEF LoopInit, Outside, LoopInvariant, LoopTypes, Phases, Stages, Exists,
     AcceptedHaveNumbers, WatchedIsOpen, TouchesOnlyCaught, LoopEndsOnlyByDeletes,
     NumbersAreKept, Alive, Visited
<1>2. LoopInvariant /\ [LoopNext]_loopVars => LoopInvariant'
  <2> SUFFICES ASSUME LoopInvariant, [LoopNext]_loopVars PROVE LoopInvariant'
    OBVIOUS
  <2>1. CASE UNCHANGED <<crashed, object, connected, fd, file, watched, at, left, told, caught,
                         overlapped>>
    <3>1. LoopTypes' /\ WatchedIsOpen'
      BY <2>1 DEF LoopInvariant, LoopTypes, WatchedIsOpen
    <3>2. TouchesOnlyCaught' /\ LoopEndsOnlyByDeletes'
      BY <2>1 DEF LoopInvariant, TouchesOnlyCaught, LoopEndsOnlyByDeletes, Alive, Visited
    <3>3. QED
      BY <2>1, <3>1, <3>2, NumbersStay DEF LoopInvariant
  <2>2. CASE Loop
    BY <2>2, CopyKeepsRounds, SelectKeepsRounds, VisitKeepsRounds, TouchKeepsRounds,
       AcceptKeepsRounds, SocketKeepsRounds DEF Loop
  <2>3. ASSUME NEW s \in Socks, Delete(s) \/ CloseSocket(s) \/ CloseAgain(s)
        PROVE  LoopInvariant'
    BY <2>3, DeleteKeepsRounds, CloseKeepsRounds
  <2>4. ASSUME NEW s \in Socks, PeerSends(s) \/ PeerCloses(s) PROVE LoopInvariant'
    BY <2>1, <2>4 DEF PeerSends, PeerCloses
  <2>5. CASE Knock
    BY <2>1, <2>5 DEF Knock
  <2>6. CASE UNCHANGED loopVars
    BY <2>1, <2>6 DEF loopVars, kernel
  <2>7. QED
    BY <2>2, <2>3, <2>4, <2>5, <2>6 DEF LoopNext
<1>3. QED
  BY <1>1, <1>2, PTL DEF LoopSpec

\* A socket that was deleted when no round had it is touched by none; the end of a peer
\* is reported once; the loop ends or crashes only by a deletion under a round, or by a
\* second close that may strike another connection; and until a number is given away
\* between two closes of it, a close reaches the socket's own connection or none.
THEOREM RoundsSafe == LoopSpec => []RoundsAreSafe
<1>1. LoopInvariant => RoundsAreSafe
  <2> SUFFICES ASSUME LoopInvariant, NEW s \in Socks, s \in told, s \in watched
               PROVE  at = [phase |-> "closed", sock |-> s]
    BY DEF LoopInvariant, RoundsAreSafe, ClosedIsUnwatched
  <2>1. at.phase = "closed" /\ at.sock = s
    BY DEF LoopInvariant, WatchedIsOpen
  <2>2. QED
    BY <2>1 DEF LoopInvariant, LoopTypes
<1>2. QED
  BY <1>1, LoopInvariantHolds, PTL

=============================================================================
