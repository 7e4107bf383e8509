--------------------------- MODULE OptionalValue ---------------------------
(* libratel's Optional: the engaged flag, the object in its storage, and the order.

   The object is there from its constructor to its destructor, whatever the flag
   says. Constructors and assignments of the element may throw, destructors do not.
   A call is one step, with every outcome it may have. What does not compile is left
   out: assignment from an Optional that is not const, and from a const Optional<U>.
   Operators whose comment begins with Fault are not part of the model: each is a
   plausible slip in the operator below it. *)
EXTENDS Integers

CONSTANTS
  Opts,      \* variables of type Optional<T>, or Optional<U> as the source of a conversion
  Values,    \* of the element, ordered as integers
  Convert,   \* T(U) on values
  NoObject,  \* a storage with no object in it
  MayThrow   \* an element's constructor or assignment may throw

ASSUME ValuesAssumption ==
  Values \subseteq Int /\ Values # {} /\ Convert \in [Values -> Values] /\ NoObject \notin Values
ASSUME MayThrowAssumption == MayThrow \in BOOLEAN

Storage == [engaged : BOOLEAN, object : Values \cup {NoObject}, misused : BOOLEAN]

\* The storage before the constructor's body.
Empty == [engaged |-> FALSE, object |-> NoObject, misused |-> FALSE]

VARIABLES
  alive,   \* the variables that are in scope
  opt,     \* the storage of each
  last     \* the last call, its operands, and whether it returned

vars == <<alive, opt, last>>

Init ==
  /\ alive = {}
  /\ opt = [x \in Opts |-> Empty]
  /\ last = [op |-> "none", args |-> <<>>, ok |-> TRUE]

-----------------------------------------------------------------------------
(* OptionalBase__: what its members do to a storage. misused remembers an object
   built over another, destroyed twice, or assigned when it was not there. *)

Construct(s, v) ==
  [engaged |-> TRUE, object |-> v, misused |-> s.misused \/ s.object # NoObject]

Destruct(s) ==
  [engaged |-> FALSE, object |-> NoObject, misused |-> s.misused \/ s.object = NoObject]

Reset(s) == IF s.engaged THEN Destruct(s) ELSE s

AssignObject(s, v) == [s EXCEPT !.object = v, !.misused = @ \/ s.object = NoObject]

\* A call either returns or lets an exception out.
Returned(s) == [s |-> s, ok |-> TRUE]
Thrown(s) == [s |-> s, ok |-> FALSE]
Throws(outcomes) == IF MayThrow THEN outcomes ELSE {}

\* construct__ engages after the constructor has returned.
Constructed(s, v) == {Returned(Construct(s, v))} \cup Throws({Thrown(s)})

\* An assignment that throws leaves any value in the element.
Assigned(s, v) ==
  {Returned(AssignObject(s, v))} \cup Throws({Thrown(AssignObject(s, w)) : w \in Values})

\* operator = (const OptionalBase__ &), (OptionalBase__ &&) and (Optional<U> &&).
AssignFrom(s, source, v) ==
  IF s.engaged /\ source.engaged THEN Assigned(s, v)
  ELSE IF source.engaged THEN Constructed(s, v)
  ELSE {Returned(Reset(s))}

-----------------------------------------------------------------------------
(* Calls *)

Called(op, args, ok) == last' = [op |-> op, args |-> args, ok |-> ok]

\* A constructor that throws leaves no variable.
Born(op, args, outcomes) ==
  \E r \in outcomes :
    /\ opt' = [opt EXCEPT ![args[1]] = IF r.ok THEN r.s ELSE Empty]
    /\ alive' = IF r.ok THEN alive \cup {args[1]} ELSE alive
    /\ Called(op, args, r.ok)

Changed(op, args, outcomes) ==
  \E r \in outcomes :
    /\ opt' = [opt EXCEPT ![args[1]] = r.s]
    /\ Called(op, args, r.ok)
    /\ UNCHANGED alive

\* After a move the source still has an object, of some value.
MovedFrom(y) ==
  IF opt[y].engaged THEN {[opt[y] EXCEPT !.object = w] : w \in Values} ELSE {opt[y]}

ConstructEmpty(x) ==
  x \notin alive /\ Born("empty", <<x>>, {Returned(Empty)})

\* From a value, in place, or from a value of another type.
ConstructValue(x, v) ==
  x \notin alive /\ Born("value", <<x>>, Constructed(Empty, v))

Copies(y, v) == IF opt[y].engaged THEN Constructed(Empty, v) ELSE {Returned(Empty)}

CopyConstruct(x, y) ==
  /\ x \notin alive /\ y \in alive
  /\ Born("copy", <<x, y>>, Copies(y, opt[y].object))

MoveConstruct(x, y) ==
  /\ x \notin alive /\ y \in alive
  /\ \E r \in Copies(y, opt[y].object), m \in MovedFrom(y) :
       /\ opt' = [opt EXCEPT ![x] = IF r.ok THEN r.s ELSE Empty, ![y] = m]
       /\ alive' = IF r.ok THEN alive \cup {x} ELSE alive
       /\ Called("move", <<x, y>>, r.ok)

\* From an Optional<U>, copied or moved: a temporary takes the converted value.
ConvertConstruct(x, y) ==
  /\ x \notin alive /\ y \in alive
  /\ \E r \in IF opt[y].engaged THEN Copies(y, Convert[opt[y].object]) ELSE {Returned(Empty)},
        m \in MovedFrom(y) :
       /\ opt' = [opt EXCEPT ![x] = IF r.ok THEN r.s ELSE Empty, ![y] = m]
       /\ alive' = IF r.ok THEN alive \cup {x} ELSE alive
       /\ Called("convert", <<x, y>>, r.ok)

CopyAssign(x, y) ==
  /\ {x, y} \subseteq alive
  /\ Changed("assign", <<x, y>>, AssignFrom(opt[x], opt[y], opt[y].object))

\* Of another variable, or of itself.
MoveAssign(x, y) ==
  /\ {x, y} \subseteq alive
  /\ \E r \in AssignFrom(opt[x], opt[y], opt[y].object), m \in MovedFrom(y) :
       /\ opt' = IF x = y THEN [opt EXCEPT ![x] = r.s] ELSE [opt EXCEPT ![x] = r.s, ![y] = m]
       /\ Called("moveAssign", <<x, y>>, r.ok)
  /\ UNCHANGED alive

\* From an Optional<U> that may be moved from.
ConvertAssign(x, y) ==
  LET v == IF opt[y].engaged THEN Convert[opt[y].object] ELSE NoObject IN
  /\ {x, y} \subseteq alive /\ x # y
  /\ \E r \in AssignFrom(opt[x], opt[y], v), m \in MovedFrom(y) :
       /\ opt' = [opt EXCEPT ![x] = r.s, ![y] = m]
       /\ Called("convertAssign", <<x, y>>, r.ok)
  /\ UNCHANGED alive

\* operator = (U &&) returns without a look at its argument.
AssignValue(x, v) ==
  x \in alive /\ Changed("assignValue", <<x, v>>, {Returned(opt[x])})

AssignNull(x) ==
  x \in alive /\ Changed("reset", <<x>>, {Returned(Reset(opt[x]))})

\* Fault: the old object is not destroyed first.
EmplaceOver(x, v) ==
  x \in alive /\ Changed("emplace", <<x>>, Constructed(opt[x], v))

Emplace(x, v) ==
  x \in alive /\ Changed("emplace", <<x>>, Constructed(Reset(opt[x]), v))

\* swap of one that is engaged with one that is not, from either side: the object is
\* built in the other and then destroyed here.
SwapOne(x, y) ==
  /\ {x, y} \subseteq alive /\ x # y
  /\ opt[x].engaged /\ ~opt[y].engaged
  /\ \E r \in Constructed(opt[y], opt[x].object), m \in MovedFrom(x) :
       /\ opt' = [opt EXCEPT ![x] = IF r.ok THEN Destruct(m) ELSE m, ![y] = r.s]
       /\ Called("swap", <<x, y>>, r.ok)
  /\ UNCHANGED alive

\* swap of the elements, whose three moves may throw, or of nothing.
SwapBoth(x, y) ==
  /\ {x, y} \subseteq alive
  /\ opt[x].engaged = opt[y].engaged
  /\ \/ /\ opt' = [opt EXCEPT ![x].object = opt[y].object, ![y].object = opt[x].object]
        /\ Called("swap", <<x, y>>, TRUE)
     \/ /\ MayThrow /\ opt[x].engaged
        /\ \E m \in MovedFrom(x), n \in MovedFrom(y) : opt' = [opt EXCEPT ![x] = m, ![y] = n]
        /\ Called("swap", <<x, y>>, FALSE)
  /\ UNCHANGED alive

\* The destructor, at the end of the scope.
Destroy(x) ==
  /\ x \in alive
  /\ alive' = alive \ {x}
  /\ opt' = [opt EXCEPT ![x] = Reset(@)]
  /\ Called("destroy", <<x>>, TRUE)

Next ==
  \E x \in Opts :
    \/ ConstructEmpty(x) \/ AssignNull(x) \/ Destroy(x)
    \/ \E v \in Values : ConstructValue(x, v) \/ AssignValue(x, v) \/ Emplace(x, v)
    \/ \E y \in Opts :
         \/ CopyConstruct(x, y) \/ MoveConstruct(x, y) \/ ConvertConstruct(x, y)
         \/ CopyAssign(x, y) \/ MoveAssign(x, y) \/ ConvertAssign(x, y)
         \/ SwapOne(x, y) \/ SwapBoth(x, y)

Spec == Init /\ [][Next]_vars

-----------------------------------------------------------------------------
(* Comparisons: OO of two Optionals, OV and VO of one and a value *)

EqOO(l, r) == l.engaged = r.engaged /\ (~l.engaged \/ l.object = r.object)

\* Fault: an empty one on the right is not looked at.
LtOOLeft(l, r) == ~l.engaged \/ l.object < r.object

LtOO(l, r) == r.engaged /\ (~l.engaged \/ l.object < r.object)
GtOO(l, r) == LtOO(r, l)
LeOO(l, r) == ~LtOO(r, l)
GeOO(l, r) == ~LtOO(l, r)

EqOV(l, v) == l.engaged /\ l.object = v
NeOV(l, v) == ~(l.engaged /\ v = l.object)
LtOV(l, v) == l.engaged /\ l.object < v
GtOV(l, v) == l.engaged /\ v < l.object
LeOV(l, v) == l.engaged /\ ~LtOV(l, v)
GeOV(l, v) == l.engaged /\ ~(l.object < v)

EqVO(v, r) == r.engaged /\ v = r.object
NeVO(v, r) == ~r.engaged \/ v # r.object
LtVO(v, r) == r.engaged /\ v < r.object
GtVO(v, r) == ~r.engaged \/ r.object < v
LeVO(v, r) == r.engaged /\ ~(r.object < v)
GeVO(v, r) == ~r.engaged \/ ~(v < r.object)

\* With nullOpt on the right, and on the left.
LtON(l) == FALSE
GtON(l) == l.engaged
LeON(l) == ~l.engaged
GeON(l) == TRUE
LtNO(r) == r.engaged
GtNO(r) == FALSE
LeNO(r) == TRUE
GeNO(r) == ~r.engaged

-----------------------------------------------------------------------------
(* Properties *)

\* An object is there exactly if the flag says so, whatever has thrown: none is used
\* or destroyed when it is not there, and none is left behind or built over.
EngagedIsObject ==
  \A x \in Opts :
    /\ opt[x].engaged <=> opt[x].object # NoObject
    /\ ~opt[x].misused
    /\ opt[x].engaged => x \in alive

\* The order that is meant: an empty Optional comes before every value.
Before(l, r) == r.engaged /\ (l.engaged => l.object < r.object)
Of(v) == [engaged |-> TRUE, object |-> v, misused |-> FALSE]
Agree(l, r, lt, gt, le, ge) ==
  /\ lt = Before(l, r)
  /\ gt = Before(r, l)
  /\ le = ~Before(r, l)
  /\ ge = ~Before(l, r)

\* The comparisons of two Optionals, and of one with nullOpt.
OptionalsAgree(l, r) ==
  /\ Agree(l, r, LtOO(l, r), GtOO(l, r), LeOO(l, r), GeOO(l, r))
  /\ EqOO(l, r) <=> ~Before(l, r) /\ ~Before(r, l)
  /\ Agree(l, Empty, LtON(l), GtON(l), LeON(l), GeON(l))
  /\ Agree(Empty, r, LtNO(r), GtNO(r), LeNO(r), GeNO(r))

\* Those of one with a value. Two of them are wrong: < with the Optional on the left
\* of an empty one, and <= there, which is >=, of an empty one and of two that differ.
MixedAgree(o, v) ==
  /\ Agree(Of(v), o, LtVO(v, o), GtVO(v, o), LeVO(v, o), GeVO(v, o))
  /\ GtOV(o, v) = Before(Of(v), o) /\ GeOV(o, v) = ~Before(o, Of(v))
  /\ EqOV(o, v) = EqOO(o, Of(v)) /\ EqVO(v, o) = EqOO(o, Of(v))
  /\ NeOV(o, v) = ~EqOO(o, Of(v)) /\ NeVO(v, o) = ~EqOO(o, Of(v))
  /\ LtOV(o, v) # Before(o, Of(v)) <=> ~o.engaged
  /\ LeOV(o, v) # ~Before(Of(v), o) <=> ~EqOO(o, Of(v))

\* Whatever the calls have made of the variables, the comparisons are those of one
\* total order with nullOpt at its start, and == is its equality, but for the two; and
\* what was copied or assigned without an exception is equal to its source.
OrderIsTotal ==
  /\ last.op \in {"copy", "assign"} /\ last.ok =>
       EqOO(opt[last.args[1]], opt[last.args[2]])
  /\ \A x, y \in alive : OptionalsAgree(opt[x], opt[y])
  /\ \A x \in alive : \A v \in Values : MixedAgree(opt[x], v)
=============================================================================
