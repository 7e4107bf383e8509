------------------------ MODULE SignalHandlerProofs ------------------------
(* Proofs about SignalHandler, for every number of threads and of signals. *)
EXTENDS SignalHandler, FiniteSetTheorems, TLAPS

\* The inductive invariant of the proofs. Where each thread can be, and in which loop:
FramesOfThreads ==
  /\ mode[Worker] = "run"
  /\ pc[Worker] \in {"unborn", "loop", "pop", "waiting", "woken", "call", "ended"}
  /\ \A c \in Consumers : pc[c] = "loop" => mode[c] = "run"
  /\ \A c \in Consumers : pc[c] = "once" => mode[c] = "once"
  /\ \A c \in Consumers : pc[c] = "call" => held[c] # NoSignal

\* a runner that is still to pop has popped nothing since the stop;
LateAfterStop ==
  \A c \in Consumers :
    /\ late[c] <= 1
    /\ mode[c] = "run" /\ pc[c] \in {"pop", "waiting", "woken"} /\ ~runFlag => late[c] = 0

\* and a caller of runOnce that is about to pop saw a signal, which is there or was
\* popped by another.
RobbedWhenEmpty ==
  \A c \in Consumers :
    mode[c] = "once" =>
      /\ pc[c] = "pop" => queue # <<>> \/ c \in robbed
      /\ pc[c] \in {"waiting", "woken"} => c \in robbed

ThreadInvariant ==
  TypeOK /\ FramesOfThreads /\ FlagMeansRunner /\ LateAfterStop /\ RobbedWhenEmpty

\* The signals of the queue are the latest, in their order; every earlier one is with
\* the one consumer that popped it or executed.
Popped == 1 .. pushed - Len(queue)

SignalPlaces ==
  /\ Len(queue) <= pushed
  /\ \A k \in 1 .. Len(queue) : queue[k] = pushed - Len(queue) + k
  /\ \A c \in Consumers : held[c] # NoSignal => pc[c] = "call" /\ held[c] \in Popped \ done
  /\ \A c, d \in Consumers : held[c] = held[d] /\ held[c] # NoSignal => c = d
  /\ done \subseteq Popped
  /\ \A n \in Popped : n \in done \/ \E c \in Consumers : held[c] = n

HandlerInvariant == ThreadInvariant /\ SignalPlaces /\ NoWakeupIsLost

\* Whether a thread emits or consumes.
LEMMA ThreadKinds ==
  /\ Worker \in Consumers
  /\ \A c \in Callers : c \in Consumers /\ c # Worker
  /\ \A p \in Pushers : p \in Threads /\ p \notin Consumers
  /\ \A c \in Consumers : c \in Threads
  /\ \A n \in Signals : n \in Nat /\ n # NoSignal
  /\ NoSignal \notin Signals /\ Signals \subseteq Nat
  BY ThreadsAssumption, SignalsAssumption DEF Consumers, Threads, Signals, NoSignal

-----------------------------------------------------------------------------
(* The queue *)

LEMMA PushKeeps == ASSUME ThreadInvariant, NEW p \in Pushers, Push(p) PROVE ThreadInvariant'
<1> USE ThreadKinds
<1>1. pushed' \in 1 .. MaxSignals /\ pushed' \in Signals
  BY SignalsAssumption DEF ThreadInvariant, TypeOK, Push, Signals
<1>2. queue' \in Seq(Signals) /\ queue' # <<>>
  BY <1>1 DEF ThreadInvariant, TypeOK, Push
<1>3. /\ \A c \in Consumers : pc'[c] = pc[c]
      /\ pc'[p] = "notify" /\ pc' = [pc EXCEPT ![p] = "notify"]
  BY DEF ThreadInvariant, TypeOK, Push, Goes
<1>4. TypeOK'
  BY <1>1, <1>2, <1>3 DEF ThreadInvariant, TypeOK, Push, histVars
<1>5. FramesOfThreads' /\ FlagMeansRunner'
  BY <1>3 DEF ThreadInvariant, FramesOfThreads, FlagMeansRunner, Push
<1>6. LateAfterStop' /\ RobbedWhenEmpty'
  BY <1>2, <1>3 DEF ThreadInvariant, LateAfterStop, RobbedWhenEmpty, Push, histVars
<1>7. QED
  BY <1>4, <1>5, <1>6 DEF ThreadInvariant

LEMMA NotifyKeeps == ASSUME ThreadInvariant, NEW p \in Pushers, Notify(p) PROVE ThreadInvariant'
<1> USE ThreadKinds
<1>1. /\ \A c \in Consumers : pc'[c] = pc[c] \/ (pc[c] = "waiting" /\ pc'[c] = "woken")
      /\ UNCHANGED <<queue, runFlag, mode, held, done, pushed, terminated, late, robbed>>
  <2>1. pc \in [Threads -> {"unborn", "idle", "notify", "setFlag", "setFlagSpawn", "spawn",
                             "loop", "once", "pop", "waiting", "woken", "call", "ended"}]
    BY DEF ThreadInvariant, TypeOK
  <2>2. \/ \E d \in Waiting : pc' = [pc EXCEPT ![p] = "idle", ![d] = "woken"]
        \/ pc' = [pc EXCEPT ![p] = "idle"]
    BY DEF Notify
  <2>3. \A c \in Consumers : pc'[c] = pc[c] \/ (pc[c] = "waiting" /\ pc'[c] = "woken")
    <3>1. ASSUME NEW d \in Waiting, pc' = [pc EXCEPT ![p] = "idle", ![d] = "woken"],
                 NEW c \in Consumers
          PROVE  pc'[c] = pc[c] \/ (pc[c] = "waiting" /\ pc'[c] = "woken")
      <4>1. d \in Consumers /\ pc[d] = "waiting" /\ c # p /\ c \in Threads /\ d # p
        BY DEF Waiting
      <4>2. c # d => pc'[c] = pc[c]
        BY <2>1, <3>1, <4>1
      <4>3. c = d => pc'[c] = "woken"
        BY <2>1, <3>1, <4>1
      <4>4. QED
        BY <4>1, <4>2, <4>3
    <3>2. CASE pc' = [pc EXCEPT ![p] = "idle"]
      BY <2>1, <3>2
    <3>3. QED
      BY <2>2, <3>1, <3>2
  <2>4. QED
    BY <2>3 DEF Notify, histVars
<1>2. TypeOK'
  BY <1>1 DEF ThreadInvariant, TypeOK, Notify, Waiting
<1>3. FramesOfThreads'
  BY <1>1 DEF ThreadInvariant, FramesOfThreads
<1>4. FlagMeansRunner'
  BY <1>1 DEF ThreadInvariant, FlagMeansRunner
<1>5. LateAfterStop' /\ RobbedWhenEmpty'
  BY <1>1 DEF ThreadInvariant, LateAfterStop, RobbedWhenEmpty
<1>6. QED
  BY <1>2, <1>3, <1>4, <1>5 DEF ThreadInvariant

\* A wait is begun or ends: nothing but the thread's place changes. That of a caller of
\* runOnce begins with an empty queue, so it was robbed.
LEMMA WaitingKeeps ==
  ASSUME ThreadInvariant, NEW c \in Consumers, Wait(c) \/ WakeUp(c)
  PROVE  ThreadInvariant'
<1> USE ThreadKinds
<1>1. PICK next \in {"waiting", "woken"} :
        /\ pc[c] \in {"pop", "waiting", "woken"} /\ pc' = [pc EXCEPT ![c] = next]
        /\ pc[c] = "pop" => queue = <<>>
        /\ UNCHANGED <<queue, runFlag, mode, held, done, pushed, terminated, late, robbed>>
  BY DEF Wait, WakeUp, HasMutex, Goes, histVars
<1>2. TypeOK'
  BY <1>1 DEF ThreadInvariant, TypeOK
<1>3. pc'[c] = next /\ \A d \in Consumers : d # c => pc'[d] = pc[d]
  BY <1>1 DEF ThreadInvariant, TypeOK
<1>4. FramesOfThreads' /\ FlagMeansRunner'
  BY <1>1, <1>3 DEF ThreadInvariant, FramesOfThreads, FlagMeansRunner
<1>5. LateAfterStop' /\ RobbedWhenEmpty'
  BY <1>1, <1>3 DEF ThreadInvariant, LateAfterStop, RobbedWhenEmpty
<1>6. QED
  BY <1>2, <1>4, <1>5 DEF ThreadInvariant

LEMMA TakeKeeps == ASSUME ThreadInvariant, NEW c \in Consumers, Take(c) PROVE ThreadInvariant'
<1> USE ThreadKinds
<1>1. Head(queue) \in Signals /\ queue' \in Seq(Signals)
  BY DEF ThreadInvariant, TypeOK, Take
<1>2. /\ pc'[c] = "call" /\ held'[c] = Head(queue)
      /\ \A d \in Consumers : d # c => pc'[d] = pc[d] /\ held'[d] = held[d] /\ late'[d] = late[d]
  BY DEF ThreadInvariant, TypeOK, Take, Recorded
<1>3. late'[c] = IF mode[c] = "run" /\ ~runFlag THEN late[c] + 1 ELSE late[c]
  BY DEF ThreadInvariant, TypeOK, Take, Recorded
<1>4. /\ late[c] \in Nat /\ late' \in [Consumers -> Nat]
  BY DEF ThreadInvariant, TypeOK, Take, Recorded
<1>5. TypeOK'
  BY <1>1, <1>4 DEF ThreadInvariant, TypeOK, Take, Recorded
<1>6. FramesOfThreads'
  BY <1>1, <1>2 DEF ThreadInvariant, FramesOfThreads, Take, HasMutex
<1>7. FlagMeansRunner'
  BY <1>2 DEF ThreadInvariant, FlagMeansRunner, Take, HasMutex
<1>8. LateAfterStop'
  <2>1. pc[c] \in {"pop", "woken"} /\ UNCHANGED <<mode, runFlag>>
    BY DEF Take, HasMutex
  <2>2. late'[c] <= 1
    BY <1>3, <1>4, <2>1 DEF ThreadInvariant, LateAfterStop
  <2>3. QED
    BY <1>2, <2>1, <2>2 DEF ThreadInvariant, LateAfterStop
<1>9. RobbedWhenEmpty'
  BY <1>2 DEF ThreadInvariant, RobbedWhenEmpty, Take, Recorded
<1>10. QED
  BY <1>5, <1>6, <1>7, <1>8, <1>9 DEF ThreadInvariant

-----------------------------------------------------------------------------
(* The handler *)

\* A thread that moves in run or runOnce, and changes nothing else.
LEMMA MoveKeeps ==
  ASSUME ThreadInvariant, NEW c \in Consumers, CallRun(c) \/ Loop(c)
  PROVE  ThreadInvariant'
<1> USE ThreadKinds
<1>1. PICK next \in {"setFlag", "setFlagSpawn", "pop", "ended", "idle"} :
        /\ pc[c] \in {"idle", "loop"} /\ pc' = [pc EXCEPT ![c] = next]
        /\ next = "pop" => runFlag
        /\ next # "pop" => ~runFlag
        /\ next = "pop" \/ next = "ended" => pc[c] = "loop"
        /\ c = Worker => next \in {"pop", "ended"} \/ pc[c] = "idle"
        /\ UNCHANGED <<queue, runFlag, mode, held, done, pushed, terminated, late, robbed>>
  BY DEF CallRun, Loop, Goes, histVars
<1>2. TypeOK'
  BY <1>1 DEF ThreadInvariant, TypeOK
<1>3. pc'[c] = next /\ \A d \in Consumers : d # c => pc'[d] = pc[d]
  BY <1>1 DEF ThreadInvariant, TypeOK
<1>4. FramesOfThreads'
  BY <1>1, <1>3 DEF ThreadInvariant, FramesOfThreads
<1>5. FlagMeansRunner'
  <2>1. runFlag => mode[c] = "run" /\ pc'[c] = "pop"
    BY <1>1, <1>3 DEF ThreadInvariant, FramesOfThreads
  <2>2. QED
    BY <1>1, <2>1 DEF FlagMeansRunner
<1>6. LateAfterStop'
  BY <1>1, <1>3 DEF ThreadInvariant, LateAfterStop
<1>7. RobbedWhenEmpty'
  BY <1>1, <1>3 DEF ThreadInvariant, RobbedWhenEmpty, FramesOfThreads
<1>8. QED
  BY <1>2, <1>4, <1>5, <1>6, <1>7 DEF ThreadInvariant

LEMMA SetFlagKeeps == ASSUME ThreadInvariant, NEW c \in Consumers, SetFlag(c) PROVE ThreadInvariant'
<1> USE ThreadKinds
<1>1. PICK next \in {"loop", "spawn"} :
        /\ pc[c] \in {"setFlag", "setFlagSpawn"} /\ pc' = [pc EXCEPT ![c] = next]
        /\ runFlag' = TRUE /\ mode' = [mode EXCEPT ![c] = "run"]
        /\ UNCHANGED <<queue, held, done, pushed, terminated, late, robbed>>
  BY DEF SetFlag, Goes, histVars
<1>2. TypeOK'
  BY <1>1 DEF ThreadInvariant, TypeOK
<1>3. /\ pc'[c] = next /\ mode'[c] = "run"
      /\ \A d \in Consumers : d # c => pc'[d] = pc[d] /\ mode'[d] = mode[d]
  BY <1>1 DEF ThreadInvariant, TypeOK
<1>4. FramesOfThreads' /\ FlagMeansRunner'
  BY <1>1, <1>3 DEF ThreadInvariant, FramesOfThreads, FlagMeansRunner
<1>5. LateAfterStop' /\ RobbedWhenEmpty'
  BY <1>1, <1>3 DEF ThreadInvariant, LateAfterStop, RobbedWhenEmpty
<1>6. QED
  BY <1>2, <1>4, <1>5 DEF ThreadInvariant

LEMMA SpawnKeeps == ASSUME ThreadInvariant, NEW c \in Consumers, Spawn(c) PROVE ThreadInvariant'
<1> USE ThreadKinds
<1>0. pc[c] = "spawn" /\ c # Worker
  BY DEF ThreadInvariant, FramesOfThreads, Spawn
<1>1. CASE /\ pc[Worker] = "unborn" /\ UNCHANGED terminated
           /\ pc' = [pc EXCEPT ![c] = "idle", ![Worker] = "loop"]
  <2>1. TypeOK'
    BY <1>1 DEF ThreadInvariant, TypeOK, Spawn, histVars
  <2>2. /\ pc'[c] = "idle" /\ pc'[Worker] = "loop"
        /\ \A d \in Consumers : d # c /\ d # Worker => pc'[d] = pc[d]
    BY <1>0, <1>1 DEF ThreadInvariant, TypeOK
  <2>3. FramesOfThreads' /\ FlagMeansRunner'
    BY <2>2 DEF ThreadInvariant, FramesOfThreads, FlagMeansRunner, Spawn
  <2>4. LateAfterStop' /\ RobbedWhenEmpty'
    BY <2>2 DEF ThreadInvariant, LateAfterStop, RobbedWhenEmpty, Spawn, histVars
  <2>5. QED
    BY <2>1, <2>3, <2>4 DEF ThreadInvariant
<1>2. CASE terminated' = TRUE /\ UNCHANGED pc
  BY <1>2 DEF ThreadInvariant, TypeOK, FramesOfThreads, FlagMeansRunner, LateAfterStop,
              RobbedWhenEmpty, Spawn, histVars
<1>3. QED
  BY <1>1, <1>2 DEF Spawn

\* runOnce is called, or looks at the queue: what robbed says of this caller begins anew.
LEMMA OnceKeeps ==
  ASSUME ThreadInvariant, NEW c \in Consumers, CallRunOnce(c) \/ Once(c), c # Worker
  PROVE  ThreadInvariant'
<1> USE ThreadKinds
<1>1. PICK next \in {"once", "pop", "idle"} :
        /\ pc[c] \in {"idle", "once"} /\ pc' = [pc EXCEPT ![c] = next]
        /\ next = "pop" => queue # <<>>
        /\ \/ next = "once" /\ mode' = [mode EXCEPT ![c] = "once"]
           \/ next # "once" /\ UNCHANGED mode
        /\ next = "pop" => pc[c] = "once"
        /\ robbed' = robbed \ {c}
        /\ UNCHANGED <<queue, runFlag, held, done, pushed, terminated, late>>
  BY DEF CallRunOnce, Once, Goes
<1>2. TypeOK'
  BY <1>1 DEF ThreadInvariant, TypeOK
<1>3. /\ pc'[c] = next /\ (pc'[c] = "once" => mode'[c] = "once")
      /\ \A d \in Consumers : d # c => pc'[d] = pc[d] /\ mode'[d] = mode[d]
  BY <1>1 DEF ThreadInvariant, TypeOK
<1>4. FramesOfThreads'
  BY <1>1, <1>3 DEF ThreadInvariant, FramesOfThreads
<1>5. FlagMeansRunner'
  <2>1. SUFFICES ASSUME runFlag, ~terminated PROVE FlagMeansRunner'
    BY <1>1 DEF FlagMeansRunner
  <2>2. PICK d \in Consumers :
          \/ pc[d] = "spawn"
          \/ mode[d] = "run" /\ pc[d] \in {"loop", "pop", "waiting", "woken", "call"}
    BY <2>1 DEF ThreadInvariant, FlagMeansRunner
  <2>3. d # c
    BY <1>1, <2>2
  <2>4. QED
    BY <1>3, <2>2, <2>3 DEF FlagMeansRunner
<1>6. LateAfterStop'
  BY <1>1, <1>3 DEF ThreadInvariant, LateAfterStop, FramesOfThreads
<1>7. RobbedWhenEmpty'
  BY <1>1, <1>3 DEF ThreadInvariant, RobbedWhenEmpty
<1>8. QED
  BY <1>2, <1>4, <1>5, <1>6, <1>7 DEF ThreadInvariant

LEMMA ExecuteKeeps ==
  ASSUME ThreadInvariant, NEW c \in Consumers, ExecuteSignal(c)
  PROVE  ThreadInvariant'
<1> USE ThreadKinds
<1>1. /\ pc[c] = "call" /\ pc' = [pc EXCEPT ![c] = IF mode[c] = "run" THEN "loop" ELSE "once"]
      /\ held' = [held EXCEPT ![c] = NoSignal] /\ done' = done \cup {held[c]}
      /\ UNCHANGED <<queue, runFlag, mode, pushed, terminated, late, robbed>>
  BY DEF ExecuteSignal, Goes, histVars
<1>2. held[c] \in Signals
  BY <1>1 DEF ThreadInvariant, TypeOK, FramesOfThreads
<1>3. TypeOK'
  BY <1>1, <1>2 DEF ThreadInvariant, TypeOK
<1>4. /\ pc'[c] = (IF mode[c] = "run" THEN "loop" ELSE "once") /\ mode[c] \in {"run", "once"}
      /\ \A d \in Consumers : d # c => pc'[d] = pc[d] /\ held'[d] = held[d]
  BY <1>1 DEF ThreadInvariant, TypeOK
<1>5. FramesOfThreads'
  BY <1>1, <1>4 DEF ThreadInvariant, FramesOfThreads
<1>6. FlagMeansRunner'
  BY <1>1, <1>4 DEF ThreadInvariant, FlagMeansRunner
<1>7. LateAfterStop' /\ RobbedWhenEmpty'
  BY <1>1, <1>4 DEF ThreadInvariant, LateAfterStop, RobbedWhenEmpty
<1>8. QED
  BY <1>3, <1>5, <1>6, <1>7 DEF ThreadInvariant

\* stop: what a runner popped before it does not count.
LEMMA StopKeeps == ASSUME ThreadInvariant, Stop PROVE ThreadInvariant'
<1>1. TypeOK' /\ FramesOfThreads' /\ FlagMeansRunner'
  BY DEF ThreadInvariant, TypeOK, FramesOfThreads, FlagMeansRunner, Stop
<1>2. LateAfterStop' /\ RobbedWhenEmpty'
  BY DEF ThreadInvariant, LateAfterStop, RobbedWhenEmpty, Stop
<1>3. QED
  BY <1>1, <1>2 DEF ThreadInvariant

-----------------------------------------------------------------------------
(* The theorems *)

LEMMA ThreadInitial == Init => ThreadInvariant
<1> SUFFICES ASSUME Init PROVE ThreadInvariant
  OBVIOUS
<1> USE ThreadKinds
<1>1. TypeOK
  <2>1. queue = <<>> /\ done = {} /\ robbed = {} /\ pushed = 0
    BY DEF Init
  <2>2. queue \in Seq(Signals) /\ done \subseteq Signals /\ robbed \subseteq Consumers
    BY <2>1
  <2>3. pushed \in 0 .. MaxSignals
    BY <2>1, SignalsAssumption
  <2>4. runFlag \in BOOLEAN /\ terminated \in BOOLEAN
    BY Zenon DEF Init
  <2>5. mode \in [Consumers -> {"run", "once"}] /\ late \in [Consumers -> Nat]
    BY DEF Init
  <2>6. QED
    BY <2>2, <2>3, <2>4, <2>5 DEF Init, TypeOK
<1>2. FramesOfThreads
  BY DEF Init, FramesOfThreads
<1>3. FlagMeansRunner /\ LateAfterStop /\ RobbedWhenEmpty
  BY DEF Init, FlagMeansRunner, LateAfterStop, RobbedWhenEmpty
<1>4. QED
  BY <1>1, <1>2, <1>3 DEF ThreadInvariant

LEMMA ThreadStep == ThreadInvariant /\ [Next]_vars => ThreadInvariant'
<1> SUFFICES ASSUME ThreadInvariant, [Next]_vars PROVE ThreadInvariant'
  OBVIOUS
<1>1. ASSUME NEW p \in Pushers, Push(p) \/ Notify(p) PROVE ThreadInvariant'
  BY <1>1, PushKeeps, NotifyKeeps
<1>2. ASSUME NEW c \in Callers, CallRun(c) \/ CallRunOnce(c) PROVE ThreadInvariant'
  BY <1>2, ThreadKinds, MoveKeeps, OnceKeeps
<1>3. ASSUME NEW c \in Consumers, GoesOn(c) \/ WakeUp(c) PROVE ThreadInvariant'
  <2>1. Once(c) => c # Worker
    BY ThreadKinds DEF ThreadInvariant, FramesOfThreads, Once, Goes
  <2>2. QED
    BY <1>3, <2>1, TakeKeeps, WaitingKeeps, ExecuteKeeps, SetFlagKeeps, SpawnKeeps, MoveKeeps,
       OnceKeeps DEF GoesOn
<1>4. CASE Stop
  BY <1>4, StopKeeps
<1>5. CASE UNCHANGED vars
  <2>1. TypeOK' /\ FramesOfThreads'
    BY <1>5 DEF vars, histVars, ThreadInvariant, TypeOK, FramesOfThreads
  <2>2. FlagMeansRunner'
    BY <1>5 DEF vars, ThreadInvariant, FlagMeansRunner
  <2>3. LateAfterStop' /\ RobbedWhenEmpty'
    BY <1>5 DEF vars, histVars, ThreadInvariant, LateAfterStop, RobbedWhenEmpty
  <2>4. QED
    BY <2>1, <2>2, <2>3 DEF ThreadInvariant
<1>6. QED
  <2>1. CASE Next
    BY <2>1, <1>1, <1>2, <1>3, <1>4, Zenon DEF Next
  <2>2. QED
    BY <2>1, <1>5
\* The invariant, and with it the types of the variables.
THEOREM ThreadsSafe == Spec => []ThreadInvariant
  BY ThreadInitial, ThreadStep, PTL DEF Spec

\* run is refused only while a thread runs the handler, is about to, or ended the program.
THEOREM FlagIsTrue == Spec => []FlagMeansRunner
<1>1. ThreadInvariant => FlagMeansRunner
  BY DEF ThreadInvariant
<1>2. QED
  BY <1>1, ThreadsSafe, PTL

\* However many emit, stop and run again: a runner pops one signal at most after stop.
THEOREM OneAfterStop == Spec => []OneSignalAfterStop
<1>1. ThreadInvariant => OneSignalAfterStop
  BY DEF ThreadInvariant, LateAfterStop, OneSignalAfterStop
<1>2. QED
  BY <1>1, ThreadsSafe, PTL

\* runOnce blocks only when another consumer took the signal it had seen.
THEOREM OnceIsRobbed == Spec => []RunOnceBlocksOnlyIfRobbed
<1>1. ThreadInvariant => RunOnceBlocksOnlyIfRobbed
  BY DEF ThreadInvariant, RobbedWhenEmpty, RunOnceBlocksOnlyIfRobbed
<1>2. QED
  BY <1>1, ThreadsSafe, PTL

-----------------------------------------------------------------------------
(* Wakeups. The sets of notifying and of woken threads are finite, and a step adds or
   removes one thread at most. *)

LEMMA Counted ==
  /\ IsFiniteSet(Notifying) /\ IsFiniteSet(Woken)
  /\ Cardinality(Notifying) \in Nat /\ Cardinality(Woken) \in Nat
<1>1. IsFiniteSet(Consumers)
  BY ThreadsAssumption, FS_AddElement, FS_Union, FS_Singleton DEF Consumers
<1>2. IsFiniteSet(Notifying) /\ IsFiniteSet(Woken)
  BY <1>1, ThreadsAssumption, FS_Subset DEF Notifying, Woken
<1>3. QED
  BY <1>2, FS_CardinalityType

\* A thread more.
LEMMA OneMore ==
  ASSUME NEW S, NEW T, NEW x, IsFiniteSet(S), x \notin S, T = S \cup {x}
  PROVE  Cardinality(T) = Cardinality(S) + 1
  BY FS_AddElement

\* A thread less.
LEMMA OneLess ==
  ASSUME NEW S, NEW T, NEW x, IsFiniteSet(S), x \in S, T = S \ {x}
  PROVE  Cardinality(T) = Cardinality(S) - 1
  BY FS_RemoveElement

LEMMA WakeupStep == ThreadInvariant /\ NoWakeupIsLost /\ [Next]_vars => NoWakeupIsLost'
<1> SUFFICES ASSUME ThreadInvariant, NoWakeupIsLost, [Next]_vars, Waiting' # {}
             PROVE  Len(queue)' <= Cardinality(Notifying)' + Cardinality(Woken)'
  BY DEF NoWakeupIsLost
<1> USE ThreadKinds
<1> DEFINE Phases == {"unborn", "idle", "notify", "setFlag", "setFlagSpawn", "spawn",
                      "loop", "once", "pop", "waiting", "woken", "call", "ended"}
<1>1. pc \in [Threads -> Phases] /\ queue \in Seq(Signals) /\ Len(queue) \in Nat
  BY DEF ThreadInvariant, TypeOK
<1>2. ASSUME UNCHANGED <<pc, queue>>
      PROVE  Len(queue)' <= Cardinality(Notifying)' + Cardinality(Woken)'
  BY <1>2 DEF NoWakeupIsLost, Waiting, Notifying, Woken
<1>3. ASSUME UNCHANGED queue, Notifying' = Notifying, Woken' = Woken, Waiting' = Waiting
      PROVE  Len(queue)' <= Cardinality(Notifying)' + Cardinality(Woken)'
  BY <1>3 DEF NoWakeupIsLost
<1>4. ASSUME NEW p \in Pushers, Push(p)
      PROVE  Len(queue)' <= Cardinality(Notifying)' + Cardinality(Woken)'
  <2>1. pc[p] = "idle" /\ pc' = [pc EXCEPT ![p] = "notify"] /\ p \notin Notifying
    BY <1>4 DEF Push, Goes, Notifying
  <2>2. Notifying' = Notifying \cup {p} /\ Woken' = Woken /\ Waiting' = Waiting
    BY <1>1, <2>1 DEF Notifying, Woken, Waiting
  <2>3. Cardinality(Notifying)' = Cardinality(Notifying) + 1
    BY <2>1, <2>2, Counted, OneMore
  <2>4. Len(queue') = Len(queue) + 1
    BY <1>1, <1>4 DEF Push
  <2>5. QED
    BY <1>1, <2>2, <2>3, <2>4, Counted DEF NoWakeupIsLost
<1>5. ASSUME NEW p \in Pushers, Notify(p)
      PROVE  Len(queue)' <= Cardinality(Notifying)' + Cardinality(Woken)'
  <2>1. pc[p] = "notify" /\ p \in Notifying /\ UNCHANGED queue
    BY <1>5 DEF Notify, Notifying
  <2>2. ASSUME NEW c \in Waiting, pc' = [pc EXCEPT ![p] = "idle", ![c] = "woken"]
        PROVE  Len(queue)' <= Cardinality(Notifying)' + Cardinality(Woken)'
    <3>1. c \in Consumers /\ c # p /\ pc[c] = "waiting" /\ c \notin Woken
      BY DEF Waiting, Woken
    <3>2. Notifying' = Notifying \ {p} /\ Woken' = Woken \cup {c}
      BY <1>1, <2>1, <2>2, <3>1 DEF Notifying, Woken
    <3>3. /\ Cardinality(Notifying)' = Cardinality(Notifying) - 1
          /\ Cardinality(Woken)' = Cardinality(Woken) + 1
      BY <2>1, <3>1, <3>2, Counted, OneMore, OneLess
    <3>4. Len(queue) <= Cardinality(Notifying) + Cardinality(Woken)
      BY DEF NoWakeupIsLost
    <3>5. QED
      BY <1>1, <2>1, <3>3, <3>4, Counted
  <2>3. CASE Waiting = {} /\ pc' = [pc EXCEPT ![p] = "idle"]
    <3>1. Waiting' = {}
      BY <1>1, <2>3 DEF Waiting
    <3>2. QED
      BY <3>1
  <2>4. QED
    BY <1>5, <2>2, <2>3 DEF Notify
<1>6. ASSUME NEW c \in Consumers, WakeUp(c)
      PROVE  Len(queue)' <= Cardinality(Notifying)' + Cardinality(Woken)'
  <2>1. /\ pc[c] = "waiting" /\ c \in Waiting /\ c \notin Woken
        /\ pc' = [pc EXCEPT ![c] = "woken"] /\ UNCHANGED queue
    BY <1>6 DEF WakeUp, Goes, Waiting, Woken
  <2>2. Notifying' = Notifying /\ Woken' = Woken \cup {c}
    BY <1>1, <2>1 DEF Notifying, Woken
  <2>3. Cardinality(Woken)' = Cardinality(Woken) + 1
    BY <2>1, <2>2, Counted, OneMore
  <2>4. Len(queue) <= Cardinality(Notifying) + Cardinality(Woken)
    BY <2>1 DEF NoWakeupIsLost
  <2>5. QED
    BY <1>1, <2>1, <2>2, <2>3, <2>4, Counted
<1>7. ASSUME NEW c \in Consumers, Take(c)
      PROVE  Len(queue)' <= Cardinality(Notifying)' + Cardinality(Woken)'
  <2>1. /\ pc[c] \in {"pop", "woken"} /\ pc' = [pc EXCEPT ![c] = "call"]
        /\ queue # <<>> /\ queue' = Tail(queue)
    BY <1>7 DEF Take, HasMutex
  <2>2. Notifying' = Notifying /\ Waiting' = Waiting
    BY <1>1, <2>1 DEF Notifying, Waiting
  <2>3. Len(queue') = Len(queue) - 1
    BY <1>1, <2>1
  <2>4. Len(queue) <= Cardinality(Notifying) + Cardinality(Woken)
    BY <2>2 DEF NoWakeupIsLost
  <2>5. Cardinality(Woken)' >= Cardinality(Woken) - 1 /\ Cardinality(Woken)' \in Nat
    <3>1. CASE pc[c] = "pop"
      <4>1. Woken' = Woken
        BY <1>1, <2>1, <3>1 DEF Woken
      <4>2. QED
        BY <4>1, Counted
    <3>2. CASE pc[c] = "woken"
      <4>1. c \in Woken
        BY <3>2 DEF Woken
      <4>2. Woken' = Woken \ {c}
        BY <1>1, <2>1 DEF Woken
      <4>3. Cardinality(Woken)' = Cardinality(Woken) - 1
        BY <4>1, <4>2, Counted, OneLess
      <4>4. IsFiniteSet(Woken')
        BY <4>2, Counted, FS_Subset
      <4>5. QED
        BY <4>2, <4>3, <4>4, Counted, FS_CardinalityType
    <3>3. QED
      BY <2>1, <3>1, <3>2
  <2>6. QED
    BY <1>1, <2>2, <2>3, <2>4, <2>5, Counted
<1>8. ASSUME NEW c \in Consumers, Wait(c)
      PROVE  Len(queue)' <= Cardinality(Notifying)' + Cardinality(Woken)'
  <2>1. queue' = <<>> /\ pc[c] \in {"pop", "woken"} /\ pc' = [pc EXCEPT ![c] = "waiting"]
    BY <1>8 DEF Wait, HasMutex
  <2>2. Notifying' \subseteq Notifying /\ Woken' \subseteq Woken
    BY <1>1, <2>1 DEF Notifying, Woken
  <2>3. Cardinality(Notifying)' \in Nat /\ Cardinality(Woken)' \in Nat
    BY <2>2, Counted, FS_Subset, FS_CardinalityType
  <2>4. QED
    BY <2>1, <2>3
<1>9. ASSUME NEW c \in Consumers,
             CallRun(c) \/ CallRunOnce(c) \/ ExecuteSignal(c) \/ SetFlag(c) \/ Loop(c) \/ Once(c)
      PROVE  Len(queue)' <= Cardinality(Notifying)' + Cardinality(Woken)'
  <2>1. PICK next \in {"setFlag", "setFlagSpawn", "loop", "once", "pop", "idle", "ended", "spawn"} :
          /\ pc[c] \in {"idle", "call", "setFlag", "setFlagSpawn", "loop", "once"}
          /\ pc' = [pc EXCEPT ![c] = next] /\ UNCHANGED queue
    BY <1>9 DEF CallRun, CallRunOnce, ExecuteSignal, SetFlag, Loop, Once, Goes
  <2>2. Notifying' = Notifying /\ Woken' = Woken /\ Waiting' = Waiting
    BY <1>1, <2>1 DEF Notifying, Woken, Waiting
  <2>3. QED
    BY <1>3, <2>1, <2>2
<1>10. ASSUME NEW c \in Consumers, Spawn(c)
       PROVE  Len(queue)' <= Cardinality(Notifying)' + Cardinality(Woken)'
  <2>1. pc[c] = "spawn" /\ UNCHANGED queue
    BY <1>10 DEF Spawn
  <2>2. CASE pc[Worker] = "unborn" /\ pc' = [pc EXCEPT ![c] = "idle", ![Worker] = "loop"]
    <3>1. Notifying' = Notifying /\ Woken' = Woken /\ Waiting' = Waiting
      BY <1>1, <2>1, <2>2 DEF Notifying, Woken, Waiting
    <3>2. QED
      BY <1>3, <2>1, <3>1
  <2>3. CASE UNCHANGED pc
    BY <1>2, <2>1, <2>3
  <2>4. QED
    BY <1>10, <2>2, <2>3 DEF Spawn
<1>11. CASE Stop
  BY <1>2, <1>11 DEF Stop
<1>12. CASE UNCHANGED vars
  BY <1>2, <1>12 DEF vars
<1>13. CASE Next
  <2>1. ASSUME NEW c \in Consumers, GoesOn(c) \/ WakeUp(c)
        PROVE  Len(queue)' <= Cardinality(Notifying)' + Cardinality(Woken)'
    BY <2>1, <1>6, <1>7, <1>8, <1>9, <1>10 DEF GoesOn
  <2>2. QED
    BY <1>4, <1>5, <1>9, <1>11, <1>13, <2>1 DEF Next
<1>14. QED
  BY <1>12, <1>13

-----------------------------------------------------------------------------
(* Where the signals are *)

\* Nothing of the signals changes, and no thread that holds one moves.
LEMMA PlacesStay ==
  ASSUME SignalPlaces, UNCHANGED <<queue, pushed, held, done>>,
         \A c \in Consumers : pc[c] = "call" => pc'[c] = "call"
  PROVE  SignalPlaces'
  BY DEF SignalPlaces, Popped

LEMMA PlacesStep == ThreadInvariant /\ SignalPlaces /\ [Next]_vars => SignalPlaces'
<1> SUFFICES ASSUME ThreadInvariant, SignalPlaces, [Next]_vars PROVE SignalPlaces'
  OBVIOUS
<1> USE ThreadKinds
<1> DEFINE Phases == {"unborn", "idle", "notify", "setFlag", "setFlagSpawn", "spawn",
                      "loop", "once", "pop", "waiting", "woken", "call", "ended"}
<1>1. /\ pc \in [Threads -> Phases] /\ queue \in Seq(Signals) /\ pushed \in Nat
      /\ held \in [Consumers -> Signals \cup {NoSignal}] /\ Len(queue) \in Nat
  BY DEF ThreadInvariant, TypeOK
<1>2. ASSUME NEW p \in Pushers, Push(p) PROVE SignalPlaces'
  <2>1. /\ pushed' = pushed + 1 /\ queue' = Append(queue, pushed + 1)
        /\ UNCHANGED <<held, done>>
    BY <1>2 DEF Push
  <2>2. Len(queue') = Len(queue) + 1
    BY <1>1, <2>1
  <2>3. Popped' = Popped
    BY <1>1, <2>1, <2>2 DEF Popped
  <2>4. \A k \in 1 .. Len(queue') : queue'[k] = pushed' - Len(queue') + k
    <3>1. \A k \in 1 .. Len(queue) : queue'[k] = queue[k]
      BY <1>1, <2>1
    <3>2. queue'[Len(queue) + 1] = pushed + 1
      BY <1>1, <2>1
    <3>3. pushed' - Len(queue') = pushed - Len(queue)
      BY <1>1, <2>1, <2>2
    <3>4. TAKE k \in 1 .. Len(queue')
    <3>5. CASE k = Len(queue) + 1
      BY <1>1, <3>2, <3>3, <3>5
    <3>6. CASE k \in 1 .. Len(queue)
      <4>1. queue[k] = pushed - Len(queue) + k
        BY <3>6 DEF SignalPlaces
      <4>2. QED
        BY <3>1, <3>3, <3>6, <4>1
    <3>7. QED
      BY <1>1, <2>2, <3>4, <3>5, <3>6
  <2>5. \A c \in Consumers : pc'[c] = pc[c]
    BY <1>1, <1>2 DEF Push, Goes
  <2>6. QED
    BY <1>1, <2>1, <2>2, <2>3, <2>4, <2>5 DEF SignalPlaces
<1>3. ASSUME NEW c \in Consumers, Take(c) PROVE SignalPlaces'
  <2>1. /\ queue # <<>> /\ queue' = Tail(queue) /\ pc[c] \in {"pop", "woken"}
        /\ held' = [held EXCEPT ![c] = Head(queue)] /\ pc' = [pc EXCEPT ![c] = "call"]
        /\ UNCHANGED <<pushed, done>>
    BY <1>3 DEF Take, HasMutex
  <2>2. /\ Len(queue') = Len(queue) - 1 /\ Len(queue) >= 1
        /\ \A k \in 1 .. Len(queue') : queue'[k] = queue[k + 1]
    BY <1>1, <2>1
  <2> DEFINE n == pushed - Len(queue) + 1
  <2>3. Head(queue) = n /\ n \in Nat /\ n # NoSignal
    <3>1. Head(queue) = queue[1] /\ 1 \in 1 .. Len(queue)
      BY <1>1, <2>1, <2>2
    <3>2. queue[1] = pushed - Len(queue) + 1 /\ Len(queue) <= pushed
      BY <3>1 DEF SignalPlaces
    <3>3. QED
      BY <1>1, <3>1, <3>2 DEF NoSignal
  <2> HIDE DEF n
  <2>4. Popped' = Popped \cup {n} /\ n \notin Popped
    BY <1>1, <2>1, <2>2 DEF Popped, SignalPlaces, n
  <2>5. /\ held'[c] = n /\ pc'[c] = "call"
        /\ \A d \in Consumers : d # c => held'[d] = held[d] /\ pc'[d] = pc[d]
    BY <1>1, <2>1, <2>3
  <2>6. held[c] = NoSignal
    BY <2>1 DEF SignalPlaces
  <2>7. /\ Len(queue') <= pushed'
        /\ \A k \in 1 .. Len(queue') : queue'[k] = pushed' - Len(queue') + k
    BY <1>1, <2>1, <2>2 DEF SignalPlaces
  <2>8. \A d \in Consumers : held'[d] # NoSignal => pc'[d] = "call" /\ held'[d] \in Popped' \ done'
    BY <2>1, <2>4, <2>5 DEF SignalPlaces
  <2>9. \A d, e \in Consumers : held'[d] = held'[e] /\ held'[d] # NoSignal => d = e
    BY <2>4, <2>5 DEF SignalPlaces
  <2>10. done' \subseteq Popped' /\ \A k \in Popped' : k \in done' \/ \E d \in Consumers : held'[d] = k
    <3>1. done' \subseteq Popped'
      BY <2>1, <2>4 DEF SignalPlaces
    <3>2. ASSUME NEW k \in Popped PROVE k \in done' \/ \E d \in Consumers : held'[d] = k
      <4>1. CASE k \in done
        BY <2>1, <4>1
      <4>2. CASE \E d \in Consumers : held[d] = k
        <5>1. PICK d \in Consumers : held[d] = k
          BY <4>2
        <5>2. k # NoSignal
          BY <1>1, <3>2 DEF Popped, NoSignal
        <5>3. d # c
          BY <2>6, <5>1, <5>2
        <5>4. QED
          BY <2>5, <5>1, <5>3
      <4>3. QED
        BY <3>2, <4>1, <4>2 DEF SignalPlaces
    <3>3. QED
      BY <2>4, <2>5, <3>1, <3>2
  <2>11. QED
    BY <2>7, <2>8, <2>9, <2>10 DEF SignalPlaces
<1>4. ASSUME NEW c \in Consumers, ExecuteSignal(c) PROVE SignalPlaces'
  <2>1. /\ pc[c] = "call" /\ done' = done \cup {held[c]}
        /\ held' = [held EXCEPT ![c] = NoSignal] /\ UNCHANGED <<queue, pushed>>
        /\ pc' = [pc EXCEPT ![c] = IF mode[c] = "run" THEN "loop" ELSE "once"]
    BY <1>4 DEF ExecuteSignal, Goes
  <2>2. held[c] # NoSignal /\ held[c] \in Popped /\ Popped' = Popped
    BY <2>1 DEF ThreadInvariant, FramesOfThreads, SignalPlaces, Popped
  <2>3. /\ held'[c] = NoSignal
        /\ \A d \in Consumers \ {c} : held'[d] = held[d] /\ pc'[d] = pc[d] /\ held[d] # held[c]
    BY <1>1, <2>1, <2>2 DEF SignalPlaces
  <2>4. QED
    BY <2>1, <2>2, <2>3 DEF SignalPlaces
<1>5. ASSUME NEW p \in Pushers, Notify(p) PROVE SignalPlaces'
  <2>1. ASSUME NEW c \in Waiting, pc' = [pc EXCEPT ![p] = "idle", ![c] = "woken"]
        PROVE  \A d \in Consumers : pc[d] = "call" => pc'[d] = "call"
    <3>1. c \in Consumers /\ pc[c] = "waiting"
      BY DEF Waiting
    <3>2. QED
      BY <1>1, <2>1, <3>1
  <2>2. CASE pc' = [pc EXCEPT ![p] = "idle"]
    BY <1>1, <1>5, <2>2, PlacesStay DEF Notify
  <2>3. QED
    BY <1>5, <2>1, <2>2, PlacesStay DEF Notify
<1>6. ASSUME NEW c \in Consumers,
             WakeUp(c) \/ Wait(c) \/ CallRun(c) \/ CallRunOnce(c) \/ SetFlag(c) \/ Loop(c) \/ Once(c)
      PROVE  SignalPlaces'
  <2>1. PICK next \in Phases : pc[c] # "call" /\ pc' = [pc EXCEPT ![c] = next]
    BY <1>6 DEF WakeUp, Wait, CallRun, CallRunOnce, SetFlag, Loop, Once, Goes, HasMutex
  <2>2. \A d \in Consumers : pc[d] = "call" => pc'[d] = "call"
    BY <1>1, <2>1
  <2>3. UNCHANGED <<queue, pushed, held, done>>
    BY <1>6 DEF WakeUp, Wait, CallRun, CallRunOnce, SetFlag, Loop, Once
  <2>4. QED
    BY <2>2, <2>3, PlacesStay
<1>7. ASSUME NEW c \in Consumers, Spawn(c) PROVE SignalPlaces'
  <2>1. pc[c] = "spawn" /\ UNCHANGED <<queue, pushed, held, done>>
    BY <1>7 DEF Spawn
  <2>2. \A d \in Consumers : pc[d] = "call" => pc'[d] = "call"
    BY <1>1, <1>7 DEF Spawn
  <2>3. QED
    BY <2>1, <2>2, PlacesStay
<1>8. CASE Stop
  BY <1>8, PlacesStay DEF Stop
<1>9. CASE UNCHANGED vars
  BY <1>9, PlacesStay DEF vars
<1>10. CASE Next
  <2>1. ASSUME NEW c \in Consumers, GoesOn(c) \/ WakeUp(c) PROVE SignalPlaces'
    BY <2>1, <1>3, <1>4, <1>6, <1>7 DEF GoesOn
  <2>2. QED
    BY <1>2, <1>5, <1>6, <1>8, <1>10, <2>1 DEF Next
<1>11. QED
  BY <1>9, <1>10

\* The places, counted.
LEMMA PlacesAreOnce == ThreadInvariant /\ SignalPlaces => EachSignalOnce
<1> SUFFICES ASSUME ThreadInvariant, SignalPlaces, NEW n \in 1 .. pushed
             PROVE  Cardinality({k \in DOMAIN queue : queue[k] = n})
                      + Cardinality({c \in Consumers : held[c] = n})
                      + (IF n \in done THEN 1 ELSE 0) = 1
  BY DEF EachSignalOnce
<1> DEFINE InQueue == {k \in DOMAIN queue : queue[k] = n}
           Holders == {c \in Consumers : held[c] = n}
<1>1. DOMAIN queue = 1 .. Len(queue) /\ Len(queue) \in Nat /\ pushed \in Nat /\ n # NoSignal
  BY DEF ThreadInvariant, TypeOK, NoSignal
<1>2. CASE n \in Popped
  <2>1. InQueue = {}
    BY <1>1, <1>2 DEF SignalPlaces, Popped
  <2>2. Cardinality(InQueue) = 0
    BY <2>1, FS_EmptySet
  <2>3. CASE n \in done
    <3>1. Holders = {}
      BY <1>1, <2>3 DEF SignalPlaces
    <3>2. Cardinality(Holders) = 0
      BY <3>1, FS_EmptySet
    <3>3. QED
      BY <2>2, <2>3, <3>2
  <2>4. CASE n \notin done
    <3>1. PICK c \in Consumers : held[c] = n
      BY <1>2, <2>4 DEF SignalPlaces
    <3>2. Holders = {c}
      BY <1>1, <3>1 DEF SignalPlaces
    <3>3. Cardinality(Holders) = 1
      BY <3>2, FS_Singleton
    <3>4. QED
      BY <2>2, <2>4, <3>3
  <2>5. QED
    BY <2>3, <2>4
<1>3. CASE n \notin Popped
  <2>1. n - (pushed - Len(queue)) \in 1 .. Len(queue)
    BY <1>1, <1>3 DEF SignalPlaces, Popped
  <2>2. InQueue = {n - (pushed - Len(queue))}
    BY <1>1, <2>1 DEF SignalPlaces
  <2>3. Cardinality(InQueue) = 1
    BY <2>2, FS_Singleton
  <2>4. Holders = {} /\ n \notin done
    BY <1>1, <1>3 DEF SignalPlaces
  <2>5. Cardinality(Holders) = 0
    BY <2>4, FS_EmptySet
  <2>6. QED
    BY <2>3, <2>4, <2>5
<1>4. QED
  BY <1>2, <1>3

-----------------------------------------------------------------------------
(* The theorems about the queue *)

\* While anybody waits, every signal in the queue has a notification to come or a woken
\* thread, however many threads emit and consume: notify_one after the unlock is enough.
THEOREM WakeupsReach == Spec => []NoWakeupIsLost
<1>1. Init => NoWakeupIsLost
  BY ThreadKinds DEF Init, NoWakeupIsLost, Waiting
<1>2. QED
  BY <1>1, WakeupStep, ThreadsSafe, PTL DEF Spec

\* Every signal that was pushed is in one place, however many consumers pop.
THEOREM SignalsOnce == Spec => []EachSignalOnce
<1>1. Init => SignalPlaces
  BY SignalsAssumption DEF Init, SignalPlaces, Popped
<1>2. Spec => []SignalPlaces
  BY <1>1, PlacesStep, ThreadsSafe, PTL DEF Spec
<1>3. QED
  BY <1>2, PlacesAreOnce, ThreadsSafe, PTL

\* The whole invariant, which the run checks as well.
THEOREM HandlerSafe == Spec => []HandlerInvariant
<1>1. Init => SignalPlaces
  BY SignalsAssumption DEF Init, SignalPlaces, Popped
<1>2. ThreadInvariant /\ SignalPlaces /\ NoWakeupIsLost => HandlerInvariant
  BY DEF HandlerInvariant
<1>3. QED
  BY <1>1, <1>2, PlacesStep, ThreadsSafe, WakeupsReach, PTL DEF Spec
=============================================================================
