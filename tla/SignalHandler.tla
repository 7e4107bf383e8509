--------------------------- MODULE SignalHandler ---------------------------
(* NQSignals: SignalHandler and the tools::ConcurrentQueue it takes signals from.

   Threads push signals; others call run, runOnce and stop, in any order and at
   once. A step is what a thread does under the queue's mutex, between two uses of
   it, or to the atomic run flag. The condition variable has its standard meaning:
   notify_one wakes one waiting thread if there is one, a wait may also end by
   itself, and a woken thread has to get the mutex again like any other.

   Signals are numbered in the order of their push; what a signal calls is not
   modelled. Operators whose comment begins with Fault are not part of the model:
   each is a plausible slip in the operator below it. *)
EXTENDS Integers, Sequences, FiniteSets

CONSTANTS
  Pushers,      \* threads that emit signals
  Callers,      \* threads that call run and runOnce
  Worker,       \* the thread run starts: SignalHandler::_thread
  MaxSignals    \* bound: signals pushed in a behaviour

ASSUME SignalsAssumption == MaxSignals \in Nat
ASSUME ThreadsAssumption ==
  /\ IsFiniteSet(Pushers) /\ IsFiniteSet(Callers)
  /\ Worker \notin Callers /\ Pushers \cap (Callers \cup {Worker}) = {}

Consumers == Callers \cup {Worker}
Threads == Pushers \cup Consumers
Signals == 1 .. MaxSignals
NoSignal == 0

VARIABLES
  queue,        \* ConcurrentQueue::_queue
  runFlag,      \* SignalHandler::_runFlag
  pc,           \* where each thread is
  mode,         \* the runImpl a consumer is in: that of run or that of runOnce
  held,         \* the signal a consumer has popped and not executed
  done,         \* signals that were executed and deleted
  pushed,       \* signals pushed so far
  terminated,   \* std::terminate was called
  late,         \* history: signals a runner popped since the flag was cleared
  robbed        \* history: callers of runOnce whose signal another consumer popped

histVars == <<late, robbed>>
vars == <<queue, runFlag, pc, mode, held, done, pushed, terminated, histVars>>

Init ==
  /\ queue = <<>>
  /\ runFlag = FALSE
  /\ pc = [t \in Threads |-> IF t = Worker THEN "unborn" ELSE "idle"]
  /\ mode = [c \in Consumers |-> "run"]
  /\ held = [c \in Consumers |-> NoSignal]
  /\ done = {}
  /\ pushed = 0
  /\ terminated = FALSE
  /\ late = [c \in Consumers |-> 0]
  /\ robbed = {}

Goes(t, from, to) == ~terminated /\ pc[t] = from /\ pc' = [pc EXCEPT ![t] = to]

Waiting == {c \in Consumers : pc[c] = "waiting"}
Woken == {c \in Consumers : pc[c] = "woken"}
Notifying == {p \in Pushers : pc[p] = "notify"}

-----------------------------------------------------------------------------
(* ConcurrentQueue *)

\* Fault: only the first signal of a batch is announced.
PushToEmptyNotifies(p) ==
  /\ Goes(p, "idle", IF queue = <<>> THEN "notify" ELSE "idle")
  /\ pushed < MaxSignals
  /\ pushed' = pushed + 1
  /\ queue' = Append(queue, pushed')
  /\ UNCHANGED <<runFlag, mode, held, done, terminated, histVars>>

\* push up to the unlock.
Push(p) ==
  /\ Goes(p, "idle", "notify")
  /\ pushed < MaxSignals
  /\ pushed' = pushed + 1
  /\ queue' = Append(queue, pushed')
  /\ UNCHANGED <<runFlag, mode, held, done, terminated, histVars>>

\* notify_one, after the unlock.
Notify(p) ==
  /\ ~terminated /\ pc[p] = "notify"
  /\ \/ \E c \in Waiting : pc' = [pc EXCEPT ![p] = "idle", ![c] = "woken"]
     \/ Waiting = {} /\ pc' = [pc EXCEPT ![p] = "idle"]
  /\ UNCHANGED <<queue, runFlag, mode, held, done, pushed, terminated, histVars>>

\* A wait that ends by itself.
WakeUp(c) ==
  /\ Goes(c, "waiting", "woken")
  /\ UNCHANGED <<queue, runFlag, mode, held, done, pushed, terminated, histVars>>

HasMutex(c) == ~terminated /\ pc[c] \in {"pop", "woken"}

\* What the histories record of a pop by c.
Recorded(c) ==
  /\ late' = [late EXCEPT ![c] = IF mode[c] = "run" /\ ~runFlag THEN @ + 1 ELSE @]
  /\ robbed' = robbed \cup {d \in Consumers \ {c} : pc[d] = "pop" /\ mode[d] = "once"}

\* Fault: the signal is copied under the mutex and removed by nobody.
TakeCopies(c) ==
  /\ HasMutex(c)
  /\ queue # <<>>
  /\ held' = [held EXCEPT ![c] = Head(queue)]
  /\ pc' = [pc EXCEPT ![c] = "call"]
  /\ Recorded(c)
  /\ UNCHANGED <<queue, runFlag, mode, done, pushed, terminated>>

\* pop when there is something.
Take(c) ==
  /\ HasMutex(c)
  /\ queue # <<>>
  /\ held' = [held EXCEPT ![c] = Head(queue)]
  /\ queue' = Tail(queue)
  /\ pc' = [pc EXCEPT ![c] = "call"]
  /\ Recorded(c)
  /\ UNCHANGED <<runFlag, mode, done, pushed, terminated>>

\* pop when there is nothing: the mutex is released and the wait begun in one step.
Wait(c) ==
  /\ HasMutex(c)
  /\ queue = <<>>
  /\ pc' = [pc EXCEPT ![c] = "waiting"]
  /\ UNCHANGED <<queue, runFlag, mode, held, done, pushed, terminated, histVars>>

-----------------------------------------------------------------------------
(* SignalHandler *)

\* run finds the flag clear; in a thread of its own or in the caller's.
CallRun(c) ==
  /\ ~runFlag
  /\ \E next \in {"setFlag", "setFlagSpawn"} : Goes(c, "idle", next)
  /\ UNCHANGED <<queue, runFlag, mode, held, done, pushed, terminated, histVars>>

\* It sets the flag, another step: a second caller may have found it clear too.
SetFlag(c) ==
  /\ Goes(c, "setFlag", "loop") \/ Goes(c, "setFlagSpawn", "spawn")
  /\ runFlag' = TRUE
  /\ mode' = [mode EXCEPT ![c] = "run"]
  /\ UNCHANGED <<queue, held, done, pushed, terminated, histVars>>

\* Fault: the thread is not started when there was one before.
SpawnsOnce(c) ==
  /\ ~terminated /\ pc[c] = "spawn"
  /\ pc' = [pc EXCEPT ![c] = "idle",
                      ![Worker] = IF @ = "unborn" THEN "loop" ELSE @]
  /\ UNCHANGED <<queue, runFlag, mode, held, done, pushed, terminated, histVars>>

\* A thread is assigned to _thread. Nobody joins the one before: if there was one,
\* it is joinable, ended or not, and the assignment calls std::terminate.
Spawn(c) ==
  /\ ~terminated /\ pc[c] = "spawn"
  /\ \/ /\ pc[Worker] = "unborn"
        /\ pc' = [pc EXCEPT ![c] = "idle", ![Worker] = "loop"]
        /\ UNCHANGED terminated
     \/ /\ pc[Worker] # "unborn"
        /\ terminated' = TRUE
        /\ UNCHANGED pc
  /\ UNCHANGED <<queue, runFlag, mode, held, done, pushed, histVars>>

\* Fault: the flag is not looked at between two signals.
LoopAlways(c) ==
  /\ Goes(c, "loop", "pop")
  /\ UNCHANGED <<queue, runFlag, mode, held, done, pushed, terminated, histVars>>

\* while (_runFlag)
Loop(c) ==
  /\ Goes(c, "loop", IF runFlag THEN "pop" ELSE IF c = Worker THEN "ended" ELSE "idle")
  /\ UNCHANGED <<queue, runFlag, mode, held, done, pushed, terminated, histVars>>

CallRunOnce(c) ==
  /\ Goes(c, "idle", "once")
  /\ mode' = [mode EXCEPT ![c] = "once"]
  /\ robbed' = robbed \ {c}
  /\ UNCHANGED <<queue, runFlag, held, done, pushed, terminated, late>>

\* Fault: runOnce pops as run does.
OncePops(c) ==
  /\ Goes(c, "once", "pop")
  /\ robbed' = robbed \ {c}
  /\ UNCHANGED <<queue, runFlag, mode, held, done, pushed, terminated, late>>

\* while (_queue.empty() == false)
Once(c) ==
  /\ Goes(c, "once", IF queue # <<>> THEN "pop" ELSE "idle")
  /\ robbed' = robbed \ {c}
  /\ UNCHANGED <<queue, runFlag, mode, held, done, pushed, terminated, late>>

\* executeSignal, and back to the loop it was called from.
ExecuteSignal(c) ==
  /\ Goes(c, "call", IF mode[c] = "run" THEN "loop" ELSE "once")
  /\ done' = done \cup {held[c]}
  /\ held' = [held EXCEPT ![c] = NoSignal]
  /\ UNCHANGED <<queue, runFlag, mode, pushed, terminated, histVars>>

\* stop, from any thread, a signal's own call included.
Stop ==
  /\ ~terminated /\ runFlag
  /\ runFlag' = FALSE
  /\ late' = [c \in Consumers |-> 0]
  /\ UNCHANGED <<queue, pc, mode, held, done, pushed, terminated, robbed>>

-----------------------------------------------------------------------------

\* What a thread inside a call of this library does next.
GoesOn(c) ==
  \/ Take(c) \/ Wait(c) \/ ExecuteSignal(c)
  \/ SetFlag(c) \/ Spawn(c) \/ Loop(c) \/ Once(c)

Next ==
  \/ \E p \in Pushers : Push(p) \/ Notify(p)
  \/ \E c \in Callers : CallRun(c) \/ CallRunOnce(c)
  \/ \E c \in Consumers : GoesOn(c) \/ WakeUp(c)
  \/ Stop

Spec == Init /\ [][Next]_vars

\* Threads that are not blocked are scheduled. Nobody has to call anything.
Fairness ==
  /\ \A p \in Pushers : WF_vars(Notify(p))
  /\ \A c \in Consumers : WF_vars(GoesOn(c))

FairSpec == Spec /\ Fairness

-----------------------------------------------------------------------------
(* Properties *)

TypeOK ==
  /\ queue \in Seq(Signals)
  /\ runFlag \in BOOLEAN
  /\ pc \in [Threads -> {"unborn", "idle", "notify", "setFlag", "setFlagSpawn", "spawn",
                         "loop", "once", "pop", "waiting", "woken", "call", "ended"}]
  /\ mode \in [Consumers -> {"run", "once"}]
  /\ held \in [Consumers -> Signals \cup {NoSignal}]
  /\ done \subseteq Signals
  /\ pushed \in 0 .. MaxSignals
  /\ terminated \in BOOLEAN
  /\ late \in [Consumers -> Nat]
  /\ robbed \subseteq Consumers

\* Every signal that was pushed is in one place: once in the queue, or with one
\* consumer, or executed. None is lost, executed twice or deleted twice, whoever
\* pops.
EachSignalOnce ==
  \A n \in 1 .. pushed :
    Cardinality({k \in DOMAIN queue : queue[k] = n})
      + Cardinality({c \in Consumers : held[c] = n})
      + (IF n \in done THEN 1 ELSE 0) = 1

\* While anybody waits, there is for every signal in the queue a notification to
\* come or a thread already woken: no signal stays behind with a consumer asleep,
\* though notify_one is called after the unlock and wakes one thread only.
NoWakeupIsLost ==
  Waiting # {} => Len(queue) <= Cardinality(Notifying) + Cardinality(Woken)

\* The flag is set only while a thread runs the handler, or is about to: a call of
\* run that is refused because of the flag is refused for a reason.
FlagMeansRunner ==
  runFlag => \/ terminated
             \/ \E c \in Consumers :
                  \/ pc[c] = "spawn"
                  \/ mode[c] = "run" /\ pc[c] \in {"loop", "pop", "waiting", "woken", "call"}

\* A runner executes one signal at most after stop: the one whose pop it was in.
OneSignalAfterStop == \A c \in Consumers : late[c] <= 1

\* runOnce blocks only if another consumer popped the signal it had seen.
RunOnceBlocksOnlyIfRobbed ==
  \A c \in Consumers : mode[c] = "once" /\ pc[c] \in {"waiting", "woken"} => c \in robbed

\* A signal pushed while the handler runs is executed, or the handler is stopped.
ExecutedOrStopped ==
  \A n \in Signals :
    (runFlag /\ n <= pushed) ~> (n \in done \/ ~runFlag \/ terminated)
=============================================================================
