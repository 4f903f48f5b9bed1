------------------------------ MODULE Immediate ------------------------------
(***************************************************************************)
(* setImmediate and clearImmediate of lib/timers.js: one queue, drained by *)
(* one repeating Timer that processImmediate serves, and the part of       *)
(* uv__run that decides how often it fires (external).                     *)
(***************************************************************************)
EXTENDS Integers, Sequences

CONSTANTS
  MaxImmediates   \* bound: calls of setImmediate

ASSUME BoundAssumption == MaxImmediates \in Nat

VARIABLES
  immediateQueue,  \* immediates, numbered in the order of creation
  started,         \* immediateQueue.started
  due,             \* ms of loop time until immediateTimer fires, or Stopped
  phase,           \* the loop is in uv__run_timers ("timers"), elsewhere ("poll"), "dead"
  running,         \* the immediate whose callback is running, 0 for none
  issued,          \* history: immediates created
  cleared,         \* history: immediates cleared before they ran
  ran,             \* history: immediates whose callback was called, in order
  fires,           \* history: immediates called in this iteration of the loop
  emptied          \* history: clearImmediate stopped the Timer in this iteration

vars == <<immediateQueue, started, due, phase, running, issued, cleared, ran, fires, emptied>>

Stopped == -1

\* immediateTimer is made by the first setImmediate; until then it is stopped.
Init ==
  /\ immediateQueue = <<>> /\ started = FALSE /\ due = Stopped
  /\ phase = "poll" /\ running = 0
  /\ issued = 0 /\ cleared = {} /\ ran = <<>> /\ fires = 0 /\ emptied = FALSE

-----------------------------------------------------------------------------
\* User code runs in I/O callbacks and ticks, in the callbacks of other timers,
\* and in the callbacks of immediates.
InUserCode == phase # "dead"

\* Mutant: starts a Timer that is running again.
setImmediate_Restarts ==
  /\ InUserCode /\ issued < MaxImmediates
  /\ started' = TRUE
  /\ due' = 0
  /\ immediateQueue' = Append(immediateQueue, issued + 1)
  /\ issued' = issued + 1
  /\ UNCHANGED <<phase, running, cleared, ran, fires, emptied>>

setImmediate ==
  /\ InUserCode /\ issued < MaxImmediates
  /\ started' = TRUE
  /\ due' = IF started THEN due ELSE 0
  /\ immediateQueue' = Append(immediateQueue, issued + 1)
  /\ issued' = issued + 1
  /\ UNCHANGED <<phase, running, cleared, ran, fires, emptied>>

Waiting(i) == \E k \in 1..Len(immediateQueue) : immediateQueue[k] = i

\* L.remove: the queue without the immediate, wherever it stands.
Others(i) ==
  IF ~Waiting(i) THEN immediateQueue
  ELSE LET at == CHOOSE k \in 1..Len(immediateQueue) : immediateQueue[k] = i
       IN  [k \in 1..(Len(immediateQueue) - 1) |-> IF k < at THEN immediateQueue[k] ELSE immediateQueue[k + 1]]

\* clearImmediate, of any immediate that was ever created.
clearImmediate(i) ==
  /\ InUserCode /\ i <= issued
  /\ immediateQueue' = Others(i)
  /\ IF immediateQueue' = <<>>
     THEN due' = Stopped /\ started' = FALSE
     ELSE UNCHANGED <<due, started>>
  /\ cleared' = IF immediateQueue' = immediateQueue THEN cleared ELSE cleared \cup {i}
  /\ emptied' = (emptied \/ immediateQueue' = <<>>)
  /\ UNCHANGED <<phase, running, issued, ran, fires>>

StopQueue == due' = Stopped /\ started' = FALSE

\* Mutant: loses the immediate behind the one it takes.
TakeImmediate_LosesOne ==
  /\ running' = Head(immediateQueue)
  /\ immediateQueue' = SubSeq(immediateQueue, 3, Len(immediateQueue))

TakeImmediate ==
  /\ running' = Head(immediateQueue)
  /\ immediateQueue' = Tail(immediateQueue)

\* uv__run_timers calls processImmediate, having restarted the repeating Timer.
processImmediate ==
  /\ phase = "timers" /\ running = 0 /\ due = 0
  /\ \/ /\ immediateQueue = <<>>
        /\ StopQueue
        /\ UNCHANGED <<immediateQueue, running, ran, fires>>
     \/ /\ immediateQueue # <<>>
        /\ TakeImmediate
        /\ ran' = Append(ran, running')
        /\ fires' = fires + 1
        /\ due' = 1
        /\ UNCHANGED started
  /\ UNCHANGED <<phase, issued, cleared, emptied>>

\* The callback returns, or throws and a listener of 'uncaughtException' takes it.
Returns ==
  /\ phase # "dead" /\ running # 0 /\ running' = 0
  /\ UNCHANGED <<immediateQueue, started, due, phase, issued, cleared, ran, fires, emptied>>

\* The callback throws and nobody listens.
Throws ==
  /\ phase # "dead" /\ running # 0 /\ phase' = "dead" /\ running' = 0
  /\ UNCHANGED <<immediateQueue, started, due, issued, cleared, ran, fires, emptied>>

\* uv__run: the clock is read (it may not have advanced), then every timer that is
\* due fires; timers that become due meanwhile fire in the same pass.
IterationBegins(advanced) ==
  /\ phase = "poll" /\ running = 0
  /\ phase' = "timers" /\ fires' = 0 /\ emptied' = FALSE
  /\ due' = IF advanced /\ due = 1 THEN 0 ELSE due
  /\ UNCHANGED <<immediateQueue, started, running, issued, cleared, ran>>

TimersEnd ==
  /\ phase = "timers" /\ running = 0 /\ due # 0
  /\ phase' = "poll"
  /\ UNCHANGED <<immediateQueue, started, due, running, issued, cleared, ran, fires, emptied>>

Next ==
  \/ setImmediate \/ \E i \in 1..MaxImmediates : clearImmediate(i)
  \/ processImmediate \/ Returns \/ Throws
  \/ \E advanced \in BOOLEAN : IterationBegins(advanced)
  \/ TimersEnd

Spec == Init /\ [][Next]_vars

\* The loop keeps iterating, and its clock advances (every iteration or every few).
Fairness ==
  /\ WF_vars(processImmediate) /\ WF_vars(Returns)
  /\ WF_vars(TimersEnd) /\ WF_vars(\E advanced \in BOOLEAN : IterationBegins(advanced))
  /\ SF_vars(IterationBegins(TRUE))

FairSpec == Spec /\ Fairness
-----------------------------------------------------------------------------
TypeOK ==
  /\ immediateQueue \in Seq(Nat) /\ started \in BOOLEAN /\ due \in {Stopped, 0, 1}
  /\ phase \in {"timers", "poll", "dead"} /\ running \in Nat
  /\ issued \in Nat /\ cleared \subseteq Nat /\ ran \in Seq(Nat) /\ fires \in Nat /\ emptied \in BOOLEAN

\* A waiting immediate is never stranded: the Timer runs exactly while the queue is
\* "started", and a queue that is not is empty, whatever callbacks set
\* and clear.
Armed ==
  /\ started <=> due # Stopped
  /\ immediateQueue # <<>> => started

\* Immediates "are popped off the queue once per loop iteration", so that I/O is not
\* starved, except where clearImmediate has emptied the queue in between: then the
\* next setImmediate starts the Timer with timeout 0, due in the same iteration.
OncePerIteration == fires <= 1 \/ emptied

\* "Immediates are queued in the order created": callbacks run in that order, each
\* at most once, and one that was cleared before its turn never runs.
InOrder ==
  /\ \A j, k \in 1..Len(ran) : j < k => ran[j] < ran[k]
  /\ \A k \in 1..Len(ran) : ran[k] \notin cleared
  /\ \A j \in 1..Len(ran), k \in 1..Len(immediateQueue) : ran[j] < immediateQueue[k]

\* An immediate is a promise: every one that is created runs, unless it is cleared
\* first or a callback throws and the process ends.
EveryImmediateRuns ==
  \A i \in 1..MaxImmediates :
    issued >= i ~> (\E k \in 1..Len(ran) : ran[k] = i) \/ i \in cleared \/ phase = "dead"

\* What setImmediate and clearImmediate leave, called from anywhere: a queue that is armed, whose
\* immediates run in order and, unless it was emptied in between, one per iteration.
ImmediatesSound == Armed /\ InOrder /\ OncePerIteration
=============================================================================
