------------------------------ MODULE NextTick ------------------------------
(***************************************************************************)
(* The tick queue of src/node.js (process.nextTick, process._tickCallback, *)
(* process._makeCallback), the idle handle that drives it from libuv       *)
(* (Tick, Spin, StartTickSpinner in src/node.cc), the C++ boundary through *)
(* which libuv enters JavaScript (MakeCallback, FatalException) and the    *)
(* end of the process (EmitExit, process.exit).                            *)
(*                                                                         *)
(* JavaScript runs on one thread.  What interleaves is user code: each     *)
(* callback may queue tocks, throw, call into C++ that calls MakeCallback  *)
(* again, or exit.  The call stack is therefore state: one frame for each  *)
(* activation the code below distinguishes.                                *)
(***************************************************************************)
EXTENDS Integers, Sequences

CONSTANTS
  maxTickDepth,  \* process.maxTickDepth, which user code may set to any number
  MaxTocks,      \* bound: how many callbacks are ever passed to nextTick
  MaxFrames,     \* bound: depth of the call stack
  Reentrant      \* may C++ called from JavaScript call MakeCallback?

ASSUME DepthAssumption == maxTickDepth \in Int
ASSUME BoundAssumption == MaxTocks \in Nat /\ MaxFrames \in Nat
ASSUME ReentrantAssumption == Reentrant \in BOOLEAN

VARIABLES
  nextTickQueue,  \* the tocks queued, numbered in the order of nextTick calls
  nextTickIndex,  \* how many of them the current pass has taken
  inTick,         \* a _tickCallback is draining the queue
  tickDepth,      \* passes made since the depth was last reset
  need_tick_cb,   \* the spinner is active: Tick will run on the next iteration
  exiting,        \* process._exiting
  stack,          \* the call stack, oldest frame first
  phase,          \* uv_run "running", "over" (EmitExit), or the process is "dead"
  issued,         \* history: tocks queued so far
  taken           \* history: tocks taken from the queue, in order

queueVars == <<nextTickQueue, nextTickIndex, inTick, tickDepth>>
vars == <<nextTickQueue, nextTickIndex, inTick, tickDepth, need_tick_cb,
          exiting, stack, phase, issued, taken>>

(***************************************************************************)
(* Frames.  "fn": the callback _makeCallback applies.  "loop": the body of *)
(* _tickCallback between two tocks, with its local nextTickLength.  "tock":*)
(* the same activation while callback() runs.  "handler": the listeners of *)
(* 'uncaughtException'.  "exit": the listeners of 'exit'.                  *)
(***************************************************************************)
Frame(at, len) == [at |-> at, len |-> len]
FrameAt == {"fn", "loop", "tock", "handler", "exit"}
TickAt == {"loop", "tock"}

Top == stack[Len(stack)]
Pop == SubSeq(stack, 1, Len(stack) - 1)
At(where) == phase # "dead" /\ stack # <<>> /\ Top.at = where
InUserCode == phase # "dead" /\ stack # <<>> /\ Top.at # "loop"
InLoop == phase = "running" /\ stack = <<>>

Drop(s, n) == SubSeq(s, n + 1, Len(s))

\* After Load: startup has passed Module.runMain to nextTick, or (REPL, debugger,
\* --eval) has queued nothing.
Init ==
  /\ nextTickQueue \in {<<>>, <<1>>} /\ nextTickIndex = 0
  /\ inTick = FALSE /\ tickDepth = 0
  /\ need_tick_cb = (nextTickQueue # <<>>) /\ exiting = FALSE
  /\ stack = <<>> /\ phase = "running"
  /\ issued = Len(nextTickQueue) /\ taken = <<>>

-----------------------------------------------------------------------------
\* Mutant: forgets to ask for another tick when tocks remain.
tickDone_NoSpin(depth, need) ==
  /\ tickDepth' = depth
  /\ nextTickQueue' = Drop(nextTickQueue, nextTickIndex)
  /\ nextTickIndex' = 0
  /\ inTick' = FALSE
  /\ need_tick_cb' = need

\* Mutant: leaves the tocks already run in the queue.
tickDone_NoSplice(depth, need) ==
  /\ tickDepth' = depth
  /\ nextTickQueue' = nextTickQueue
  /\ nextTickIndex' = 0
  /\ inTick' = FALSE
  /\ need_tick_cb' = (need \/ nextTickQueue' # <<>>)

\* tickDone: drop what was run, and keep the loop spinning for what was not.
\* "need" is the spinner's state at the call.
tickDone(depth, need) ==
  /\ tickDepth' = depth
  /\ nextTickQueue' = Drop(nextTickQueue, nextTickIndex)
  /\ nextTickIndex' = 0
  /\ inTick' = FALSE
  /\ need_tick_cb' = (need \/ nextTickQueue' # <<>>)

\* Mutant: the depth check is off by one.
TooDeep_OffByOne == tickDepth > maxTickDepth

TooDeep == tickDepth >= maxTickDepth

StartsTicking == nextTickQueue # <<>> /\ ~inTick

\* Entering process._tickCallback(fromSpinner) from the frames "below".
tickCallback(fromSpinner, need, below) ==
  LET depth == IF TooDeep THEN 0 ELSE tickDepth
  IN  \/ /\ TooDeep /\ ~fromSpinner
         /\ need_tick_cb' = (need \/ nextTickQueue # <<>>)
         /\ stack' = below
         /\ UNCHANGED queueVars
      \/ /\ fromSpinner \/ ~TooDeep
         /\ nextTickQueue = <<>>
         /\ tickDone(0, need)
         /\ stack' = below
      \/ /\ fromSpinner \/ ~TooDeep
         /\ nextTickQueue # <<>> /\ ~StartsTicking
         /\ tickDepth' = depth
         /\ need_tick_cb' = need
         /\ stack' = below
         /\ UNCHANGED <<nextTickQueue, nextTickIndex, inTick>>
      \/ /\ fromSpinner \/ ~TooDeep
         /\ StartsTicking
         /\ inTick' = TRUE
         /\ tickDepth' = depth + 1
         /\ need_tick_cb' = need
         /\ stack' = Append(below, Frame("loop", Len(nextTickQueue)))
         /\ UNCHANGED <<nextTickQueue, nextTickIndex>>

-----------------------------------------------------------------------------
\* MakeCallback applies a callback: from the event loop, or, where C++ that
\* JavaScript called does so, on top of the frames of its caller.
MakeCallback ==
  /\ InLoop \/ (Reentrant /\ InUserCode)
  /\ Len(stack) < MaxFrames
  /\ stack' = Append(stack, Frame("fn", 0))
  /\ UNCHANGED <<queueVars, need_tick_cb, exiting, phase, issued, taken>>

\* The callback returns to _makeCallback, which processes the ticks.
CallbackReturns ==
  /\ At("fn")
  /\ tickCallback(FALSE, need_tick_cb, Pop)
  /\ UNCHANGED <<exiting, phase, issued, taken>>

\* Mutant: Tick does not tell _tickCallback that it is the spinner.
Spin_LikeCallback ==
  /\ InLoop /\ need_tick_cb
  /\ tickCallback(FALSE, FALSE, <<>>)
  /\ UNCHANGED <<exiting, phase, issued, taken>>

\* The idle handle fires: Tick stops the spinner and calls _tickCallback(true).
Spin ==
  /\ InLoop /\ need_tick_cb
  /\ tickCallback(TRUE, FALSE, <<>>)
  /\ UNCHANGED <<exiting, phase, issued, taken>>

\* process.nextTick.  It does nothing once the process is exiting.
nextTick ==
  /\ InUserCode /\ ~exiting /\ issued < MaxTocks
  /\ nextTickQueue' = Append(nextTickQueue, issued + 1)
  /\ need_tick_cb' = TRUE
  /\ issued' = issued + 1
  /\ UNCHANGED <<nextTickIndex, inTick, tickDepth, exiting, stack, phase, taken>>

\* Take the next tock.  Its callback runs, unless its domain was disposed
\* since it was queued.
TakeTock ==
  /\ At("loop") /\ nextTickIndex < Top.len
  /\ nextTickIndex' = nextTickIndex + 1
  /\ taken' = Append(taken, nextTickQueue[nextTickIndex + 1])
  /\ \E at \in TickAt : stack' = Append(Pop, Frame(at, Top.len))
  /\ UNCHANGED <<nextTickQueue, inTick, tickDepth, need_tick_cb, exiting,
                 phase, issued>>

TockReturns ==
  /\ At("tock")
  /\ stack' = Append(Pop, Frame("loop", Top.len))
  /\ UNCHANGED <<queueVars, need_tick_cb, exiting, phase, issued, taken>>

AnotherPass == tickDepth < maxTickDepth /\ Drop(nextTickQueue, nextTickIndex) # <<>>

\* The end of a pass: splice, then another pass or tickDone.
PassEnds ==
  /\ At("loop") /\ nextTickIndex >= Top.len
  /\ \/ /\ AnotherPass
        /\ nextTickQueue' = Drop(nextTickQueue, nextTickIndex)
        /\ nextTickIndex' = 0
        /\ tickDepth' = tickDepth + 1
        /\ stack' = Append(Pop, Frame("loop", Len(nextTickQueue')))
        /\ UNCHANGED <<inTick, need_tick_cb>>
     \/ /\ ~AnotherPass
        /\ tickDone(0, need_tick_cb)
        /\ stack' = Pop
  /\ UNCHANGED <<exiting, phase, issued, taken>>

\* FatalException, after the exception has reached the C++ boundary under the
\* top frame: run the listeners of 'uncaughtException', or exit without any.
FatalException ==
  \/ stack' = Append(Pop, Frame("handler", 0)) /\ UNCHANGED phase
  \/ stack' = <<>> /\ phase' = "dead"

\* Mutant: the finally block resets nothing when the callback threw.
TockThrows_NoFinally ==
  /\ At("tock")
  /\ FatalException
  /\ UNCHANGED <<queueVars, need_tick_cb, exiting, issued, taken>>

\* A tock throws: the finally block keeps tickDepth, then the error goes up.
TockThrows ==
  /\ At("tock")
  /\ tickDone(tickDepth, need_tick_cb)
  /\ FatalException
  /\ UNCHANGED <<exiting, issued, taken>>

\* A callback throws: _makeCallback never reaches _tickCallback.
CallbackThrows ==
  /\ At("fn")
  /\ FatalException
  /\ UNCHANGED <<queueVars, need_tick_cb, exiting, issued, taken>>

HandlerReturns ==
  /\ At("handler")
  /\ stack' = Pop
  /\ UNCHANGED <<queueVars, need_tick_cb, exiting, phase, issued, taken>>

HandlerThrows ==
  /\ At("handler")
  /\ stack' = <<>> /\ phase' = "dead"
  /\ UNCHANGED <<queueVars, need_tick_cb, exiting, issued, taken>>

\* uv_run returns when no handle is active, the spinner included, and Start
\* calls EmitExit.
LoopEnds ==
  /\ InLoop /\ ~need_tick_cb
  /\ phase' = "over" /\ exiting' = TRUE
  /\ stack' = <<Frame("exit", 0)>>
  /\ UNCHANGED <<queueVars, need_tick_cb, issued, taken>>

\* process.exit in user code: the listeners of 'exit' run on top of the
\* caller, unless the process is exiting already.
ProcessExit ==
  /\ InUserCode /\ Len(stack) < MaxFrames
  /\ exiting' = TRUE
  /\ \/ ~exiting /\ stack' = Append(stack, Frame("exit", 0)) /\ UNCHANGED phase
     \/ exiting /\ stack' = <<>> /\ phase' = "dead"
  /\ UNCHANGED <<queueVars, need_tick_cb, issued, taken>>

\* The listeners of 'exit' return, and the process ends (reallyExit, or the
\* end of Start).
ExitReturns ==
  /\ At("exit")
  /\ stack' = <<>> /\ phase' = "dead"
  /\ UNCHANGED <<queueVars, need_tick_cb, exiting, issued, taken>>

\* A listener of 'exit' throws: EmitExit hands the error to FatalException;
\* process.exit lets it propagate into its caller.
ExitThrows ==
  /\ At("exit")
  /\ \/ Len(stack) = 1 /\ FatalException
     \/ Len(stack) > 1 /\ stack' = Pop /\ UNCHANGED phase
  /\ UNCHANGED <<queueVars, need_tick_cb, exiting, issued, taken>>

\* After EmitExit survived a throwing listener, Start still returns.
StartReturns ==
  /\ phase = "over" /\ stack = <<>>
  /\ phase' = "dead"
  /\ UNCHANGED <<queueVars, need_tick_cb, exiting, stack, issued, taken>>

Next ==
  \/ MakeCallback \/ CallbackReturns \/ CallbackThrows
  \/ Spin \/ TakeTock \/ TockReturns \/ TockThrows \/ PassEnds
  \/ nextTick \/ HandlerReturns \/ HandlerThrows
  \/ LoopEnds \/ ProcessExit \/ ExitReturns \/ ExitThrows \/ StartReturns

Spec == Init /\ [][Next]_vars

(***************************************************************************)
(* Fairness.  _tickCallback's own steps are sequential code.  Spin is      *)
(* strongly fair: libuv runs idle handles on every iteration, between any  *)
(* two events.  User code at every depth of the stack returns or throws    *)
(* (it may call into C++ any number of times first, hence strong).         *)
(***************************************************************************)
UserCodeReturns(depth) ==
  /\ Len(stack) = depth
  /\ CallbackReturns \/ TockReturns \/ HandlerReturns \/ ExitReturns

Fairness ==
  /\ WF_vars(TakeTock) /\ WF_vars(PassEnds) /\ WF_vars(StartReturns)
  /\ SF_vars(Spin)
  /\ \A depth \in 1..MaxFrames : SF_vars(UserCodeReturns(depth))

FairSpec == Spec /\ Fairness
-----------------------------------------------------------------------------
TypeOK ==
  /\ nextTickQueue \in Seq(Nat)
  /\ nextTickIndex \in Nat
  /\ inTick \in BOOLEAN
  /\ tickDepth \in Nat
  /\ need_tick_cb \in BOOLEAN
  /\ exiting \in BOOLEAN
  /\ stack \in Seq([at : FrameAt, len : Nat])
  /\ phase \in {"running", "over", "dead"}
  /\ issued \in Nat
  /\ taken \in Seq(Nat)

IsTicker(i) == i \in 1..Len(stack) /\ stack[i].at \in TickAt

\* Draining is exclusive: inTick is set exactly while one activation of
\* _tickCallback is on the stack, and the part of the queue that activation
\* counted (nextTickLength, never 0) is still there: no nested call spliced it.
OneTicker ==
  phase # "dead" =>
    /\ inTick <=> \E i \in 1..Len(stack) : IsTicker(i)
    /\ \A i, j \in 1..Len(stack) : IsTicker(i) /\ IsTicker(j) => i = j
    /\ \A i \in 1..Len(stack) : IsTicker(i) =>
         /\ nextTickIndex <= stack[i].len /\ stack[i].len <= Len(nextTickQueue)
         /\ stack[i].len > 0

\* Every callback passed to process.nextTick is taken exactly once and in the
\* order of the calls, whatever throws, nests or hits maxTickDepth: what was
\* taken followed by what is still queued is 1, 2, ..., issued.
TickOrder ==
  /\ \A i \in 1..Len(taken) : taken[i] = i
  /\ phase # "dead" =>
       /\ nextTickIndex <= Len(nextTickQueue)
       /\ issued = Len(taken) + Len(nextTickQueue) - nextTickIndex
       /\ \A i \in 1..Len(nextTickQueue) :
            nextTickQueue[i] = Len(taken) - nextTickIndex + i

\* Tocks never wait for an unrelated event: whenever the queue is not being
\* drained and is not empty, the spinner keeps the event loop going.
SpinnerArmed ==
  phase # "dead" /\ ~inTick /\ nextTickQueue # <<>> => need_tick_cb

\* The event loop does not end, and 'exit' is not emitted by EmitExit, while a
\* callback passed to process.nextTick is still waiting.
DrainedBeforeExit == phase = "over" => Len(taken) = issued

\* Recursive nextTick cannot starve I/O: one drain makes at most maxTickDepth
\* passes (one, when maxTickDepth is not positive).
DepthBounded == tickDepth <= (IF maxTickDepth > 1 THEN maxTickDepth ELSE 1)

\* Every callback passed to nextTick is eventually taken, also when other tocks
\* throw and recursion hits maxTickDepth, unless the process ends.
EveryTockTaken ==
  \A t \in 1..MaxTocks : (issued >= t) ~> (Len(taken) >= t \/ phase = "dead")
=============================================================================
