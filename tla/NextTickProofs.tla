--------------------------- MODULE NextTickProofs ---------------------------
(***************************************************************************)
(* Proofs about NextTick, for every maxTickDepth and every bound: the tick *)
(* queue is drained by one activation at a time, in order and exactly once,*)
(* never waits without the spinner, and is empty when the loop ends.       *)
(***************************************************************************)
EXTENDS NextTick, SequenceTheorems, TLAPS

Frames == [at : FrameAt, len : Nat]

-----------------------------------------------------------------------------
\* What splice(0, n) leaves of an array.
LEMMA DropFacts ==
  ASSUME NEW s \in Seq(Nat), NEW n \in Nat, n <= Len(s)
  PROVE  /\ Drop(s, n) \in Seq(Nat)
         /\ Len(Drop(s, n)) = Len(s) - n
         /\ \A i \in 1..(Len(s) - n) : Drop(s, n)[i] = s[n + i]
<1>1. \A i \in (n + 1)..Len(s) : s[i] \in Nat
  BY ElementOfSeq
<1> QED BY <1>1, SubSeqProperties DEF Drop

\* Leaving the top frame of a stack.
Front(s) == SubSeq(s, 1, Len(s) - 1)

LEMMA FrontFacts ==
  ASSUME NEW s \in Seq(Frames), s # <<>>
  PROVE  /\ Len(s) \in Nat /\ Len(s) >= 1
         /\ s[Len(s)] \in Frames
         /\ Front(s) \in Seq(Frames)
         /\ Len(Front(s)) = Len(s) - 1
         /\ \A i \in 1..(Len(s) - 1) : Front(s)[i] = s[i]
<1>1. Len(s) \in Nat /\ Len(s) >= 1
  BY EmptySeq, LenProperties
<1>2. \A i \in 1..(Len(s) - 1) : s[i] \in Frames
  BY <1>1, ElementOfSeq
<1>3. s[Len(s)] \in Frames
  BY <1>1, ElementOfSeq
<1>4. /\ Front(s) \in Seq(Frames)
      /\ Len(Front(s)) = IF 1 <= Len(s) - 1 THEN Len(s) - 1 - 1 + 1 ELSE 0
      /\ \A i \in 1..(Len(s) - 1 - 1 + 1) : Front(s)[i] = s[1 + i - 1]
  BY <1>1, <1>2, SubSeqProperties DEF Front
<1>5. Len(Front(s)) = Len(s) - 1
  <2> PICK n \in Nat : n = Len(s) /\ n >= 1
    BY <1>1
  <2>1. Len(Front(s)) = IF 1 <= n - 1 THEN n - 1 - 1 + 1 ELSE 0
    BY <1>4
  <2> QED BY <2>1
<1>6. ASSUME NEW i \in 1..(Len(s) - 1) PROVE Front(s)[i] = s[i]
  <2>1. Front(s)[i] = s[1 + i - 1]
    BY <1>1, <1>4
  <2>2. 1 + i - 1 = i
    BY <1>1
  <2> QED BY <2>1, <2>2
<1> QED BY <1>1, <1>3, <1>4, <1>5, <1>6

\* Entering a frame.
LEMMA PushFacts ==
  ASSUME NEW s \in Seq(Frames), NEW f \in Frames
  PROVE  /\ Append(s, f) \in Seq(Frames)
         /\ Len(s) \in Nat
         /\ Len(Append(s, f)) = Len(s) + 1
         /\ Append(s, f)[Len(s) + 1] = f
         /\ \A i \in 1..Len(s) : Append(s, f)[i] = s[i]
  BY AppendProperties, LenProperties

(***************************************************************************)
(* OneTicker as a relation between a stack, inTick, nextTickIndex and the  *)
(* length of the queue, and what each kind of stack step does to it.       *)
(***************************************************************************)
Drain(s, in, idx, len) ==
  /\ in <=> \E i \in 1..Len(s) : s[i].at \in TickAt
  /\ \A i, j \in 1..Len(s) : s[i].at \in TickAt /\ s[j].at \in TickAt => i = j
  /\ \A i \in 1..Len(s) : s[i].at \in TickAt =>
       idx <= s[i].len /\ s[i].len <= len /\ s[i].len > 0

LEMMA OneTickerIsDrain ==
  OneTicker <=> (phase # "dead" => Drain(stack, inTick, nextTickIndex, Len(nextTickQueue)))
  BY DEF OneTicker, Drain, IsTicker

\* Entering a frame that is not _tickCallback's.
LEMMA DrainPush ==
  ASSUME NEW s \in Seq(Frames), NEW f \in Frames, f.at \notin TickAt,
         NEW in \in BOOLEAN, NEW idx, NEW len, Drain(s, in, idx, len)
  PROVE  Drain(Append(s, f), in, idx, len)
<1> PICK n \in Nat : n = Len(s)
  BY PushFacts
<1>1. /\ Len(Append(s, f)) = n + 1
      /\ Append(s, f)[n + 1] = f
      /\ \A i \in 1..n : Append(s, f)[i] = s[i]
  BY PushFacts
<1>2. \A i \in 1..(n + 1) : i \in 1..n \/ i = n + 1
  OBVIOUS
<1> QED BY <1>1, <1>2 DEF Drain

\* Leaving a frame that is not _tickCallback's.
LEMMA DrainPop ==
  ASSUME NEW s \in Seq(Frames), s # <<>>, s[Len(s)].at \notin TickAt,
         NEW in \in BOOLEAN, NEW idx, NEW len, Drain(s, in, idx, len)
  PROVE  Drain(Front(s), in, idx, len)
<1>0. PICK n \in Nat : n + 1 = Len(s) /\ n = Len(s) - 1
  BY FrontFacts
<1>1. Len(Front(s)) = n /\ \A i \in 1..n : Front(s)[i] = s[i]
  BY <1>0, FrontFacts
<1>2. \A i \in 1..(n + 1) : i \in 1..n \/ i = n + 1
  OBVIOUS
<1>3. \A i \in 1..n : i \in 1..(n + 1)
  OBVIOUS
<1>4. n + 1 = Len(s)
  BY <1>0
<1> QED BY <1>1, <1>2, <1>3, <1>4 DEF Drain

\* Leaving _tickCallback: no other activation of it is on the stack.
LEMMA DrainEnd ==
  ASSUME NEW s \in Seq(Frames), s # <<>>, s[Len(s)].at \in TickAt,
         NEW in \in BOOLEAN, NEW idx, NEW len, Drain(s, in, idx, len),
         NEW idx2, NEW len2
  PROVE  Drain(Front(s), FALSE, idx2, len2)
<1>0. PICK n \in Nat : n + 1 = Len(s) /\ n = Len(s) - 1
  BY FrontFacts
<1>1. Len(Front(s)) = n /\ \A i \in 1..n : Front(s)[i] = s[i]
  BY <1>0, FrontFacts
<1>2. \A i \in 1..n : i \in 1..(n + 1) /\ i # n + 1
  OBVIOUS
<1>3. \A i \in 1..n : s[i].at \notin TickAt
  <2>1. n + 1 = Len(s)
    BY <1>0
  <2>2. n + 1 \in 1..(n + 1)
    OBVIOUS
  <2> QED BY <1>2, <2>1, <2>2 DEF Drain
<1> QED BY <1>1, <1>3 DEF Drain

\* Entering _tickCallback, when none is on the stack.
LEMMA DrainEnter ==
  ASSUME NEW s \in Seq(Frames), NEW f \in Frames, f.at \in TickAt,
         NEW idx, NEW len, NEW idx2, NEW len2, Drain(s, FALSE, idx, len),
         idx2 <= f.len, f.len <= len2, f.len > 0
  PROVE  Drain(Append(s, f), TRUE, idx2, len2)
<1> PICK n \in Nat : n = Len(s)
  BY PushFacts
<1>1. /\ Len(Append(s, f)) = n + 1
      /\ Append(s, f)[n + 1] = f
      /\ \A i \in 1..n : Append(s, f)[i] = s[i]
  BY PushFacts
<1>2. \A i \in 1..(n + 1) : i \in 1..n \/ i = n + 1
  OBVIOUS
<1>3. \A i \in 1..n : s[i].at \notin TickAt
  BY DEF Drain
<1>4. \A i \in 1..(n + 1) : Append(s, f)[i].at \in TickAt <=> i = n + 1
  BY <1>1, <1>2, <1>3
<1> QED BY <1>1, <1>4 DEF Drain

\* tickDone keeps exactly the tocks that were not taken.
LEMMA tickDoneFacts ==
  ASSUME TypeOK, nextTickIndex <= Len(nextTickQueue),
         NEW depth \in Nat, NEW need \in BOOLEAN, tickDone(depth, need)
  PROVE  /\ nextTickQueue' \in Seq(Nat)
         /\ Len(nextTickQueue') = Len(nextTickQueue) - nextTickIndex
         /\ \A i \in 1..Len(nextTickQueue') :
              nextTickQueue'[i] = nextTickQueue[nextTickIndex + i]
         /\ nextTickIndex' = 0 /\ inTick' = FALSE /\ tickDepth' = depth
         /\ need_tick_cb' \in BOOLEAN
         /\ nextTickQueue' # <<>> => need_tick_cb'
<1>1. /\ nextTickQueue' = Drop(nextTickQueue, nextTickIndex)
      /\ nextTickIndex' = 0 /\ inTick' = FALSE /\ tickDepth' = depth
      /\ need_tick_cb' = (need \/ nextTickQueue' # <<>>)
  BY DEF tickDone
<1>2. need_tick_cb' \in BOOLEAN /\ (nextTickQueue' # <<>> => need_tick_cb')
  BY <1>1
<1>3. nextTickQueue \in Seq(Nat) /\ nextTickIndex \in Nat
  BY DEF TypeOK
<1>4. /\ nextTickQueue' \in Seq(Nat)
      /\ Len(nextTickQueue') = Len(nextTickQueue) - nextTickIndex
      /\ \A i \in 1..(Len(nextTickQueue) - nextTickIndex) :
           nextTickQueue'[i] = nextTickQueue[nextTickIndex + i]
  BY <1>1, <1>3, DropFacts
<1> QED BY <1>1, <1>2, <1>4
-----------------------------------------------------------------------------
(***************************************************************************)
(* The inductive invariant.  The properties need three facts they do not   *)
(* state: the index is 0 between drains, an empty queue between drains is  *)
(* what lets the loop end, and exiting is set before EmitExit.             *)
(***************************************************************************)
AtRest == phase # "dead" => (~inTick => nextTickIndex = 0)

OverExiting == phase = "over" => exiting

IInv ==
  /\ TypeOK
  /\ OneTicker
  /\ TickOrder
  /\ SpinnerArmed
  /\ AtRest
  /\ OverExiting
  /\ DrainedBeforeExit

LEMMA InitInv == Init => IInv
<1> SUFFICES ASSUME Init PROVE IInv
  OBVIOUS
<1>1. TypeOK
  <2>1. nextTickQueue \in Seq(Nat)
    <3>1. <<>> \in Seq(Nat) /\ <<1>> \in Seq(Nat)
      OBVIOUS
    <3> QED BY <3>1 DEF Init
  <2>2. need_tick_cb \in BOOLEAN
    BY DEF Init
  <2>3. stack \in Seq([at : FrameAt, len : Nat]) /\ taken \in Seq(Nat)
    BY DEF Init
  <2>4. issued \in Nat
    BY <2>1, LenProperties DEF Init
  <2> QED BY <2>1, <2>2, <2>3, <2>4 DEF Init, TypeOK
<1>2. OneTicker /\ AtRest /\ OverExiting /\ DrainedBeforeExit
  BY DEF Init, OneTicker, IsTicker, AtRest, OverExiting, DrainedBeforeExit
<1>3. TickOrder
  BY DEF Init, TickOrder
<1>4. SpinnerArmed
  BY DEF Init, SpinnerArmed
<1> QED BY <1>1, <1>2, <1>3, <1>4 DEF IInv

-----------------------------------------------------------------------------
\* The frame step of an action that touches neither the queue nor its counts.
LEMMA OtherStep ==
  ASSUME IInv, UNCHANGED <<queueVars, need_tick_cb, issued, taken>>,
         stack' \in Seq(Frames), exiting' \in BOOLEAN,
         phase' = phase \/ phase' = "dead"
           \/ (phase' = "over" /\ Len(taken) = issued),
         phase' = "over" => exiting',
         phase = "dead" => phase' = "dead",
         phase' # "dead" => Drain(stack', inTick, nextTickIndex, Len(nextTickQueue))
  PROVE  IInv'
<1>1. TypeOK'
  BY DEF IInv, TypeOK, queueVars, Frames
<1>2. OneTicker'
  BY DEF OneTicker, Drain, IsTicker, queueVars
<1>3. TickOrder' /\ SpinnerArmed' /\ AtRest' /\ OverExiting' /\ DrainedBeforeExit'
  BY DEF IInv, TickOrder, SpinnerArmed, AtRest, OverExiting, DrainedBeforeExit, queueVars
<1> QED BY <1>1, <1>2, <1>3 DEF IInv
\* The step of an action that ends in tickDone.
LEMMA tickDoneStep ==
  ASSUME IInv, phase # "dead", NEW depth \in Nat, NEW need \in BOOLEAN,
         tickDone(depth, need), UNCHANGED <<exiting, issued, taken>>,
         stack' \in Seq(Frames), phase' \in {phase, "dead"},
         phase' # "dead" => Drain(stack', FALSE, 0, Len(nextTickQueue'))
  PROVE  IInv'
<1>1. /\ nextTickQueue' \in Seq(Nat)
      /\ Len(nextTickQueue') = Len(nextTickQueue) - nextTickIndex
      /\ \A i \in 1..Len(nextTickQueue') :
           nextTickQueue'[i] = nextTickQueue[nextTickIndex + i]
      /\ nextTickIndex' = 0 /\ inTick' = FALSE /\ tickDepth' = depth
      /\ need_tick_cb' \in BOOLEAN
      /\ nextTickQueue' # <<>> => need_tick_cb'
  BY tickDoneFacts DEF IInv, TickOrder
<1>2. TypeOK'
  BY <1>1 DEF IInv, TypeOK, Frames
<1>3. OneTicker'
  BY <1>1 DEF OneTicker, Drain, IsTicker
<1>4. TickOrder'
  <2>1. \A i \in 1..Len(taken') : taken'[i] = i
    BY DEF IInv, TickOrder
  <2> PICK q \in Nat, t \in Nat : q = Len(nextTickQueue) /\ t = Len(taken)
    BY LenProperties DEF IInv, TypeOK
  <2>2. /\ nextTickIndex \in Nat /\ nextTickIndex <= q
        /\ issued = t + q - nextTickIndex
        /\ \A i \in 1..q : nextTickQueue[i] = t - nextTickIndex + i
    BY DEF IInv, TypeOK, TickOrder
  <2>3. Len(nextTickQueue') = q - nextTickIndex /\ Len(taken') = t
    BY <1>1
  <2>4. \A i \in 1..(q - nextTickIndex) : nextTickQueue'[i] = t - 0 + i
    <3> TAKE i \in 1..(q - nextTickIndex)
    <3>1. nextTickIndex + i \in 1..q /\ t - nextTickIndex + (nextTickIndex + i) = t - 0 + i
      BY <2>2
    <3> QED BY <1>1, <2>2, <2>3, <3>1
  <2>5. issued' = t + (q - nextTickIndex) - 0 /\ 0 <= q - nextTickIndex
    BY <2>2
  <2> QED BY <1>1, <2>1, <2>3, <2>4, <2>5 DEF TickOrder
<1>5. SpinnerArmed' /\ AtRest' /\ OverExiting' /\ DrainedBeforeExit'
  BY <1>1 DEF IInv, SpinnerArmed, AtRest, OverExiting, DrainedBeforeExit
<1> QED BY <1>2, <1>3, <1>4, <1>5 DEF IInv
\* A call of _tickCallback, whichever way it ends.  An activation that finds the
\* queue empty cannot be nested in a drain, which always holds its own tocks.
LEMMA tickCallbackStep ==
  ASSUME IInv, phase # "dead", NEW fromSpinner \in BOOLEAN, NEW need \in BOOLEAN,
         NEW below \in Seq(Frames),
         Drain(below, inTick, nextTickIndex, Len(nextTickQueue)),
         tickCallback(fromSpinner, need, below),
         UNCHANGED <<exiting, phase, issued, taken>>
  PROVE  IInv'
<1> DEFINE depth == IF TooDeep THEN 0 ELSE tickDepth
<1>0. depth \in Nat
  BY DEF IInv, TypeOK
<1>1. CASE /\ need_tick_cb' = (need \/ nextTickQueue # <<>>)
           /\ stack' = below /\ UNCHANGED queueVars
  <2>1. TypeOK'
    <3>1. need_tick_cb' \in BOOLEAN
      BY <1>1
    <3> QED BY <1>1, <3>1 DEF IInv, TypeOK, queueVars, Frames
  <2>2. OneTicker'
    BY <1>1 DEF OneTicker, Drain, IsTicker, queueVars
  <2>3. TickOrder' /\ SpinnerArmed' /\ AtRest' /\ OverExiting' /\ DrainedBeforeExit'
    BY <1>1 DEF IInv, TickOrder, SpinnerArmed, AtRest, OverExiting,
       DrainedBeforeExit, queueVars
  <2> QED BY <2>1, <2>2, <2>3 DEF IInv
<1>2. CASE nextTickQueue = <<>> /\ tickDone(0, need) /\ stack' = below
  <2>1. Len(nextTickQueue) = 0 /\ nextTickIndex = 0
    <3>1. Len(nextTickQueue) = 0
      BY <1>2
    <3> QED BY <3>1 DEF IInv, TypeOK, TickOrder
  <2>2. \A i \in 1..Len(below) : below[i].at \notin TickAt
    <3> SUFFICES ASSUME NEW i \in 1..Len(below), below[i].at \in TickAt PROVE FALSE
      OBVIOUS
    <3>0. below[i] \in Frames
      BY ElementOfSeq
    <3>1. below[i].len \in Nat
      BY <3>0 DEF Frames
    <3> QED BY <2>1, <3>1 DEF Drain
  <2>3. Drain(stack', FALSE, 0, Len(nextTickQueue'))
    BY <1>2, <2>2 DEF Drain
  <2> QED BY <1>2, <2>3, tickDoneStep
<1>3. CASE /\ nextTickQueue # <<>> /\ ~StartsTicking
           /\ tickDepth' = depth /\ need_tick_cb' = need /\ stack' = below
           /\ UNCHANGED <<nextTickQueue, nextTickIndex, inTick>>
  <2>1. TypeOK'
    BY <1>0, <1>3 DEF IInv, TypeOK, Frames
  <2>2. OneTicker'
    BY <1>3 DEF OneTicker, Drain, IsTicker
  <2>3. inTick
    BY <1>3 DEF StartsTicking, IInv, TypeOK
  <2>4. TickOrder' /\ SpinnerArmed' /\ AtRest' /\ OverExiting' /\ DrainedBeforeExit'
    BY <1>3, <2>3 DEF IInv, TickOrder, SpinnerArmed, AtRest, OverExiting, DrainedBeforeExit
  <2> QED BY <2>1, <2>2, <2>4 DEF IInv
<1>4. CASE /\ StartsTicking /\ inTick' = TRUE
           /\ tickDepth' = depth + 1 /\ need_tick_cb' = need
           /\ stack' = Append(below, Frame("loop", Len(nextTickQueue)))
           /\ UNCHANGED <<nextTickQueue, nextTickIndex>>
  <2>1. /\ Len(nextTickQueue) \in Nat /\ Len(nextTickQueue) > 0
        /\ ~inTick /\ nextTickIndex = 0
    BY <1>4, EmptySeq, LenProperties DEF StartsTicking, IInv, TypeOK, AtRest
  <2>2. Frame("loop", Len(nextTickQueue)) \in Frames
    BY <2>1 DEF Frame, Frames, FrameAt
  <2>3. stack' \in Seq(Frames)
    BY <1>4, <2>2, PushFacts
  <2>4. Drain(stack', TRUE, 0, Len(nextTickQueue))
    <3>1. Drain(below, FALSE, nextTickIndex, Len(nextTickQueue))
      BY <2>1 DEF Drain
    <3>2. /\ Frame("loop", Len(nextTickQueue)).at \in TickAt
          /\ Frame("loop", Len(nextTickQueue)).len = Len(nextTickQueue)
      BY DEF Frame, TickAt
    <3>3. 0 <= Len(nextTickQueue) /\ Len(nextTickQueue) <= Len(nextTickQueue)
      BY <2>1
    <3> QED BY <1>4, <2>1, <2>2, <3>1, <3>2, <3>3, DrainEnter
  <2>5. TypeOK'
    BY <1>0, <1>4, <2>3 DEF IInv, TypeOK, Frames
  <2>6. OneTicker'
    BY <1>4, <2>1, <2>4 DEF OneTicker, Drain, IsTicker
  <2>7. TickOrder' /\ SpinnerArmed' /\ AtRest' /\ OverExiting' /\ DrainedBeforeExit'
    BY <1>4 DEF IInv, TickOrder, SpinnerArmed, AtRest, OverExiting, DrainedBeforeExit
  <2> QED BY <2>5, <2>6, <2>7 DEF IInv
<1> QED BY <1>1, <1>2, <1>3, <1>4 DEF tickCallback
-----------------------------------------------------------------------------
\* The facts every action below starts from.
LEMMA TopFacts ==
  ASSUME IInv, phase # "dead"
  PROVE  /\ stack \in Seq(Frames)
         /\ inTick \in BOOLEAN
         /\ Drain(stack, inTick, nextTickIndex, Len(nextTickQueue))
         /\ Pop = Front(stack)
  BY OneTickerIsDrain DEF IInv, TypeOK, Frames, Pop, Front

\* The exception has reached C++ under a frame that is not _tickCallback's.
LEMMA FatalDrain ==
  ASSUME NEW below \in Seq(Frames), NEW in \in BOOLEAN, NEW idx, NEW len,
         Drain(below, in, idx, len)
  PROVE  /\ Append(below, Frame("handler", 0)) \in Seq(Frames)
         /\ Drain(Append(below, Frame("handler", 0)), in, idx, len)
<1>1. Frame("handler", 0) \in Frames /\ Frame("handler", 0).at \notin TickAt
  BY DEF Frame, Frames, FrameAt, TickAt
<1> QED BY <1>1, PushFacts, DrainPush

\* Leaving a frame that is not _tickCallback's.
LEMMA PopOther ==
  ASSUME IInv, phase # "dead", stack # <<>>, Top.at \notin TickAt
  PROVE  Pop \in Seq(Frames) /\ Drain(Pop, inTick, nextTickIndex, Len(nextTickQueue))
  BY TopFacts, FrontFacts, DrainPop DEF Top

\* The steps of user code, handlers and the end of the process.
LEMMA UserSteps ==
  ASSUME IInv,
         \/ MakeCallback \/ CallbackThrows \/ HandlerReturns \/ HandlerThrows
         \/ ProcessExit \/ ExitReturns \/ ExitThrows \/ StartReturns
  PROVE  IInv'
<1> DEFINE Untouched == UNCHANGED <<queueVars, need_tick_cb, issued, taken>>
<1>a. /\ phase # "dead" /\ stack \in Seq(Frames) /\ inTick \in BOOLEAN
      /\ exiting \in BOOLEAN /\ (phase = "over" => exiting) /\ <<>> \in Seq(Frames)
  BY DEF IInv, TypeOK, Frames, OverExiting, MakeCallback, CallbackThrows, HandlerReturns,
     HandlerThrows, ProcessExit, ExitReturns, ExitThrows, StartReturns, At, InLoop, InUserCode
<1>1. CASE MakeCallback
  <2>1. Frame("fn", 0) \in Frames /\ Frame("fn", 0).at \notin TickAt
    BY DEF Frame, Frames, FrameAt, TickAt
  <2>2. stack' = Append(stack, Frame("fn", 0)) /\ UNCHANGED <<exiting, phase>> /\ Untouched
    BY <1>1 DEF MakeCallback
  <2>3. /\ stack' \in Seq(Frames)
        /\ Drain(stack', inTick, nextTickIndex, Len(nextTickQueue))
    BY <1>a, <2>1, <2>2, PushFacts, DrainPush, TopFacts
  <2> QED BY <1>a, <2>2, <2>3, OtherStep
<1>2. CASE CallbackThrows
  <2>1. FatalException /\ UNCHANGED exiting /\ Untouched /\ stack # <<>> /\ Top.at = "fn"
    BY <1>2 DEF CallbackThrows, At
  <2>2. Pop \in Seq(Frames) /\ Drain(Pop, inTick, nextTickIndex, Len(nextTickQueue))
    BY <1>a, <2>1, PopOther DEF TickAt
  <2> QED BY <1>a, <2>1, <2>2, FatalDrain, OtherStep DEF FatalException
<1>3. CASE HandlerReturns
  <2>1. stack' = Pop /\ UNCHANGED <<exiting, phase>> /\ Untouched /\ stack # <<>>
        /\ Top.at = "handler"
    BY <1>3 DEF HandlerReturns, At
  <2>2. Pop \in Seq(Frames) /\ Drain(Pop, inTick, nextTickIndex, Len(nextTickQueue))
    BY <1>a, <2>1, PopOther DEF TickAt
  <2> QED BY <1>a, <2>1, <2>2, OtherStep
<1>4. CASE HandlerThrows \/ ExitReturns \/ StartReturns
  <2>1. stack' = <<>> /\ phase' = "dead" /\ UNCHANGED exiting /\ Untouched
    BY <1>4 DEF HandlerThrows, ExitReturns, StartReturns
  <2> QED BY <1>a, <2>1, OtherStep
<1>5. CASE ProcessExit
  <2>1. exiting' = TRUE /\ Untouched
    BY <1>5 DEF ProcessExit
  <2>2. CASE stack' = Append(stack, Frame("exit", 0)) /\ UNCHANGED phase
    <3>1. Frame("exit", 0) \in Frames /\ Frame("exit", 0).at \notin TickAt
      BY DEF Frame, Frames, FrameAt, TickAt
    <3>2. /\ stack' \in Seq(Frames)
          /\ Drain(stack', inTick, nextTickIndex, Len(nextTickQueue))
      BY <1>a, <2>2, <3>1, PushFacts, DrainPush, TopFacts
    <3> QED BY <1>a, <2>1, <2>2, <3>2, OtherStep
  <2>3. CASE stack' = <<>> /\ phase' = "dead"
    BY <1>a, <2>1, <2>3, OtherStep
  <2> QED BY <1>5, <2>2, <2>3 DEF ProcessExit
<1>6. CASE ExitThrows
  <2>1. UNCHANGED exiting /\ Untouched /\ stack # <<>> /\ Top.at = "exit"
    BY <1>6 DEF ExitThrows, At
  <2>2. Pop \in Seq(Frames) /\ Drain(Pop, inTick, nextTickIndex, Len(nextTickQueue))
    BY <1>a, <2>1, PopOther DEF TickAt
  <2>3. CASE FatalException
    BY <1>a, <2>1, <2>2, <2>3, FatalDrain, OtherStep DEF FatalException
  <2>4. CASE stack' = Pop /\ UNCHANGED phase
    BY <1>a, <2>1, <2>2, <2>4, OtherStep
  <2> QED BY <1>6, <2>3, <2>4 DEF ExitThrows
<1> QED BY <1>1, <1>2, <1>3, <1>4, <1>5, <1>6
\* The loop ends with nothing queued: the spinner would still be active.
LEMMA LoopEndsStep == ASSUME IInv, LoopEnds PROVE IInv'
<1>1. /\ phase = "running" /\ stack = <<>> /\ ~need_tick_cb
      /\ phase' = "over" /\ exiting' = TRUE /\ stack' = <<Frame("exit", 0)>>
      /\ UNCHANGED <<queueVars, need_tick_cb, issued, taken>>
  BY DEF LoopEnds, InLoop
<1>2. /\ Drain(stack, inTick, nextTickIndex, Len(nextTickQueue)) /\ inTick \in BOOLEAN
      /\ stack \in Seq(Frames)
  BY <1>1, TopFacts
<1>3. ~inTick
  BY <1>1, <1>2 DEF Drain
<1>4. nextTickQueue = <<>> /\ nextTickIndex = 0
  BY <1>1, <1>3 DEF IInv, SpinnerArmed, AtRest
<1>5. Len(taken) = issued
  BY <1>1, <1>4, LenProperties DEF IInv, TickOrder, TypeOK
<1>6. Frame("exit", 0) \in Frames /\ Frame("exit", 0).at \notin TickAt
  BY DEF Frame, Frames, FrameAt, TickAt
<1>7. stack' = Append(stack, Frame("exit", 0))
  BY <1>1
<1>8. stack' \in Seq(Frames) /\ Drain(stack', inTick, nextTickIndex, Len(nextTickQueue))
  BY <1>2, <1>6, <1>7, PushFacts, DrainPush
<1> QED BY <1>1, <1>5, <1>8, OtherStep

\* process.nextTick appends the next number.
LEMMA nextTickStep == ASSUME IInv, nextTick PROVE IInv'
<1>1. /\ phase # "dead" /\ ~exiting
      /\ nextTickQueue' = Append(nextTickQueue, issued + 1)
      /\ need_tick_cb' = TRUE /\ issued' = issued + 1
      /\ UNCHANGED <<nextTickIndex, inTick, tickDepth, exiting, stack, phase, taken>>
  BY DEF nextTick, InUserCode
<1>2. /\ nextTickQueue \in Seq(Nat) /\ taken \in Seq(Nat) /\ issued \in Nat
      /\ nextTickIndex \in Nat
  BY DEF IInv, TypeOK
<1>3. PICK q \in Nat, t \in Nat : q = Len(nextTickQueue) /\ t = Len(taken)
  BY <1>2, LenProperties
<1>4. /\ nextTickIndex <= q /\ issued = t + q - nextTickIndex
      /\ \A i \in 1..q : nextTickQueue[i] = t - nextTickIndex + i
  BY <1>1, <1>3 DEF IInv, TickOrder
<1>5. /\ nextTickQueue' \in Seq(Nat) /\ Len(nextTickQueue') = q + 1
      /\ nextTickQueue'[q + 1] = issued + 1
      /\ \A i \in 1..q : nextTickQueue'[i] = nextTickQueue[i]
  BY <1>1, <1>2, <1>3, AppendProperties
<1>6. TypeOK'
  BY <1>1, <1>5 DEF IInv, TypeOK
<1>7. OneTicker'
  <2>1. Drain(stack, inTick, nextTickIndex, q) /\ stack \in Seq(Frames)
    BY <1>1, <1>3, TopFacts
  <2>2. ASSUME NEW i \in 1..Len(stack), stack[i].at \in TickAt
        PROVE  stack[i].len <= q + 1
    <3>1. stack[i] \in Frames
      BY <2>1, ElementOfSeq
    <3>2. stack[i].len \in Nat /\ stack[i].len <= q
      BY <2>1, <2>2, <3>1 DEF Drain, Frames
    <3> QED BY <3>2
  <2> QED BY <1>1, <1>5, <2>1, <2>2 DEF OneTicker, Drain, IsTicker
<1>8. TickOrder'
  <2>1. \A i \in 1..(q + 1) : nextTickQueue'[i] = t - nextTickIndex + i
    <3> TAKE i \in 1..(q + 1)
    <3>1. CASE i \in 1..q
      BY <1>4, <1>5, <3>1
    <3>2. CASE i = q + 1
      BY <1>2, <1>4, <1>5, <3>2
    <3> QED BY <3>1, <3>2
  <2>2. issued + 1 = t + (q + 1) - nextTickIndex /\ nextTickIndex <= q + 1
    BY <1>2, <1>4
  <2>3. \A i \in 1..Len(taken) : taken[i] = i
    BY DEF IInv, TickOrder
  <2> QED BY <1>1, <1>3, <1>5, <2>1, <2>2, <2>3 DEF TickOrder
<1>9. SpinnerArmed' /\ AtRest' /\ OverExiting' /\ DrainedBeforeExit'
  BY <1>1 DEF IInv, SpinnerArmed, AtRest, OverExiting, DrainedBeforeExit
<1> QED BY <1>6, <1>7, <1>8, <1>9 DEF IInv

\* What is known while the body of _tickCallback, or a tock of it, is running.
LEMMA InDrain ==
  ASSUME IInv, phase # "dead", stack # <<>>, Top.at \in TickAt
  PROVE  /\ inTick /\ Top \in Frames
         /\ nextTickIndex <= Top.len /\ Top.len <= Len(nextTickQueue) /\ Top.len > 0
         /\ Pop \in Seq(Frames) /\ \A idx, len : Drain(Pop, FALSE, idx, len)
<1>1. /\ stack \in Seq(Frames) /\ inTick \in BOOLEAN
      /\ Drain(stack, inTick, nextTickIndex, Len(nextTickQueue)) /\ Pop = Front(stack)
  BY TopFacts
<1>2. /\ Len(stack) \in 1..Len(stack) /\ Top = stack[Len(stack)] /\ Top \in Frames
      /\ Pop \in Seq(Frames)
  BY <1>1, FrontFacts DEF Top
<1>3. \A idx, len : Drain(Pop, FALSE, idx, len)
  BY <1>1, <1>2, DrainEnd
<1> QED BY <1>1, <1>2, <1>3 DEF Drain

\* A tock is taken: it is the next number.
LEMMA TakeTockStep == ASSUME IInv, TakeTock PROVE IInv'
<1>1. /\ phase # "dead" /\ stack # <<>> /\ Top.at \in TickAt
      /\ nextTickIndex < Top.len
      /\ nextTickIndex' = nextTickIndex + 1
      /\ taken' = Append(taken, nextTickQueue[nextTickIndex + 1])
      /\ UNCHANGED <<nextTickQueue, inTick, tickDepth, need_tick_cb, exiting, phase, issued>>
  BY DEF TakeTock, At, TickAt
<1>2. PICK at \in TickAt : stack' = Append(Pop, Frame(at, Top.len))
  BY DEF TakeTock
<1>3. /\ inTick /\ Top \in Frames /\ Top.len <= Len(nextTickQueue) /\ Top.len > 0
      /\ Pop \in Seq(Frames) /\ Drain(Pop, FALSE, nextTickIndex, Len(nextTickQueue))
  BY <1>1, InDrain
<1>4. PICK q \in Nat, t \in Nat, k \in Nat :
        q = Len(nextTickQueue) /\ t = Len(taken) /\ k = Top.len
  BY <1>3, LenProperties DEF IInv, TypeOK, Frames
<1>5. /\ nextTickIndex \in Nat /\ nextTickIndex + 1 \in 1..q /\ nextTickIndex + 1 <= k
      /\ k <= q /\ k > 0
  BY <1>1, <1>3, <1>4 DEF IInv, TypeOK
<1>6. /\ issued \in Nat /\ issued = t + q - nextTickIndex
      /\ \A i \in 1..q : nextTickQueue[i] = t - nextTickIndex + i
      /\ \A i \in 1..t : taken[i] = i
  BY <1>1, <1>4 DEF IInv, TickOrder, TypeOK
<1>7. nextTickQueue[nextTickIndex + 1] = t + 1
  <2>1. nextTickQueue[nextTickIndex + 1] = t - nextTickIndex + (nextTickIndex + 1)
    BY <1>5, <1>6
  <2> QED BY <1>5, <2>1
<1>8. /\ taken' \in Seq(Nat) /\ Len(taken') = t + 1 /\ taken'[t + 1] = t + 1
      /\ \A i \in 1..t : taken'[i] = taken[i]
  BY <1>1, <1>4, <1>7, AppendProperties DEF IInv, TypeOK
<1>9. /\ Frame(at, Top.len) \in Frames /\ Frame(at, Top.len).at \in TickAt
      /\ Frame(at, Top.len).len = k
  BY <1>2, <1>4 DEF Frame, Frames, FrameAt, TickAt
<1>10. stack' \in Seq(Frames) /\ Drain(stack', TRUE, nextTickIndex + 1, q)
  <2>1. stack' \in Seq(Frames)
    BY <1>2, <1>3, <1>9, PushFacts
  <2> QED BY <1>2, <1>3, <1>5, <1>9, <2>1, DrainEnter
<1>11. TypeOK'
  BY <1>1, <1>5, <1>8, <1>10 DEF IInv, TypeOK, Frames
<1>12. OneTicker'
  BY <1>1, <1>3, <1>4, <1>10 DEF OneTicker, Drain, IsTicker
<1>13. TickOrder'
  <2>1. \A i \in 1..(t + 1) : taken'[i] = i
    <3> TAKE i \in 1..(t + 1)
    <3>1. i \in 1..t \/ i = t + 1
      OBVIOUS
    <3> QED BY <1>6, <1>8, <3>1
  <2>2. \A i \in 1..q : nextTickQueue[i] = (t + 1) - (nextTickIndex + 1) + i
    BY <1>5, <1>6
  <2>3. issued = (t + 1) + q - (nextTickIndex + 1) /\ nextTickIndex + 1 <= q
    BY <1>5, <1>6
  <2> QED BY <1>1, <1>4, <1>8, <2>1, <2>2, <2>3 DEF TickOrder
<1>14. SpinnerArmed' /\ AtRest' /\ OverExiting'
  BY <1>1, <1>3 DEF IInv, SpinnerArmed, AtRest, OverExiting
<1>15. phase # "over"
  <2>1. phase = "over" => t = issued
    BY <1>4 DEF IInv, DrainedBeforeExit
  <2> QED BY <1>5, <1>6, <2>1
<1>16. DrainedBeforeExit'
  BY <1>1, <1>15 DEF DrainedBeforeExit
<1> QED BY <1>11, <1>12, <1>13, <1>14, <1>16 DEF IInv
\* A tock returns to the body of _tickCallback.
LEMMA TockReturnsStep == ASSUME IInv, TockReturns PROVE IInv'
<1>1. /\ phase # "dead" /\ stack # <<>> /\ Top.at \in TickAt
      /\ stack' = Append(Pop, Frame("loop", Top.len))
      /\ UNCHANGED <<queueVars, need_tick_cb, issued, taken>> /\ UNCHANGED <<exiting, phase>>
  BY DEF TockReturns, At, TickAt
<1>2. /\ inTick /\ inTick \in BOOLEAN /\ Top \in Frames
      /\ nextTickIndex <= Top.len /\ Top.len <= Len(nextTickQueue) /\ Top.len > 0
      /\ Pop \in Seq(Frames) /\ Drain(Pop, FALSE, nextTickIndex, Len(nextTickQueue))
  BY <1>1, InDrain DEF IInv, TypeOK
<1>3. /\ Frame("loop", Top.len) \in Frames /\ Frame("loop", Top.len).at \in TickAt
      /\ Frame("loop", Top.len).len = Top.len
  BY <1>2 DEF Frame, Frames, FrameAt, TickAt
<1>4. stack' \in Seq(Frames)
  BY <1>1, <1>2, <1>3, PushFacts
<1>5. Drain(stack', TRUE, nextTickIndex, Len(nextTickQueue))
  BY <1>1, <1>2, <1>3, DrainEnter
<1>6. Drain(stack', inTick, nextTickIndex, Len(nextTickQueue))
  BY <1>2, <1>5 DEF Drain
<1>7. exiting' \in BOOLEAN /\ (phase' = "over" => exiting')
  BY <1>1 DEF IInv, TypeOK, OverExiting
<1> QED BY <1>1, <1>4, <1>6, <1>7, OtherStep

\* A tock throws: the queue keeps the tocks that were not taken.
LEMMA TockThrowsStep == ASSUME IInv, TockThrows PROVE IInv'
<1>1. /\ phase # "dead" /\ stack # <<>> /\ Top.at \in TickAt
      /\ tickDone(tickDepth, need_tick_cb) /\ FatalException
      /\ UNCHANGED <<exiting, issued, taken>>
  BY DEF TockThrows, At, TickAt
<1>2. Pop \in Seq(Frames) /\ Drain(Pop, FALSE, 0, Len(nextTickQueue'))
  BY <1>1, InDrain
<1>3. tickDepth \in Nat /\ need_tick_cb \in BOOLEAN /\ <<>> \in Seq(Frames)
  BY DEF IInv, TypeOK
<1>4. /\ stack' \in Seq(Frames) /\ phase' \in {phase, "dead"}
      /\ phase' # "dead" => Drain(stack', FALSE, 0, Len(nextTickQueue'))
  BY <1>1, <1>2, <1>3, FatalDrain DEF FatalException
<1> QED BY <1>1, <1>3, <1>4, tickDoneStep

\* A pass ends, in another pass or in tickDone.
LEMMA PassEndsStep == ASSUME IInv, PassEnds PROVE IInv'
<1>1. /\ phase # "dead" /\ stack # <<>> /\ Top.at \in TickAt
      /\ nextTickIndex >= Top.len /\ UNCHANGED <<exiting, phase, issued, taken>>
  BY DEF PassEnds, At, TickAt
<1>2. /\ inTick /\ Pop \in Seq(Frames)
      /\ \A idx, len : Drain(Pop, FALSE, idx, len)
  BY <1>1, InDrain
<1>3. /\ tickDepth \in Nat /\ need_tick_cb \in BOOLEAN /\ nextTickQueue \in Seq(Nat)
      /\ nextTickIndex \in Nat /\ nextTickIndex <= Len(nextTickQueue)
  BY <1>1 DEF IInv, TypeOK, TickOrder
<1>4. CASE ~AnotherPass
  <2>1. tickDone(0, need_tick_cb) /\ stack' = Pop
    BY <1>4 DEF PassEnds
  <2>2. phase' \in {phase, "dead"} /\ stack' \in Seq(Frames)
        /\ Drain(stack', FALSE, 0, Len(nextTickQueue'))
    BY <1>1, <1>2, <2>1
  <2> QED BY <1>1, <1>3, <2>1, <2>2, tickDoneStep
<1>5. CASE AnotherPass
  <2>1. /\ nextTickQueue' = Drop(nextTickQueue, nextTickIndex)
        /\ nextTickQueue' # <<>>
        /\ nextTickIndex' = 0 /\ tickDepth' = tickDepth + 1
        /\ stack' = Append(Pop, Frame("loop", Len(nextTickQueue')))
        /\ UNCHANGED <<inTick, need_tick_cb>>
    BY <1>5 DEF PassEnds, AnotherPass
  <2>2. /\ nextTickQueue' \in Seq(Nat)
        /\ Len(nextTickQueue') = Len(nextTickQueue) - nextTickIndex
        /\ \A i \in 1..(Len(nextTickQueue) - nextTickIndex) :
             nextTickQueue'[i] = nextTickQueue[nextTickIndex + i]
    BY <1>3, <2>1, DropFacts
  <2>3. Len(nextTickQueue') \in Nat /\ Len(nextTickQueue') > 0
    BY <2>1, <2>2, EmptySeq
  <2>4. /\ Frame("loop", Len(nextTickQueue')) \in Frames
        /\ Frame("loop", Len(nextTickQueue')).at \in TickAt
        /\ Frame("loop", Len(nextTickQueue')).len = Len(nextTickQueue')
    BY <2>3 DEF Frame, Frames, FrameAt, TickAt
  <2>5. stack' \in Seq(Frames)
    BY <1>2, <2>1, <2>4, PushFacts
  <2>6. Drain(stack', TRUE, 0, Len(nextTickQueue'))
    <3>1. 0 <= Len(nextTickQueue') /\ Len(nextTickQueue') <= Len(nextTickQueue')
      BY <2>3
    <3> QED BY <1>2, <2>1, <2>3, <2>4, <3>1, DrainEnter
  <2>7. TypeOK'
    BY <1>1, <1>3, <2>1, <2>2, <2>5 DEF IInv, TypeOK, Frames
  <2>8. OneTicker'
    BY <1>2, <2>1, <2>6 DEF OneTicker, Drain, IsTicker
  <2>9. TickOrder'
    <3>1. PICK q \in Nat, t \in Nat : q = Len(nextTickQueue) /\ t = Len(taken)
      BY LenProperties DEF IInv, TypeOK
    <3>2. /\ nextTickIndex \in Nat /\ nextTickIndex <= q
          /\ issued = t + q - nextTickIndex
          /\ \A i \in 1..q : nextTickQueue[i] = t - nextTickIndex + i
          /\ \A i \in 1..t : taken[i] = i
      BY <1>1, <3>1 DEF IInv, TypeOK, TickOrder
    <3>3. \A i \in 1..(q - nextTickIndex) : nextTickQueue'[i] = t - 0 + i
      <4> TAKE i \in 1..(q - nextTickIndex)
      <4>1. nextTickIndex + i \in 1..q /\ t - nextTickIndex + (nextTickIndex + i) = t - 0 + i
        BY <3>2
      <4>2. nextTickQueue'[i] = nextTickQueue[nextTickIndex + i]
        BY <2>2, <3>1
      <4> QED BY <3>2, <4>1, <4>2
    <3>4. issued = t + (q - nextTickIndex) - 0 /\ 0 <= q - nextTickIndex
      BY <3>2
    <3>5. Len(nextTickQueue') = q - nextTickIndex /\ Len(taken') = t
      BY <1>1, <2>2, <3>1
    <3> QED BY <1>1, <2>1, <3>2, <3>3, <3>4, <3>5 DEF TickOrder
  <2>10. SpinnerArmed' /\ AtRest' /\ OverExiting' /\ DrainedBeforeExit'
    BY <1>1, <1>2, <2>1 DEF IInv, SpinnerArmed, AtRest, OverExiting, DrainedBeforeExit
  <2> QED BY <2>7, <2>8, <2>9, <2>10 DEF IInv
<1> QED BY <1>4, <1>5
-----------------------------------------------------------------------------
LEMMA Inductive == IInv /\ [Next]_vars => IInv'
<1> SUFFICES ASSUME IInv, [Next]_vars PROVE IInv'
  OBVIOUS
<1>1. CASE CallbackReturns
  <2>1. /\ phase # "dead" /\ stack # <<>> /\ Top.at \notin TickAt
        /\ tickCallback(FALSE, need_tick_cb, Pop)
        /\ UNCHANGED <<exiting, phase, issued, taken>>
    BY <1>1 DEF CallbackReturns, At, TickAt
  <2>2. Pop \in Seq(Frames) /\ Drain(Pop, inTick, nextTickIndex, Len(nextTickQueue))
    BY <2>1, PopOther
  <2>3. need_tick_cb \in BOOLEAN
    BY DEF IInv, TypeOK
  <2> QED BY <2>1, <2>2, <2>3, tickCallbackStep
<1>2. CASE Spin
  <2>1. /\ phase # "dead" /\ stack = <<>> /\ tickCallback(TRUE, FALSE, <<>>)
        /\ UNCHANGED <<exiting, phase, issued, taken>>
    BY <1>2 DEF Spin, InLoop
  <2>2. <<>> \in Seq(Frames) /\ Drain(<<>>, inTick, nextTickIndex, Len(nextTickQueue))
    BY <2>1, TopFacts
  <2> QED BY <2>1, <2>2, tickCallbackStep
<1>3. CASE UNCHANGED vars
  BY <1>3 DEF vars, IInv, TypeOK, OneTicker, IsTicker, TickOrder, SpinnerArmed, AtRest,
     OverExiting, DrainedBeforeExit
<1> QED BY <1>1, <1>2, <1>3, UserSteps, LoopEndsStep, nextTickStep, TakeTockStep,
           TockReturnsStep, TockThrowsStep, PassEndsStep DEF Next

\* The state of the tick queue, the stack and the process is well formed.
THEOREM TypeCorrect == Spec => []TypeOK
<1>1. IInv => TypeOK
  BY DEF IInv
<1> QED BY <1>1, InitInv, Inductive, PTL DEF Spec

\* Draining is exclusive, whatever C++ re-enters: _tickCallback's guard inTick and
\* its early returns keep every nested call from splicing the queue.
THEOREM ExclusiveDrain == Spec => []OneTicker
<1>1. IInv => OneTicker
  BY DEF IInv
<1> QED BY <1>1, InitInv, Inductive, PTL DEF Spec

\* Every callback passed to process.nextTick is taken at most once and in call
\* order, for every maxTickDepth and any number of throwing callbacks.
THEOREM ExactlyOnceInOrder == Spec => []TickOrder
<1>1. IInv => TickOrder
  BY DEF IInv
<1> QED BY <1>1, InitInv, Inductive, PTL DEF Spec

\* A queue that nobody is draining keeps the spinner, and so the loop, active.
THEOREM NeverStranded == Spec => []SpinnerArmed
<1>1. IInv => SpinnerArmed
  BY DEF IInv
<1> QED BY <1>1, InitInv, Inductive, PTL DEF Spec

\* uv_run returns to Start only after every queued callback was taken.
THEOREM EmptyAtExit == Spec => []DrainedBeforeExit
<1>1. IInv => DrainedBeforeExit
  BY DEF IInv
<1> QED BY <1>1, InitInv, Inductive, PTL DEF Spec

\* One drain makes at most max(1, maxTickDepth) passes.
THEOREM BoundedPasses == Spec => []DepthBounded
<1>1. Init => TypeOK /\ DepthBounded
  BY InitInv, DepthAssumption DEF IInv, Init, DepthBounded
<1>2. TypeOK /\ DepthBounded /\ [Next]_vars => DepthBounded'
  <2> SUFFICES ASSUME TypeOK, DepthBounded, [Next]_vars PROVE DepthBounded'
    OBVIOUS
  <2>1. tickDepth \in Nat /\ maxTickDepth \in Int
    BY DepthAssumption DEF TypeOK
  <2>2. CASE UNCHANGED tickDepth
    BY <2>2 DEF DepthBounded
  <2>3. CASE tickDepth' = 0
    BY <2>1, <2>3 DEF DepthBounded
  <2>4. CASE tickDepth' = tickDepth + 1 /\ tickDepth < maxTickDepth
    BY <2>1, <2>4 DEF DepthBounded
  <2>5. CASE tickDepth' = 1
    BY <2>1, <2>5 DEF DepthBounded
  <2>6. ASSUME NEW fs, NEW need, NEW below, tickCallback(fs, need, below)
        PROVE  DepthBounded'
    BY <2>1, <2>2, <2>3, <2>4, <2>5, <2>6 DEF tickCallback, TooDeep, tickDone, queueVars
  <2>7. CASE PassEnds
    BY <2>3, <2>4, <2>7 DEF PassEnds, AnotherPass, tickDone
  <2>8. CASE TockThrows
    BY <2>2, <2>8 DEF TockThrows, tickDone
  <2> QED BY <2>2, <2>6, <2>7, <2>8 DEF Next, vars, queueVars, MakeCallback, CallbackReturns,
       CallbackThrows, Spin, TakeTock, TockReturns, nextTick, HandlerReturns, HandlerThrows,
       LoopEnds, ProcessExit, ExitReturns, ExitThrows, StartReturns
<1> QED BY <1>1, <1>2, TypeCorrect, PTL DEF Spec
=============================================================================
