------------------------------ MODULE Writable ------------------------------
(***************************************************************************)
(* lib/_stream_writable.js: write(), end() and onwrite, the callback an    *)
(* implementation's _write must call once per chunk, at once (still inside *)
(* _write) or later.                                                       *)
(*                                                                         *)
(* onwrite calls user code (the write callback, listeners of 'finish' and  *)
(* 'error') half way through, and that code may call write() and end()     *)
(* again.  So the call stack is state: a frame for each activation of      *)
(* user code, and one for each _write that has not returned.  A chunk is   *)
(* its number, in the order of the write() calls.                          *)
(***************************************************************************)
EXTENDS Integers, Sequences, FiniteSets

CONSTANTS
  highWaterMark, lowWaterMark,
  Sizes,           \* lengths a chunk may have
  MaxChunks,       \* bound: chunks ever written
  Callbacks,       \* may write() be given a callback (TRUE), or none (FALSE)?
  MayFail,         \* may _write report an error?
  Reentrant        \* may write() be called while onwrite or end() is half way through?

ASSUME MarkAssumption == highWaterMark \in Nat /\ lowWaterMark \in Nat
ASSUME SizeAssumption == Sizes \subseteq Nat /\ MaxChunks \in Nat
ASSUME UserAssumption == Callbacks \subseteq BOOLEAN /\ MayFail \in BOOLEAN /\ Reentrant \in BOOLEAN

VARIABLES
  state,     \* the fields of WritableState but for the buffer
  buffer,    \* chunks waiting for an earlier one
  chunk,     \* length and callback of every chunk written so far, in order
  inflight,  \* chunks given to _write and not yet called back
  ticks,     \* what was passed to process.nextTick, in order
  stack,     \* activations, oldest first
  sunk,      \* history: chunks given to _write, in order
  done,      \* history: chunks written without error
  failed     \* history: chunks whose _write reported an error

vars == <<state, buffer, chunk, inflight, ticks, stack, sunk, done, failed>>

Chunks == 1..Len(chunk)

(***************************************************************************)
(* Frames.  "write": _write called by write(), of end() if end is set.     *)
(* "proc": _write called by onwrite's loop over the buffer, at index c.    *)
(* "cb", "errCb": a write callback called by onwrite.  "error", "finish":  *)
(* listeners called by onwrite (an 'error' without any would be thrown).   *)
(* "endFinish": listeners of 'finish' called by end().  "tick", "drain": a *)
(* write callback and the listeners of 'drain', from process.nextTick.     *)
(***************************************************************************)
Frame(k, c, end) == [k |-> k, c |-> c, end |-> end]
UserFrames == {"cb", "errCb", "error", "finish", "endFinish", "tick", "drain"}
ImplFrames == {"write", "proc"}

Top == stack[Len(stack)]
Pop == SubSeq(stack, 1, Len(stack) - 1)
AtBase == stack = <<>>
At(k) == ~AtBase /\ Top.k = k
\* User code also runs off the event loop, with none of these frames below it.
InUserCode == ~AtBase => Top.k \in UserFrames

NoChunk == 0

Init ==
  /\ state = [length |-> 0, writing |-> FALSE, sync |-> FALSE, bufferProcessing |-> FALSE,
              writelen |-> 0, writecb |-> NoChunk, needDrain |-> FALSE,
              ending |-> FALSE, ended |-> FALSE, finishing |-> FALSE, finished |-> FALSE]
  /\ buffer = <<>> /\ chunk = <<>> /\ inflight = {} /\ ticks = <<>> /\ stack = <<>>
  /\ sunk = <<>> /\ done = {} /\ failed = {}

-----------------------------------------------------------------------------
\* What onwrite finds in writecb when d is chunk c.
writecb(c, d) == IF d.cb THEN c ELSE NoChunk

\* The state handed to _write for chunk c, which is d.
Writing(s, c, d) ==
  [s EXCEPT !.writing = TRUE, !.sync = TRUE, !.writelen = d.len, !.writecb = writecb(c, d)]

\* write() adds the length, and remembers to emit 'drain' if it returns false.
Counted(s, l) ==
  LET s1 == [s EXCEPT !.length = @ + l]
  IN  IF s1.length < highWaterMark THEN s1 ELSE [s1 EXCEPT !.needDrain = TRUE]

MustQueue(s) == s.writing

\* The body of write(d), from state s0; byEnd: called by end().  What end() does
\* after a write() that only queued is done here.
Write(s0, d, byEnd) ==
  LET c == Len(chunk) + 1
      s == Counted(s0, d.len)
  IN  /\ chunk' = Append(chunk, d)
      /\ \/ /\ MustQueue(s)
            /\ buffer' = Append(buffer, c)
            /\ state' = [s EXCEPT !.ended = byEnd]
            /\ UNCHANGED <<stack, inflight, sunk>>
         \/ /\ ~MustQueue(s)
            /\ state' = Writing(s, c, d)
            /\ stack' = Append(stack, Frame("write", 0, byEnd))
            /\ inflight' = inflight \cup {c} /\ sunk' = Append(sunk, c)
            /\ UNCHANGED buffer

\* end() has returned, and a write callback that onwrite runs finds the queue and
\* _write idle.
Settled ==
  /\ state.ending = state.ended
  /\ (\E k \in 1..Len(stack) : stack[k].k = "cb") => buffer = <<>> /\ ~state.writing

\* Where the bounds and the constants let user code write.
MayWrite ==
  /\ InUserCode /\ Len(chunk) < MaxChunks
  /\ Reentrant \/ Settled

mayAccept == ~state.ended

write ==
  /\ MayWrite /\ mayAccept
  /\ \E l \in Sizes, b \in Callbacks : Write(state, [len |-> l, cb |-> b], FALSE)
  /\ UNCHANGED <<ticks, done, failed>>

\* write() after end(): the callback and the listeners of 'error' get an error.  (Only
\* off the event loop here: inside listeners it would only nest more of them.)
writeAfterEnd ==
  /\ AtBase /\ state.ended
  /\ \E b \in Callbacks : stack' = <<Frame(IF b THEN "errCb" ELSE "error", 0, FALSE)>>
  /\ UNCHANGED <<state, buffer, chunk, inflight, ticks, sunk, done, failed>>

\* end(chunk), which gives write() no callback.  A second end() is ignored.
endChunk ==
  /\ MayWrite /\ ~state.ending
  /\ \E l \in Sizes : Write([state EXCEPT !.ending = TRUE], [len |-> l, cb |-> FALSE], TRUE)
  /\ UNCHANGED <<ticks, done, failed>>

NothingLeft == state.length = 0 /\ ~state.finishing /\ ~state.finished

\* end() without a chunk.
end ==
  /\ InUserCode /\ ~state.ending
  /\ IF NothingLeft
     THEN /\ state' = [state EXCEPT !.ending = TRUE, !.finishing = TRUE]
          /\ stack' = Append(stack, Frame("endFinish", 0, TRUE))
     ELSE /\ state' = [state EXCEPT !.ending = TRUE, !.ended = TRUE]
          /\ UNCHANGED stack
  /\ UNCHANGED <<buffer, chunk, inflight, ticks, sunk, done, failed>>

-----------------------------------------------------------------------------
\* The for loop of onwrite at index c, entered from the frames "below": call
\* _write for the next chunk, or leave the loop and drop what was processed.
Process(s, fl, c, below) ==
  IF c < Len(buffer)
  THEN LET next == buffer[c + 1]
       IN  /\ state' = Writing(s, next, chunk[next])
           /\ stack' = Append(below, Frame("proc", c, FALSE))
           /\ inflight' = fl \cup {next} /\ sunk' = Append(sunk, next)
           /\ UNCHANGED buffer
  ELSE /\ state' = [s EXCEPT !.bufferProcessing = FALSE]
       /\ stack' = below /\ buffer' = <<>> /\ inflight' = fl
       /\ UNCHANGED sunk

\* Mutant: forgets that end() may have been called before the last chunk was done.
Finishes_Never(s) == FALSE

Finishes(s) == s.length = 0 /\ (s.ended \/ s.ending) /\ ~s.finished /\ ~s.finishing

\* Mutant: 'drain' is forgotten unless the queue is exactly at the mark.
Drains_Exactly(s) == s.length = lowWaterMark + 1 /\ s.needDrain

Drains(s) == s.length <= lowWaterMark /\ s.needDrain

\* Mutant: a nested onwrite starts a second loop over the same buffer.
MayProcess_Nested(s) == buffer # <<>>

MayProcess(s) == ~s.bufferProcessing /\ buffer # <<>>

\* onwrite after the user's callback: emit 'finish', or schedule 'drain' and go on
\* with the buffer, unless a loop over it is running below.
AfterCb(s, fl, tk, below) ==
  \/ /\ Finishes(s)
     /\ state' = [s EXCEPT !.finishing = TRUE]
     /\ stack' = Append(below, Frame("finish", 0, FALSE))
     /\ ticks' = tk /\ inflight' = fl
     /\ UNCHANGED <<buffer, sunk>>
  \/ /\ ~Finishes(s)
     /\ ticks' = IF Drains(s) THEN Append(tk, "drain") ELSE tk
     /\ IF MayProcess(s)
        THEN Process([s EXCEPT !.bufferProcessing = TRUE], fl, 0, below)
        ELSE /\ state' = s /\ stack' = below /\ inflight' = fl
             /\ UNCHANGED <<buffer, sunk>>

\* What every onwrite resets.
Reset(s) == [s EXCEPT !.writing = FALSE, !.writelen = 0, !.writecb = NoChunk]

Released(s) == [Reset(s) EXCEPT !.length = @ - s.writelen]

\* The implementation completes c inside the _write that got it, or off the loop.
MayComplete(c) ==
  /\ c \in inflight
  /\ ~AtBase => Top.k \in ImplFrames /\ sunk[Len(sunk)] = c

\* onwrite(null).  In sync mode the user's callback is deferred to the next tick.
onwrite(c) ==
  /\ MayComplete(c)
  /\ LET cb == state.writecb
         left == inflight \ {c}
     IN  \/ /\ cb = NoChunk
            /\ AfterCb(Released(state), left, ticks, stack)
         \/ /\ cb # NoChunk /\ state.sync
            /\ AfterCb(Released(state), left, Append(ticks, "cb"), stack)
         \/ /\ cb # NoChunk /\ ~state.sync
            /\ state' = Released(state) /\ inflight' = left
            /\ stack' = Append(stack, Frame("cb", 0, FALSE))
            /\ UNCHANGED <<buffer, ticks, sunk>>
  /\ done' = done \cup {c}
  /\ UNCHANGED <<chunk, failed>>

\* onwrite(er): the callback gets the error, then 'error' is emitted; the buffer is
\* left alone and the length of the chunk is not given back.
onwriteError(c) ==
  /\ MayFail /\ MayComplete(c)
  /\ inflight' = inflight \ {c}
  /\ state' = Reset(state)
  /\ \/ /\ state.writecb # NoChunk /\ ~state.sync
        /\ stack' = Append(stack, Frame("errCb", 0, FALSE)) /\ UNCHANGED ticks
     \/ /\ state.writecb = NoChunk \/ state.sync
        /\ stack' = Append(stack, Frame("error", 0, FALSE))
        /\ ticks' = IF state.writecb = NoChunk THEN ticks ELSE Append(ticks, "cb")
  /\ failed' = failed \cup {c}
  /\ UNCHANGED <<buffer, chunk, sunk, done>>

\* User code returns into onwrite, end() or the event loop.
CbReturns ==
  /\ At("cb")
  /\ AfterCb(state, inflight, ticks, Pop)
  /\ UNCHANGED <<chunk, done, failed>>

ErrCbReturns ==
  /\ At("errCb")
  /\ stack' = Append(Pop, Frame("error", 0, FALSE))
  /\ UNCHANGED <<state, buffer, chunk, inflight, ticks, sunk, done, failed>>

ListenerReturns ==
  /\ ~AtBase /\ Top.k \in UserFrames \ {"cb", "errCb"}
  /\ state' = [state EXCEPT !.finished = @ \/ Top.k \in {"finish", "endFinish"},
                            !.ended = @ \/ Top.end]
  /\ stack' = Pop
  /\ UNCHANGED <<buffer, chunk, inflight, ticks, sunk, done, failed>>

\* _write returns to write(), and write() to end() where end() called it.
WriteReturns ==
  /\ At("write")
  /\ state' = [state EXCEPT !.sync = FALSE, !.ended = @ \/ Top.end]
  /\ stack' = Pop
  /\ UNCHANGED <<buffer, chunk, inflight, ticks, sunk, done, failed>>

\* _write returns to the loop of onwrite, which goes on only if the chunk is done.
ProcReturns ==
  /\ At("proc")
  /\ IF state.writing
     THEN /\ state' = [state EXCEPT !.sync = FALSE, !.bufferProcessing = FALSE]
          /\ buffer' = SubSeq(buffer, Top.c + 2, Len(buffer))
          /\ stack' = Pop
          /\ UNCHANGED <<inflight, sunk>>
     ELSE Process([state EXCEPT !.sync = FALSE], inflight, Top.c + 1, Pop)
  /\ UNCHANGED <<chunk, ticks, done, failed>>

\* The tick queue runs a deferred callback, or the function that emits 'drain'.
RunTick ==
  /\ AtBase /\ ticks # <<>>
  /\ ticks' = Tail(ticks)
  /\ \/ /\ Head(ticks) = "cb" /\ stack' = <<Frame("tick", 0, FALSE)>>
        /\ UNCHANGED state
     \/ /\ Head(ticks) = "drain" /\ ~state.needDrain
        /\ UNCHANGED <<state, stack>>
     \/ /\ Head(ticks) = "drain" /\ state.needDrain
        /\ state' = [state EXCEPT !.needDrain = FALSE]
        /\ stack' = <<Frame("drain", 0, FALSE)>>
  /\ UNCHANGED <<buffer, chunk, inflight, sunk, done, failed>>

Next ==
  \/ write \/ writeAfterEnd \/ endChunk \/ end
  \/ \E c \in 1..MaxChunks : onwrite(c) \/ onwriteError(c)
  \/ CbReturns \/ ErrCbReturns \/ ListenerReturns \/ WriteReturns \/ ProcReturns
  \/ RunTick

Spec == Init /\ [][Next]_vars

(***************************************************************************)
(* Fairness.  Calls return; the tick queue is drained; an implementation   *)
(* calls back for every chunk it got, as the contract of _write demands.   *)
(***************************************************************************)
Fairness ==
  /\ WF_vars(CbReturns) /\ WF_vars(ErrCbReturns) /\ WF_vars(ListenerReturns)
  /\ WF_vars(WriteReturns) /\ WF_vars(ProcReturns)
  /\ SF_vars(RunTick)
  /\ \A c \in 1..MaxChunks : SF_vars(onwrite(c) \/ onwriteError(c))

FairSpec == Spec /\ Fairness
-----------------------------------------------------------------------------
TypeOK ==
  /\ state \in [length : Nat, writing : BOOLEAN, sync : BOOLEAN, bufferProcessing : BOOLEAN,
                writelen : Nat, writecb : Nat, needDrain : BOOLEAN, ending : BOOLEAN,
                ended : BOOLEAN, finishing : BOOLEAN, finished : BOOLEAN]
  /\ buffer \in Seq(Nat) /\ chunk \in Seq([len : Sizes, cb : BOOLEAN]) /\ inflight \subseteq Chunks
  /\ ticks \in Seq({"cb", "drain"})
  /\ stack \in Seq([k : UserFrames \cup ImplFrames, c : Nat, end : BOOLEAN])
  /\ sunk \in Seq(Nat) /\ done \subseteq Chunks /\ failed \subseteq Chunks

\* "If we're already writing something, then just put this in the queue, and wait our
\* turn": each chunk reaches _write at most once, and in the order of the write()
\* calls, with synchronous and asynchronous implementations mixed.  Only a chunk written
\* after an error, which leaves the chunks behind it in the buffer, overtakes those.
InOrder ==
  \A j, k \in 1..Len(sunk) : j < k =>
    /\ sunk[j] # sunk[k]
    /\ sunk[j] < sunk[k] \/ \E i \in 1..(j - 1) : sunk[i] \in failed

\* "So that we don't end up in an overlapped onwrite situation": _write never gets a
\* chunk before the one before it was called back, and onwrite finds the callback
\* and the length of the chunk it is about.
OneAtATime ==
  /\ Cardinality(inflight) <= 1
  /\ \A c \in inflight : /\ state.writing /\ state.writelen = chunk[c].len
                        /\ state.writecb = writecb(c, chunk[c])

\* The length of the chunks that are not written yet.
Unwritten ==
  LET sum[c \in 0..Len(chunk)] == IF c = 0 THEN 0 ELSE sum[c - 1] + (IF c \in done THEN 0 ELSE chunk[c].len)
  IN  sum[Len(chunk)]

\* The length that decides about write()'s result, 'drain' and 'finish' is that of
\* the chunks not yet written, through every nesting of write() and onwrite.
LengthExact == state.length = Unwritten

\* "Emit 'finish' at the very end": every chunk has been written by then.
FinishLast == state.finishing => Chunks \subseteq done

\* A writer that was told to wait is not forgotten: when nothing is queued or being
\* written any more, 'drain' is on its way (or the stream is finishing).
DrainPromised ==
  AtBase /\ state.needDrain /\ inflight = {} /\ buffer = <<>> /\ failed = {}
    => state.finishing \/ \E k \in 1..Len(ticks) : ticks[k] = "drain"

\* Chunks reach _write in order and one at a time, whether it calls back at once or later.
WrittenInOrder == InOrder /\ OneAtATime

\* The length is that of the chunks not yet written, so that 'finish' comes after the last
\* of them and a writer that waits for 'drain' gets it.
Accounted == TypeOK /\ LengthExact /\ FinishLast /\ DrainPromised

\* After end(), 'finish' is emitted: no chunk is left behind in the buffer and no
\* completion is lost, if no chunk fails.
FinishComes == state.ending ~> (state.finished \/ failed # {})
=============================================================================
