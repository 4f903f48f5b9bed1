------------------------------ MODULE Readable ------------------------------
(***************************************************************************)
(* lib/_stream_readable.js without pipe and old mode: read(n), onread (the *)
(* callback an implementation's _read must call once, at once or later)    *)
(* and endReadable.  No encoding is set.                                   *)
(*                                                                         *)
(* Bytes leave in the order they came, so only their number is kept.  What *)
(* is hard is the call stack: read() decides what to return before it      *)
(* calls _read, which may complete inside the call, and onread calls user  *)
(* code that calls read() again.                                           *)
(***************************************************************************)
EXTENDS Integers, Sequences

CONSTANTS
  highWaterMark, lowWaterMark,
  Amounts,     \* arguments of read(): All for none, or a number
  MaxBytes,    \* bound: bytes the source has
  MaxFrames,   \* bound: depth of the call stack at which user code may read
  ReadInError  \* do listeners of 'error' read?

All == -1

ASSUME MarkAssumption == highWaterMark \in Nat /\ lowWaterMark \in Nat
ASSUME AmountAssumption == Amounts \subseteq Nat \cup {All}
ASSUME BoundAssumption == MaxBytes \in Nat /\ MaxFrames \in Nat
ASSUME UserAssumption == ReadInError \in BOOLEAN

VARIABLES
  state,     \* the fields of ReadableState that decide
  buffer,    \* how many bytes the chunks in the buffer really have
  pending,   \* calls of _read that returned before their callback was called
  endTick,   \* the function that emits 'end' waits in the tick queue
  stack,     \* activations, oldest first
  produced,  \* history: bytes the source has delivered
  got,       \* history: bytes read() has returned
  ends,      \* history: how often 'end' was emitted
  failed,    \* history: _read has reported an error
  mute       \* history: the last read() gave null although its _read was called back inside
             \* it, so that nothing is under way that would emit 'readable' or 'end'

vars == <<state, buffer, pending, endTick, stack, produced, got, ends, failed, mute>>

(***************************************************************************)
(* Frames.  "read": the _read that read(nOrig) called, having decided for  *)
(* n bytes.  "more": the _read that onread called.  Both are open until    *)
(* their callback was called.  "user": code of the program; "readable",    *)
(* "error", "end": its listeners.  User code that reads at all, and every  *)
(* listener of 'readable', reads until read() gives null: it is open until *)
(* then.                                                                   *)
(***************************************************************************)
Frame(k, nOrig, n) ==
  [k |-> k, nOrig |-> nOrig, n |-> n, open |-> k \in {"read", "more", "readable"}]
ImplFrames == {"read", "more"}
UserFrames == {"user", "readable", "error", "end"}

Top == stack[Len(stack)]
Pop == SubSeq(stack, 1, Len(stack) - 1)
AtBase == stack = <<>>
At(k) == ~AtBase /\ Top.k = k
InUserCode == ~AtBase /\ Top.k \in UserFrames
Shut(s) == [s EXCEPT ![Len(s)].open = FALSE]

Init ==
  /\ state = [length |-> 0, ended |-> FALSE, endEmitted |-> FALSE, reading |-> FALSE,
              sync |-> FALSE, needReadable |-> FALSE, emittedReadable |-> FALSE]
  /\ buffer = 0 /\ pending = 0 /\ endTick = FALSE /\ stack = <<>>
  /\ produced = 0 /\ got = 0 /\ ends = 0 /\ failed = FALSE /\ mute = FALSE

-----------------------------------------------------------------------------
\* howMuchToRead(n, s), and whether it asks for a 'readable' event.
howMuchToRead(n, s) ==
  IF n = All THEN s.length
  ELSE IF n <= s.length THEN n
  ELSE IF s.ended THEN s.length ELSE 0

TooFew(n, s) == n > s.length /\ ~s.ended

\* endReadable, from state s.
endReadable(s) ==
  /\ state' = [s EXCEPT !.ended = TRUE, !.endEmitted = TRUE]
  /\ endTick' = (endTick \/ ~s.endEmitted)

\* fromList(n, list, length): how many bytes it returns; 0 is null.
fromList(n, s) ==
  IF buffer = 0 \/ s.length = 0 THEN 0
  ELSE IF n >= s.length THEN buffer ELSE n

\* read(n) gives ret bytes to its caller; read(0) asks for nothing.
Gave(below, n, ret) ==
  IF n = 0 THEN below ELSE [below EXCEPT ![Len(below)].open = (ret # 0)]

\* The end of read(nOrig), called from "below": return n bytes.
Finish(s, nOrig, n, below) ==
  LET ret  == IF n > 0 THEN fromList(n, s) ELSE 0
      left == s.length - (IF ret = 0 THEN 0 ELSE n)
  IN  /\ state' = [s EXCEPT !.length = left,
                            !.needReadable = @ \/ ret = 0 \/ (left = 0 /\ ~s.ended)]
      /\ buffer' = buffer - ret /\ got' = got + ret
      /\ stack' = Gave(below, nOrig, ret)

\* Mutant: reads although a read is under way.
doRead_Again(s, n) == (s.needReadable \/ s.length - n <= highWaterMark) /\ ~s.ended

\* read() calls _read when somebody waits for it or the buffer is low.
doRead(s, n) ==
  (s.needReadable \/ s.length - n <= highWaterMark) /\ ~s.ended /\ ~s.reading

\* "If we've ended, and we're now clear, then finish it up."
IsOver(s, n) == n = 0 /\ s.ended

read(nOrig) ==
  /\ InUserCode /\ Len(stack) < MaxFrames
  /\ At("error") => ReadInError
  /\ LET n == howMuchToRead(nOrig, state)
         s == [state EXCEPT !.emittedReadable = @ /\ nOrig = 0,
                            !.needReadable = @ \/ TooFew(nOrig, state)]
     IN  \/ /\ IsOver(s, n)
            /\ endReadable(s)
            /\ stack' = Gave(stack, nOrig, 0)
            /\ UNCHANGED <<buffer, got>>
         \/ /\ ~IsOver(s, n) /\ doRead(s, n)
            /\ state' = [s EXCEPT !.reading = TRUE, !.sync = TRUE,
                                  !.needReadable = @ \/ s.length = 0]
            /\ stack' = Append(stack, Frame("read", nOrig, n))
            /\ UNCHANGED <<buffer, endTick, got>>
         \/ /\ ~IsOver(s, n) /\ ~doRead(s, n)
            /\ Finish(s, nOrig, n, stack)
            /\ UNCHANGED endTick
  /\ mute' = (mute /\ nOrig = 0)
  /\ UNCHANGED <<pending, produced, ends, failed>>

\* If _read completed inside the call, decide again.
Again(nOrig, n, s) == IF s.reading THEN n ELSE howMuchToRead(nOrig, s)

\* _read returns to read().
ReadReturns ==
  /\ At("read")
  /\ LET s == [state EXCEPT !.sync = FALSE,
                 !.needReadable = @ \/ (~state.reading /\ TooFew(Top.nOrig, state))]
     IN  Finish(s, Top.nOrig, Again(Top.nOrig, Top.n, s), Pop)
  /\ pending' = IF Top.open THEN pending + 1 ELSE pending
  /\ mute' = (mute \/ (Top.nOrig # 0 /\ ~state.reading /\ got' = got))
  /\ UNCHANGED <<endTick, produced, ends, failed>>

\* _read returns to onread, which returns.
MoreReturns ==
  /\ At("more")
  /\ stack' = Pop
  /\ pending' = IF Top.open THEN pending + 1 ELSE pending
  /\ UNCHANGED <<state, buffer, endTick, produced, got, ends, failed, mute>>

-----------------------------------------------------------------------------
\* The implementation calls back inside _read, or off the event loop.
Completes ==
  \/ /\ ~AtBase /\ Top.k \in ImplFrames /\ Top.open
     /\ UNCHANGED pending
  \/ /\ AtBase /\ pending > 0
     /\ pending' = pending - 1

Below == IF AtBase THEN stack ELSE Shut(stack)

\* Emit 'readable', unless that was done since the last read().
emitReadable(s) ==
  /\ state' = [s EXCEPT !.needReadable = FALSE, !.emittedReadable = TRUE]
  /\ stack' = IF s.emittedReadable THEN Below ELSE Append(Below, Frame("readable", 0, 0))

\* Mutant: tells nobody about data that arrives behind other data.
Tells_OnlyWhenEmpty(s) == s.needReadable /\ ~s.sync /\ buffer = 0

Tells(s) == s.needReadable /\ ~s.sync

Arrived(n) == state.length + n

\* onread(null, chunk) with n bytes.
onreadData(n) ==
  /\ Completes
  /\ produced + n <= MaxBytes /\ produced' = produced + n
  /\ buffer' = buffer + n
  /\ LET s == [state EXCEPT !.reading = FALSE, !.length = Arrived(n)]
     IN  \/ /\ s.length <= lowWaterMark
            /\ state' = [s EXCEPT !.reading = TRUE]
            /\ stack' = Append(Below, Frame("more", 0, 0))
         \/ /\ s.length > lowWaterMark /\ Tells(s)
            /\ emitReadable(s)
         \/ /\ s.length > lowWaterMark /\ ~Tells(s)
            /\ state' = s /\ stack' = Below
  /\ UNCHANGED <<endTick, got, ends, failed, mute>>

\* onread(null, null).
onreadEnd ==
  /\ Completes
  /\ LET s == [state EXCEPT !.reading = FALSE, !.ended = TRUE]
     IN  \/ /\ s.sync
            /\ state' = s /\ stack' = Below /\ UNCHANGED endTick
         \/ /\ ~s.sync /\ s.length > 0
            /\ emitReadable(s) /\ UNCHANGED endTick
         \/ /\ ~s.sync /\ s.length = 0
            /\ endReadable(s) /\ stack' = Below
  /\ UNCHANGED <<buffer, produced, got, ends, failed, mute>>

\* onread(er).
onreadError ==
  /\ Completes
  /\ state' = [state EXCEPT !.reading = FALSE]
  /\ stack' = Append(Below, Frame("error", 0, 0))
  /\ failed' = TRUE
  /\ UNCHANGED <<buffer, endTick, produced, got, ends, mute>>

\* The event loop calls code of the program.
UserRuns ==
  /\ AtBase
  /\ stack' = <<Frame("user", 0, 0)>>
  /\ UNCHANGED <<state, buffer, pending, endTick, produced, got, ends, failed, mute>>

UserReturns ==
  /\ InUserCode /\ ~Top.open
  /\ stack' = Pop
  /\ UNCHANGED <<state, buffer, pending, endTick, produced, got, ends, failed, mute>>

EmitEnd ==
  /\ AtBase /\ endTick
  /\ endTick' = FALSE /\ ends' = ends + 1
  /\ stack' = <<Frame("end", 0, 0)>>
  /\ UNCHANGED <<state, buffer, pending, produced, got, failed, mute>>

onread == (\E n \in 1..MaxBytes : onreadData(n)) \/ onreadEnd \/ onreadError

Next ==
  \/ \E n \in Amounts : read(n)
  \/ ReadReturns \/ MoreReturns \/ onread \/ UserRuns \/ UserReturns \/ EmitEnd

Spec == Init /\ [][Next]_vars

(***************************************************************************)
(* Fairness.  Calls return, the tick queue is drained, the implementation  *)
(* calls back for every _read, and user code reads until it gets null.     *)
(***************************************************************************)
Consume == ~AtBase /\ Top.open /\ \E n \in Amounts \ {0} : read(n)

Fairness ==
  /\ WF_vars(ReadReturns) /\ WF_vars(MoreReturns) /\ SF_vars(UserReturns)
  /\ SF_vars(EmitEnd) /\ SF_vars(AtBase /\ onread) /\ SF_vars(Consume)

FairSpec == Spec /\ Fairness
-----------------------------------------------------------------------------
TypeOK ==
  /\ state \in [length : Nat, ended : BOOLEAN, endEmitted : BOOLEAN, reading : BOOLEAN,
                sync : BOOLEAN, needReadable : BOOLEAN, emittedReadable : BOOLEAN]
  /\ buffer \in Nat /\ pending \in Nat /\ endTick \in BOOLEAN
  /\ stack \in Seq([k : ImplFrames \cup UserFrames, nOrig : Nat \cup {All}, n : Nat,
                    open : BOOLEAN])
  /\ produced \in Nat /\ got \in Nat /\ ends \in Nat /\ failed \in BOOLEAN /\ mute \in BOOLEAN

\* The length that decides about every read() is that of the chunks in the buffer,
\* although read() subtracts an amount it decided on before _read ran.
LengthExact == state.length = buffer

\* "If we're already reading, then it's unnecessary": at most one _read is under way,
\* and the flag says so, through every nesting of read() and onread.
OneRead ==
  LET open == {i \in 1..Len(stack) : stack[i].k \in ImplFrames /\ stack[i].open}
  IN  /\ \A i, j \in open : i = j
      /\ pending <= (IF open = {} THEN 1 ELSE 0)
      /\ state.reading <=> pending = 1 \/ open # {}

\* 'end' is emitted once, and only when read() has returned every byte.
EndLast == ends <= 1 /\ (ends = 1 \/ endTick => got = produced /\ state.ended)

\* Through every nesting of read(), _read and onread one _read at a time is under way, no byte
\* is counted twice or forgotten, and 'end' comes after the last.
BytesSound == TypeOK /\ LengthExact /\ OneRead /\ EndLast

\* 'end' is "emitted when the stream has received an EOF": a consumer that reads until
\* it gets null, once it has begun and then at every 'readable', gets all data and then
\* 'end', if no _read fails.  Only a read() whose _read completes inside it, with fewer
\* bytes than asked for or with the end, may leave its consumer waiting for ever; one
\* that reads again is not lost.
EndComes == state.reading ~> (ends = 1 \/ failed \/ []mute)
=============================================================================
