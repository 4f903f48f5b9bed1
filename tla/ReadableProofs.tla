--------------------------- MODULE ReadableProofs ---------------------------
(***************************************************************************)
(* read(), _read and onread keep their books through every nesting, for    *)
(* any marks, amounts and depth of the call stack.                         *)
(*                                                                         *)
(* One _read at a time needs no hypothesis: only the newest activation can *)
(* still owe its callback.  That the length is exact rests on listeners of *)
(* 'error' that do not read: then nothing is taken from the buffer while a *)
(* read() waits for the _read it called, and the amount it has decided on  *)
(* is still there when it returns.  That 'end' comes last also needs that  *)
(* nobody calls read(0), which takes an ended stream for an empty one.     *)
(***************************************************************************)
EXTENDS Readable, SequenceTheorems, TLAPS

StateType == [length : Int, ended : BOOLEAN, endEmitted : BOOLEAN, reading : BOOLEAN,
              sync : BOOLEAN, needReadable : BOOLEAN, emittedReadable : BOOLEAN]
FrameType == [k : ImplFrames \cup UserFrames, nOrig : Nat \cup {All}, n : Int, open : BOOLEAN]

\* The types, while lengths may still go wrong.
Shape ==
  /\ state \in StateType /\ stack \in Seq(FrameType)
  /\ buffer \in Int /\ pending \in Nat /\ endTick \in BOOLEAN
  /\ produced \in Nat /\ got \in Int /\ ends \in Nat /\ failed \in BOOLEAN /\ mute \in BOOLEAN

\* A read() was called by user code.
Callers(st) == \A i \in 1..Len(st) : st[i].k = "read" => i > 1 /\ st[i - 1].k \in UserFrames

\* Only the newest activation can be a _read that owes its callback.
OpenAtTop(st) == \A i \in 1..Len(st) : st[i].k \in ImplFrames /\ st[i].open => i = Len(st)

Owing(st) == st # <<>> /\ st[Len(st)].k \in ImplFrames /\ st[Len(st)].open

\* The flag is set while the newest activation owes a callback or one is pending.
Flagged(reading, p, st) ==
  IF reading THEN (p = 0 /\ Owing(st)) \/ (p = 1 /\ ~Owing(st)) ELSE p = 0 /\ ~Owing(st)

Nested == Shape /\ Callers(stack) /\ OpenAtTop(stack) /\ Flagged(state.reading, pending, stack)

\* Above a read() that waits for its _read nothing reads, and the bytes it decided
\* on are there.
Waits(st, sync, length) ==
  \A i \in 1..Len(st) : st[i].k = "read" =>
    /\ \A j \in 1..Len(st) : i < j => st[j].k \in {"more", "error"}
    /\ st[i].n \in 0..length /\ sync

FramesPositive(st) == \A i \in 1..Len(st) : st[i].n \in Nat

Counted ==
  /\ Nested /\ Waits(stack, state.sync, state.length) /\ FramesPositive(stack)
  /\ state.length \in Nat /\ buffer = state.length
  /\ got \in Nat /\ produced = got + buffer

\* The end was reported by the last _read; 'end' waits or was emitted once.
Ended ==
  /\ state.ended => ~state.reading
  /\ state.endEmitted => state.ended /\ state.length = 0
  /\ IF state.endEmitted THEN (endTick /\ ends = 0) \/ (~endTick /\ ends = 1) ELSE ~endTick /\ ends = 0

-----------------------------------------------------------------------------
\* A call stack, without its newest activation, and with one more.
LEMMA StackFacts ==
  ASSUME NEW st \in Seq(FrameType)
  PROVE  /\ Len(st) \in Nat /\ (st = <<>> <=> Len(st) = 0)
         /\ \A i \in 1..Len(st) : st[i] \in FrameType
         /\ \A f \in FrameType : /\ Append(st, f) \in Seq(FrameType)
                                 /\ Len(Append(st, f)) = Len(st) + 1
                                 /\ Append(st, f)[Len(st) + 1] = f
                                 /\ \A i \in 1..Len(st) : Append(st, f)[i] = st[i]
         /\ st # <<>> => /\ SubSeq(st, 1, Len(st) - 1) \in Seq(FrameType)
                         /\ Len(SubSeq(st, 1, Len(st) - 1)) = Len(st) - 1
                         /\ \A i \in 1..(Len(st) - 1) : SubSeq(st, 1, Len(st) - 1)[i] = st[i]
<1>1. Len(st) \in Nat /\ \A i \in 1..Len(st) : st[i] \in FrameType
  BY LenProperties, ElementOfSeq
<1>2. st = <<>> <=> Len(st) = 0
  BY EmptySeq
<1>3. ASSUME NEW f \in FrameType
      PROVE  /\ Append(st, f) \in Seq(FrameType) /\ Len(Append(st, f)) = Len(st) + 1
             /\ Append(st, f)[Len(st) + 1] = f
             /\ \A i \in 1..Len(st) : Append(st, f)[i] = st[i]
  BY AppendProperties
<1>4. ASSUME st # <<>>
      PROVE  /\ SubSeq(st, 1, Len(st) - 1) \in Seq(FrameType)
             /\ Len(SubSeq(st, 1, Len(st) - 1)) = Len(st) - 1
             /\ \A i \in 1..(Len(st) - 1) : SubSeq(st, 1, Len(st) - 1)[i] = st[i]
  <2>1. PICK m \in Int : m = Len(st) - 1
    BY <1>1
  <2>2. 1 <= m + 1 /\ m <= Len(st)
    BY <1>1, <1>2, <1>4, <2>1
  <2>3. \A i \in 1..m : i \in 1..Len(st)
    BY <1>1, <2>2
  <2>4. \A i \in 1..m : st[i] \in FrameType
    BY <1>1, <2>3
  <2>5. SubSeq(st, 1, m) = [i \in 1..m |-> st[i]]
    OBVIOUS
  <2>6. m \in Nat
    BY <2>2
  <2>7. SubSeq(st, 1, m) \in Seq(FrameType) /\ Len(SubSeq(st, 1, m)) = m
    BY <1>1, <2>2, <2>4, <2>6, SubSeqProperties
  <2>8. \A i \in 1..m : SubSeq(st, 1, m)[i] = st[i]
    BY <1>1, <2>2, <2>6, SubSeqProperties
  <2> QED BY <2>1, <2>7, <2>8
<1> QED BY <1>1, <1>2, <1>3, <1>4

\* The same activations, but for the mark at the newest one.
Marked(new, st, b) ==
  /\ new \in Seq(FrameType) /\ Len(new) = Len(st)
  /\ \A i \in 1..Len(st) : /\ new[i].k = st[i].k /\ new[i].nOrig = st[i].nOrig /\ new[i].n = st[i].n
                           /\ new[i].open = IF i = Len(st) THEN b ELSE st[i].open

LEMMA MarkTop ==
  ASSUME NEW st \in Seq(FrameType), st # <<>>, NEW b \in BOOLEAN
  PROVE  Marked([st EXCEPT ![Len(st)].open = b], st, b)
<1> DEFINE new == [st EXCEPT ![Len(st)].open = b]
<1>1. PICK n \in Nat : n = Len(st)
  BY StackFacts
<1>2. n \in 1..n /\ \A i \in 1..n : st[i] \in FrameType
  BY <1>1, StackFacts
<1>3. DOMAIN st = 1..n
  BY <1>1, LenProperties
<1> DEFINE f == [st[n] EXCEPT !.open = b]
<1>4. f \in FrameType /\ f.k = st[n].k /\ f.nOrig = st[n].nOrig /\ f.n = st[n].n /\ f.open = b
  BY <1>2 DEF FrameType
<1>5. new = [st EXCEPT ![n] = f]
  BY <1>1
<1> HIDE DEF f, new
<1>6. new \in Seq(FrameType) /\ Len(new) = n
  BY <1>1, <1>2, <1>4, <1>5, ExceptSeq
<1>7. \A i \in 1..n : new[i] = IF i = n THEN f ELSE st[i]
  BY <1>3, <1>5
<1>8. \A i \in 1..n : /\ new[i].k = st[i].k /\ new[i].nOrig = st[i].nOrig /\ new[i].n = st[i].n
                      /\ new[i].open = IF i = n THEN b ELSE st[i].open
  BY <1>4, <1>7
<1>9. Marked(new, st, b)
  BY <1>1, <1>6, <1>8 DEF Marked
<1> QED BY <1>9 DEF new

-----------------------------------------------------------------------------
\* Activations that wait for no callback, and where one is added, removed or marked.
Nest(st) == Callers(st) /\ OpenAtTop(st)
NoRead(st) == \A i \in 1..Len(st) : st[i].k # "read"
UserOnTop(st) == st # <<>> /\ st[Len(st)].k \in UserFrames
Kept(new, st) == \E b \in BOOLEAN : Marked(new, st, b)

LEMMA MarkedNest ==
  ASSUME NEW st \in Seq(FrameType), NEW new, NEW b \in BOOLEAN, Marked(new, st, b), Nest(st)
  PROVE  /\ new \in Seq(FrameType) /\ Nest(new) /\ Len(new) = Len(st)
         /\ Owing(new) <=> b /\ st # <<>> /\ st[Len(st)].k \in ImplFrames
<1>1. new \in Seq(FrameType) /\ Len(new) = Len(st)
  BY DEF Marked
<1>2. PICK n \in Nat : n = Len(st)
  BY StackFacts
<1>3. Len(new) = n /\ (new = <<>> <=> n = 0) /\ (st = <<>> <=> n = 0)
  BY <1>1, <1>2, StackFacts
<1>4. \A i \in 1..n : new[i].k = st[i].k /\ new[i].open = IF i = n THEN b ELSE st[i].open
  BY <1>2 DEF Marked
<1>5. \A i \in 1..n : st[i].k = "read" => i > 1 /\ st[i - 1].k \in UserFrames
  BY <1>2 DEF Nest, Callers
<1>6. \A i \in 1..n : st[i].k \in ImplFrames /\ st[i].open => i = n
  BY <1>2 DEF Nest, OpenAtTop
<1>7. \A i \in 1..n : new[i].k = "read" => i > 1 /\ new[i - 1].k \in UserFrames
  BY <1>4, <1>5
<1>8. \A i \in 1..n : new[i].k \in ImplFrames /\ new[i].open => i = n
  BY <1>4, <1>6
<1>9. Nest(new)
  BY <1>3, <1>7, <1>8 DEF Nest, Callers, OpenAtTop
<1>10. n # 0 => n \in 1..n
  OBVIOUS
<1>11. n # 0 => new[n].k = st[n].k /\ (new[n].open <=> b)
  BY <1>4, <1>10
<1>12. Owing(new) <=> b /\ st # <<>> /\ st[Len(st)].k \in ImplFrames
  BY <1>2, <1>3, <1>11 DEF Owing
<1> QED BY <1>1, <1>9, <1>12

LEMMA AppendNest ==
  ASSUME NEW st \in Seq(FrameType), NEW f \in FrameType, Nest(st), ~Owing(st),
         f.k = "read" => UserOnTop(st)
  PROVE  /\ Append(st, f) \in Seq(FrameType) /\ Nest(Append(st, f))
         /\ Owing(Append(st, f)) <=> f.k \in ImplFrames /\ f.open
<1> DEFINE new == Append(st, f)
<1>1. PICK n \in Nat : n = Len(st)
  BY StackFacts
<1>2. new \in Seq(FrameType) /\ Len(new) = n + 1 /\ new[n + 1] = f /\ \A i \in 1..n : new[i] = st[i]
  BY <1>1, StackFacts
<1> HIDE DEF new
<1>3. new # <<>> /\ (st = <<>> <=> n = 0)
  BY <1>1, <1>2, StackFacts
<1>4. \A i \in 1..n : st[i].k = "read" => i > 1 /\ st[i - 1].k \in UserFrames
  BY <1>1 DEF Nest, Callers
<1>5. \A i \in 1..n : ~(st[i].k \in ImplFrames /\ st[i].open)
  <2>1. \A i \in 1..n : st[i].k \in ImplFrames /\ st[i].open => i = n
    BY <1>1 DEF Nest, OpenAtTop
  <2>2. n # 0 => ~(st[n].k \in ImplFrames /\ st[n].open)
    BY <1>1, <1>3 DEF Owing
  <2> QED BY <2>1, <2>2
<1>6. f.k = "read" => n # 0 /\ st[n].k \in UserFrames
  BY <1>1, <1>3 DEF UserOnTop
<1>7. \A i \in 1..(n + 1) : new[i].k = "read" => i > 1 /\ new[i - 1].k \in UserFrames
  BY <1>2, <1>4, <1>6
<1>8. \A i \in 1..(n + 1) : new[i].k \in ImplFrames /\ new[i].open => i = n + 1
  BY <1>2, <1>5
<1>9. Nest(new)
  BY <1>2, <1>7, <1>8 DEF Nest, Callers, OpenAtTop
<1>10. Owing(new) <=> f.k \in ImplFrames /\ f.open
  BY <1>2, <1>3 DEF Owing
<1>11. new \in Seq(FrameType) /\ Nest(new) /\ (Owing(new) <=> f.k \in ImplFrames /\ f.open)
  BY <1>2, <1>9, <1>10
<1> QED BY <1>11 DEF new

LEMMA PopNest ==
  ASSUME NEW st \in Seq(FrameType), st # <<>>, Nest(st)
  PROVE  /\ SubSeq(st, 1, Len(st) - 1) \in Seq(FrameType)
         /\ Nest(SubSeq(st, 1, Len(st) - 1)) /\ ~Owing(SubSeq(st, 1, Len(st) - 1))
         /\ st[Len(st)].k = "read" => UserOnTop(SubSeq(st, 1, Len(st) - 1))
<1> DEFINE new == SubSeq(st, 1, Len(st) - 1)
<1>1. PICK n \in Nat : n = Len(st)
  BY StackFacts
<1>2. new \in Seq(FrameType) /\ Len(new) = n - 1 /\ \A i \in 1..(n - 1) : new[i] = st[i]
  BY <1>1, StackFacts
<1> HIDE DEF new
<1>3. n # 0 /\ (new = <<>> <=> n = 1)
  BY <1>1, <1>2, StackFacts
<1>4. \A i \in 1..n : st[i].k = "read" => i > 1 /\ st[i - 1].k \in UserFrames
  BY <1>1 DEF Nest, Callers
<1>5. \A i \in 1..n : st[i].k \in ImplFrames /\ st[i].open => i = n
  BY <1>1 DEF Nest, OpenAtTop
<1>6. \A i \in 1..(n - 1) : new[i].k = "read" => i > 1 /\ new[i - 1].k \in UserFrames
  BY <1>2, <1>4
<1>7. \A i \in 1..(n - 1) : ~(new[i].k \in ImplFrames /\ new[i].open)
  BY <1>2, <1>5
<1>8. Nest(new)
  BY <1>2, <1>6, <1>7 DEF Nest, Callers, OpenAtTop
<1>9. ~Owing(new)
  BY <1>2, <1>3, <1>7 DEF Owing
<1>10. st[n].k = "read" => UserOnTop(new)
  <2>1. SUFFICES ASSUME st[n].k = "read" PROVE UserOnTop(new)
    OBVIOUS
  <2>2. n > 1 /\ st[n - 1].k \in UserFrames
    BY <1>3, <1>4, <2>1
  <2>3. new[n - 1].k \in UserFrames /\ new # <<>>
    BY <1>2, <1>3, <2>2
  <2> QED BY <1>2, <2>3 DEF UserOnTop
<1>11. new \in Seq(FrameType) /\ Nest(new) /\ ~Owing(new) /\ (st[n].k = "read" => UserOnTop(new))
  BY <1>2, <1>8, <1>9, <1>10
<1> QED BY <1>1, <1>11 DEF new

-----------------------------------------------------------------------------
\* What the end of read(), its three ways, and a callback of _read leave behind.
SameFlags(s, t) == t.reading = s.reading /\ t.ended = s.ended /\ t.endEmitted = s.endEmitted
                   /\ t.sync = s.sync

\* read() changes nothing of its caller but whether it goes on reading.
LEMMA GaveKept ==
  ASSUME NEW below \in Seq(FrameType), below # <<>>, NEW nOrig, NEW ret
  PROVE  Kept(Gave(below, nOrig, ret), below)
<1>1. CASE nOrig = 0
  <2>1. PICK m \in Nat : m = Len(below)
    BY StackFacts
  <2>2. m \in 1..m /\ below[m] \in FrameType
    BY <2>1, StackFacts
  <2>3. below[m].open \in BOOLEAN
    BY <2>2 DEF FrameType
  <2>4. Marked(below, below, below[m].open)
    BY <2>1 DEF Marked
  <2>5. Gave(below, nOrig, ret) = below
    BY <1>1 DEF Gave
  <2> QED BY <2>3, <2>4, <2>5 DEF Kept
<1>2. CASE nOrig # 0
  <2>1. Gave(below, nOrig, ret) = [below EXCEPT ![Len(below)].open = (ret # 0)]
    BY <1>2 DEF Gave
  <2>2. (ret # 0) \in BOOLEAN
    OBVIOUS
  <2>3. Marked([below EXCEPT ![Len(below)].open = (ret # 0)], below, ret # 0)
    BY <2>2, MarkTop
  <2> QED BY <2>1, <2>2, <2>3 DEF Kept
<1> QED BY <1>1, <1>2

LEMMA FinishEffect ==
  ASSUME Shape, NEW s \in StateType, NEW nOrig, NEW n \in Int,
         NEW below \in Seq(FrameType), below # <<>>, Finish(s, nOrig, n, below)
  PROVE  /\ state' \in StateType /\ SameFlags(s, state')
         /\ buffer' \in Int /\ got' \in Int /\ Kept(stack', below)
         /\ buffer = s.length /\ n \in 0..s.length =>
              state'.length = s.length - n /\ buffer' = buffer - n /\ got' = got + n
<1> DEFINE ret == IF n > 0 THEN fromList(n, s) ELSE 0
           left == s.length - (IF ret = 0 THEN 0 ELSE n)
           need == s.needReadable \/ ret = 0 \/ (left = 0 /\ ~s.ended)
           t == [s EXCEPT !.length = left, !.needReadable = need]
<1>1. state' = t /\ buffer' = buffer - ret /\ got' = got + ret /\ stack' = Gave(below, nOrig, ret)
  BY DEF Finish
<1>2. s.length \in Int /\ buffer \in Int /\ got \in Int
  BY DEF StateType, Shape
<1>3. ret \in Int /\ left \in Int
  BY <1>2 DEF fromList
<1>4. need \in BOOLEAN
  BY DEF StateType
<1>5. buffer = s.length /\ n \in 0..s.length => ret = n /\ left = s.length - n
  BY <1>2 DEF fromList
<1> HIDE DEF ret, left, need
<1>6. t \in StateType /\ SameFlags(s, t) /\ t.length = left
  BY <1>3, <1>4 DEF StateType, SameFlags
<1> HIDE DEF t
<1>7. Kept(stack', below)
  BY <1>1, GaveKept
<1>8. state' \in StateType /\ SameFlags(s, state') /\ state'.length = left
  BY <1>1, <1>6
<1> QED BY <1>1, <1>2, <1>3, <1>5, <1>7, <1>8

\* howMuchToRead never gives more than there is.
LEMMA HowMuch ==
  ASSUME NEW s \in StateType, NEW n \in Nat \cup {All}
  PROVE  /\ howMuchToRead(n, s) \in Int
         /\ s.length \in Nat => howMuchToRead(n, s) \in 0..s.length
BY DEF StateType, howMuchToRead, All

\* The state as read() sees it, and as it calls _read.
ReadOver(nOrig) ==
  /\ howMuchToRead(nOrig, state) = 0 /\ state.ended
  /\ state'.reading = state.reading /\ state'.sync = state.sync /\ state'.length = state.length
  /\ state'.ended /\ state'.endEmitted /\ endTick' = (endTick \/ ~state.endEmitted)
  /\ Kept(stack', stack) /\ buffer' = buffer /\ got' = got

ReadCalls(nOrig) ==
  /\ ~state.ended /\ ~state.reading
  /\ state'.reading /\ state'.sync /\ state'.length = state.length
  /\ ~state'.ended /\ state'.endEmitted = state.endEmitted
  /\ stack' = Append(stack, Frame("read", nOrig, howMuchToRead(nOrig, state)))
  /\ buffer' = buffer /\ got' = got /\ endTick' = endTick

Takes(s, n) ==
  /\ SameFlags(s, state')
  /\ buffer = s.length /\ n \in 0..s.length =>
       state'.length = s.length - n /\ buffer' = buffer - n /\ got' = got + n

ReadTakes(nOrig) ==
  Takes(state, howMuchToRead(nOrig, state)) /\ Kept(stack', stack) /\ endTick' = endTick

LEMMA ReadEffect ==
  ASSUME Shape, NEW nOrig \in Amounts, read(nOrig)
  PROVE  /\ UserOnTop(stack) /\ (stack[Len(stack)].k = "error" => ReadInError)
         /\ state' \in StateType /\ buffer' \in Int /\ got' \in Int
         /\ pending' = pending /\ produced' = produced /\ ends' = ends
         /\ failed' = failed /\ mute' \in BOOLEAN
         /\ \/ ReadOver(nOrig)
            \/ ReadCalls(nOrig)
            \/ ReadTakes(nOrig)
<1> DEFINE n == howMuchToRead(nOrig, state)
           s == [state EXCEPT !.emittedReadable = @ /\ nOrig = 0,
                              !.needReadable = @ \/ TooFew(nOrig, state)]
<1>1. UserOnTop(stack) /\ (stack[Len(stack)].k = "error" => ReadInError)
  BY DEF read, InUserCode, AtBase, Top, At, UserOnTop
<1>2. pending' = pending /\ produced' = produced /\ ends' = ends /\ failed' = failed /\ mute' \in BOOLEAN
  BY DEF read
<1>3. state \in StateType /\ nOrig \in Nat \cup {All} /\ stack \in Seq(FrameType) /\ stack # <<>>
  BY <1>1, AmountAssumption DEF Shape, UserOnTop
<1>4. n \in Int
  BY <1>3, HowMuch
<1>5. s \in StateType /\ SameFlags(state, s) /\ s.length = state.length
  BY <1>3 DEF StateType, SameFlags, TooFew
<1>6. \/ /\ IsOver(s, n) /\ endReadable(s)
         /\ stack' = Gave(stack, nOrig, 0) /\ buffer' = buffer /\ got' = got
      \/ /\ ~IsOver(s, n) /\ doRead(s, n)
         /\ state' = [s EXCEPT !.reading = TRUE, !.sync = TRUE,
                               !.needReadable = @ \/ s.length = 0]
         /\ stack' = Append(stack, Frame("read", nOrig, n))
         /\ buffer' = buffer /\ endTick' = endTick /\ got' = got
      \/ Finish(s, nOrig, n, stack) /\ endTick' = endTick
  BY DEF read
<1>7. n = howMuchToRead(nOrig, state)
  OBVIOUS
<1> HIDE DEF n, s
<1>8. CASE /\ IsOver(s, n) /\ endReadable(s)
           /\ stack' = Gave(stack, nOrig, 0) /\ buffer' = buffer /\ got' = got
  <2> DEFINE t == [s EXCEPT !.ended = TRUE, !.endEmitted = TRUE]
  <2>1. /\ t \in StateType /\ t.reading = s.reading /\ t.sync = s.sync /\ t.length = s.length
        /\ t.ended /\ t.endEmitted
    BY <1>5 DEF StateType
  <2>2. state' = t /\ endTick' = (endTick \/ ~s.endEmitted) /\ n = 0 /\ s.ended
    BY <1>8 DEF endReadable, IsOver
  <2> HIDE DEF t
  <2>3. Kept(stack', stack)
    BY <1>3, <1>8, GaveKept
  <2>4. state' \in StateType /\ buffer' \in Int /\ got' \in Int
    BY <1>8, <2>1, <2>2 DEF Shape
  <2>5. ReadOver(nOrig)
    BY <1>5, <1>7, <1>8, <2>1, <2>2, <2>3 DEF ReadOver, SameFlags
  <2> QED BY <1>1, <1>2, <2>4, <2>5
<1>9. CASE /\ ~IsOver(s, n) /\ doRead(s, n)
           /\ state' = [s EXCEPT !.reading = TRUE, !.sync = TRUE,
                                 !.needReadable = @ \/ s.length = 0]
           /\ stack' = Append(stack, Frame("read", nOrig, n))
           /\ buffer' = buffer /\ endTick' = endTick /\ got' = got
  <2> DEFINE t == [s EXCEPT !.reading = TRUE, !.sync = TRUE, !.needReadable = @ \/ s.length = 0]
  <2>1. /\ t \in StateType /\ t.reading /\ t.sync /\ t.length = s.length
        /\ t.ended = s.ended /\ t.endEmitted = s.endEmitted
    BY <1>5 DEF StateType
  <2>2. state' = t /\ ~s.ended /\ ~s.reading
    BY <1>9 DEF doRead
  <2> HIDE DEF t
  <2>3. state' \in StateType /\ buffer' \in Int /\ got' \in Int
    BY <1>9, <2>1, <2>2 DEF Shape
  <2>4. ReadCalls(nOrig)
    BY <1>5, <1>7, <1>9, <2>1, <2>2 DEF ReadCalls, SameFlags
  <2> QED BY <1>1, <1>2, <2>3, <2>4
<1>10. CASE Finish(s, nOrig, n, stack) /\ endTick' = endTick
  <2>1. /\ state' \in StateType /\ SameFlags(s, state')
        /\ buffer' \in Int /\ got' \in Int /\ Kept(stack', stack)
        /\ buffer = s.length /\ n \in 0..s.length =>
             state'.length = s.length - n /\ buffer' = buffer - n /\ got' = got + n
    BY <1>3, <1>4, <1>5, <1>10, FinishEffect
  <2>2. Takes(state, n)
    BY <1>5, <2>1 DEF Takes, SameFlags
  <2>3. ReadTakes(nOrig)
    BY <1>7, <1>10, <2>1, <2>2 DEF ReadTakes
  <2> QED BY <1>1, <1>2, <2>1, <2>3
<1> QED BY <1>6, <1>8, <1>9, <1>10

LEMMA ReadReturnsEffect ==
  ASSUME Nested, ReadReturns
  PROVE  /\ stack # <<>> /\ stack[Len(stack)].k = "read"
         /\ state' \in StateType /\ buffer' \in Int /\ got' \in Int /\ mute' \in BOOLEAN
         /\ endTick' = endTick /\ produced' = produced /\ ends' = ends /\ failed' = failed
         /\ pending' = IF stack[Len(stack)].open THEN pending + 1 ELSE pending
         /\ state'.reading = state.reading /\ state'.ended = state.ended
         /\ state'.endEmitted = state.endEmitted /\ ~state'.sync
         /\ Kept(stack', Pop)
         /\ state.length \in Nat /\ buffer = state.length /\ stack[Len(stack)].n \in 0..state.length =>
              \E n \in 0..state.length : /\ state'.length = state.length - n
                                         /\ buffer' = buffer - n /\ got' = got + n
<1> DEFINE s == [state EXCEPT !.sync = FALSE,
                   !.needReadable = @ \/ (~state.reading /\ TooFew(Top.nOrig, state))]
           n == Again(Top.nOrig, Top.n, s)
<1>1. stack # <<>> /\ Top.k = "read"
  BY DEF ReadReturns, At, AtBase
<1>2. Finish(s, Top.nOrig, n, Pop)
  BY DEF ReadReturns
<1>3. /\ pending' = IF Top.open THEN pending + 1 ELSE pending
      /\ mute' = (mute \/ (Top.nOrig # 0 /\ ~state.reading /\ got' = got))
      /\ endTick' = endTick /\ produced' = produced /\ ends' = ends /\ failed' = failed
  BY DEF ReadReturns
<1>4. Shape /\ state \in StateType /\ stack \in Seq(FrameType) /\ Nest(stack)
  BY DEF Nested, Shape, Nest
<1>5. Pop \in Seq(FrameType) /\ UserOnTop(Pop)
  BY <1>1, <1>4, PopNest DEF Pop, Top
<1>6. Pop # <<>>
  BY <1>5 DEF UserOnTop
<1>7. PICK m \in Nat : m = Len(stack)
  BY <1>4, StackFacts
<1>8. m \in 1..m /\ stack[m] \in FrameType
  BY <1>1, <1>4, <1>7, StackFacts
<1>9. Top \in FrameType
  BY <1>7, <1>8 DEF Top
<1>10. Top.nOrig \in Nat \cup {All} /\ Top.n \in Int
  BY <1>9 DEF FrameType
<1>11. /\ s \in StateType /\ s.length = state.length /\ ~s.sync
       /\ s.reading = state.reading /\ s.ended = state.ended /\ s.endEmitted = state.endEmitted
  BY <1>4 DEF StateType, TooFew
<1> HIDE DEF s
<1>12. n \in Int /\ (s.length \in Nat /\ Top.n \in 0..s.length => n \in 0..s.length)
  BY <1>10, <1>11, HowMuch DEF Again
<1> HIDE DEF n
<1>13. /\ state' \in StateType /\ SameFlags(s, state')
       /\ buffer' \in Int /\ got' \in Int /\ Kept(stack', Pop)
       /\ buffer = s.length /\ n \in 0..s.length =>
            state'.length = s.length - n /\ buffer' = buffer - n /\ got' = got + n
  BY <1>2, <1>4, <1>5, <1>6, <1>11, <1>12, FinishEffect
<1>14. /\ state'.reading = state.reading /\ state'.ended = state.ended
       /\ state'.endEmitted = state.endEmitted /\ ~state'.sync
  BY <1>11, <1>13 DEF SameFlags
<1>15. mute' \in BOOLEAN
  BY <1>3
<1>16. state.length \in Nat /\ buffer = state.length /\ Top.n \in 0..state.length =>
         \E k \in 0..state.length : /\ state'.length = state.length - k
                                    /\ buffer' = buffer - k /\ got' = got + k
  BY <1>11, <1>12, <1>13
<1> QED BY <1>1, <1>3, <1>13, <1>14, <1>15, <1>16 DEF Top

\* Whoever calls back was under way; afterwards no _read is.
LEMMA CalledBack ==
  ASSUME Nested, Completes
  PROVE  /\ state.reading /\ pending' = 0
         /\ Below \in Seq(FrameType) /\ Nest(Below) /\ ~Owing(Below)
         /\ Below = stack \/ Marked(Below, stack, FALSE)
<1>1. state.reading \in BOOLEAN /\ stack \in Seq(FrameType) /\ Nest(stack) /\ pending \in Nat
  BY DEF Nested, Shape, Nest, StateType
<1>2. IF state.reading THEN (pending = 0 /\ Owing(stack)) \/ (pending = 1 /\ ~Owing(stack))
                       ELSE pending = 0 /\ ~Owing(stack)
  BY DEF Nested, Flagged
<1>3. CASE stack # <<>>
  <2>1. Owing(stack) /\ pending' = pending
    BY <1>3 DEF Completes, AtBase, Top, Owing
  <2>2. state.reading /\ pending = 0
    BY <1>2, <2>1
  <2>3. Below = [stack EXCEPT ![Len(stack)].open = FALSE]
    BY <1>3 DEF Below, AtBase, Shut
  <2>4. Marked(Below, stack, FALSE)
    BY <1>1, <1>3, <2>3, MarkTop
  <2>5. Below \in Seq(FrameType) /\ Nest(Below) /\ ~Owing(Below)
    BY <1>1, <2>4, MarkedNest
  <2> QED BY <2>1, <2>2, <2>4, <2>5
<1>4. CASE stack = <<>>
  <2>1. pending > 0 /\ pending' = pending - 1
    BY <1>4 DEF Completes, AtBase
  <2>2. Below = stack /\ ~Owing(stack)
    BY <1>4 DEF Below, AtBase, Owing
  <2>3. state.reading /\ pending = 1
    BY <1>1, <1>2, <2>1
  <2> QED BY <1>1, <2>1, <2>2, <2>3
<1> QED BY <1>3, <1>4

Adds(n) == state'.length = state.length + n /\ buffer' = buffer + n /\ produced' = produced + n
SameEnd == state'.ended = state.ended /\ state'.endEmitted = state.endEmitted /\ endTick' = endTick

\* What onread does to the stack, with _read called once more or not.
Goes ==
  \/ stack' = Below /\ ~state'.reading
  \/ stack' = Append(Below, Frame("more", 0, 0)) /\ state'.reading
  \/ stack' = Append(Below, Frame("readable", 0, 0)) /\ ~state'.reading /\ ~state.sync
  \/ stack' = Append(Below, Frame("error", 0, 0)) /\ ~state'.reading

\* What onread does to the end of the stream.
Ends ==
  \/ SameEnd
  \/ state'.ended /\ ~state'.reading /\ state'.endEmitted = state.endEmitted /\ endTick' = endTick
  \/ /\ state'.ended /\ ~state'.reading /\ state'.endEmitted /\ state'.length = 0
     /\ endTick' = (endTick \/ ~state.endEmitted)

Onread ==
  /\ Completes /\ state' \in StateType /\ state'.sync = state.sync
  /\ \E n \in Nat : Adds(n)
  /\ got' = got /\ ends' = ends /\ failed' \in BOOLEAN /\ mute' = mute
  /\ Goes /\ Ends

LEMMA EmitReadableEffect ==
  ASSUME NEW s \in StateType, ~s.reading, emitReadable(s), s.sync = state.sync, ~s.sync
  PROVE  /\ state' \in StateType /\ SameFlags(s, state') /\ state'.length = s.length /\ Goes
<1> DEFINE t == [s EXCEPT !.needReadable = FALSE, !.emittedReadable = TRUE]
<1>1. state' = t
  BY DEF emitReadable
<1>2. t \in StateType /\ SameFlags(s, t) /\ t.length = s.length
  BY DEF StateType, SameFlags
<1> HIDE DEF t
<1>3. stack' = Below \/ stack' = Append(Below, Frame("readable", 0, 0))
  BY DEF emitReadable
<1>4. ~state'.reading
  BY <1>1, <1>2 DEF SameFlags
<1>5. Goes
  BY <1>3, <1>4 DEF Goes
<1> QED BY <1>1, <1>2, <1>5

LEMMA OnreadEffect ==
  ASSUME Nested, onread
  PROVE  Onread
<1>1. Shape /\ state \in StateType /\ state.length \in Int /\ buffer \in Int /\ produced \in Nat
  BY DEF Nested, Shape, StateType
<1>2. ASSUME NEW n \in 1..MaxBytes, onreadData(n)
      PROVE  Onread
  <2> DEFINE s == [state EXCEPT !.reading = FALSE, !.length = Arrived(n)]
             t == [s EXCEPT !.reading = TRUE]
  <2>1. /\ Completes /\ produced' = produced + n /\ buffer' = buffer + n
        /\ endTick' = endTick /\ got' = got /\ ends' = ends /\ failed' = failed /\ mute' = mute
    BY <1>2 DEF onreadData
  <2>2. \/ state' = t /\ stack' = Append(Below, Frame("more", 0, 0))
        \/ Tells(s) /\ emitReadable(s)
        \/ state' = s /\ stack' = Below
    BY <1>2 DEF onreadData
  <2>3. n \in Nat /\ state.length + n \in Int
    BY <1>1
  <2>4. /\ s \in StateType /\ ~s.reading /\ s.length = state.length + n /\ s.sync = state.sync
        /\ s.ended = state.ended /\ s.endEmitted = state.endEmitted
    BY <1>1, <2>3 DEF StateType, Arrived
  <2> HIDE DEF s
  <2>5. /\ t \in StateType /\ t.reading /\ t.length = s.length /\ t.sync = s.sync
        /\ t.ended = s.ended /\ t.endEmitted = s.endEmitted
    BY <2>4 DEF StateType
  <2> HIDE DEF t
  <2>6. /\ state' \in StateType /\ state'.length = state.length + n /\ state'.sync = state.sync
        /\ state'.ended = state.ended /\ state'.endEmitted = state.endEmitted /\ Goes
    <3>1. CASE state' = t /\ stack' = Append(Below, Frame("more", 0, 0))
      BY <2>4, <2>5, <3>1 DEF Goes
    <3>2. CASE Tells(s) /\ emitReadable(s)
      <4>1. ~s.sync
        BY <3>2 DEF Tells
      <4>2. /\ state' \in StateType /\ SameFlags(s, state') /\ state'.length = s.length /\ Goes
        BY <2>4, <3>2, <4>1, EmitReadableEffect
      <4> QED BY <2>4, <4>2 DEF SameFlags
    <3>3. CASE state' = s /\ stack' = Below
      BY <2>4, <3>3 DEF Goes
    <3> QED BY <2>2, <3>1, <3>2, <3>3
  <2>7. Ends
    BY <2>1, <2>6 DEF Ends, SameEnd
  <2>8. \E k \in Nat : Adds(k)
    BY <2>1, <2>3, <2>6 DEF Adds
  <2>9. failed' \in BOOLEAN
    BY <1>1, <2>1 DEF Shape
  <2> QED BY <2>1, <2>6, <2>7, <2>8, <2>9 DEF Onread
<1>3. ASSUME onreadEnd
      PROVE  Onread
  <2> DEFINE s == [state EXCEPT !.reading = FALSE, !.ended = TRUE]
             t == [s EXCEPT !.ended = TRUE, !.endEmitted = TRUE]
  <2>1. /\ Completes /\ produced' = produced /\ buffer' = buffer
        /\ got' = got /\ ends' = ends /\ failed' = failed /\ mute' = mute
    BY <1>3 DEF onreadEnd
  <2>2. \/ state' = s /\ stack' = Below /\ endTick' = endTick
        \/ ~s.sync /\ emitReadable(s) /\ endTick' = endTick
        \/ /\ ~s.sync /\ s.length = 0 /\ stack' = Below
           /\ state' = t /\ endTick' = (endTick \/ ~s.endEmitted)
    BY <1>3 DEF onreadEnd, endReadable
  <2>3. /\ s \in StateType /\ ~s.reading /\ s.length = state.length /\ s.sync = state.sync
        /\ s.ended /\ s.endEmitted = state.endEmitted
    BY <1>1 DEF StateType
  <2> HIDE DEF s
  <2>4. /\ t \in StateType /\ ~t.reading /\ t.length = s.length /\ t.sync = s.sync
        /\ t.ended /\ t.endEmitted
    BY <2>3 DEF StateType
  <2> HIDE DEF t
  <2>5. /\ state' \in StateType /\ state'.length = state.length /\ state'.sync = state.sync
        /\ Goes /\ Ends
    <3>1. CASE state' = s /\ stack' = Below /\ endTick' = endTick
      BY <2>3, <3>1 DEF Goes, Ends
    <3>2. CASE ~s.sync /\ emitReadable(s) /\ endTick' = endTick
      <4>1. /\ state' \in StateType /\ SameFlags(s, state') /\ state'.length = s.length /\ Goes
        BY <2>3, <3>2, EmitReadableEffect
      <4>2. state'.ended /\ ~state'.reading /\ state'.endEmitted = state.endEmitted /\ state'.sync = state.sync
        BY <2>3, <4>1 DEF SameFlags
      <4>3. Ends
        BY <3>2, <4>2 DEF Ends
      <4> QED BY <2>3, <4>1, <4>2, <4>3
    <3>3. CASE /\ ~s.sync /\ s.length = 0 /\ stack' = Below
               /\ state' = t /\ endTick' = (endTick \/ ~s.endEmitted)
      <4>1. /\ state' \in StateType /\ ~state'.reading /\ state'.length = 0 /\ state.length = 0
            /\ state'.sync = state.sync /\ state'.ended /\ state'.endEmitted
            /\ endTick' = (endTick \/ ~state.endEmitted)
        BY <2>3, <2>4, <3>3
      <4>2. Goes /\ Ends
        BY <3>3, <4>1 DEF Goes, Ends
      <4> QED BY <4>1, <4>2
    <3> QED BY <2>2, <3>1, <3>2, <3>3
  <2>6. Adds(0)
    BY <1>1, <2>1, <2>5 DEF Adds
  <2>7. failed' \in BOOLEAN
    BY <1>1, <2>1 DEF Shape
  <2> QED BY <2>1, <2>5, <2>6, <2>7 DEF Onread
<1>4. ASSUME onreadError
      PROVE  Onread
  <2> DEFINE s == [state EXCEPT !.reading = FALSE]
  <2>1. /\ Completes /\ state' = s /\ stack' = Append(Below, Frame("error", 0, 0)) /\ failed' = TRUE
        /\ buffer' = buffer /\ endTick' = endTick /\ produced' = produced
        /\ got' = got /\ ends' = ends /\ mute' = mute
    BY <1>4 DEF onreadError
  <2>2. /\ s \in StateType /\ ~s.reading /\ s.length = state.length /\ s.sync = state.sync
        /\ s.ended = state.ended /\ s.endEmitted = state.endEmitted
    BY <1>1 DEF StateType
  <2> HIDE DEF s
  <2>3. state' \in StateType /\ state'.sync = state.sync /\ state'.length = state.length
    BY <2>1, <2>2
  <2>4. Adds(0)
    BY <1>1, <2>1, <2>3 DEF Adds
  <2>5. Goes /\ Ends
    BY <2>1, <2>2 DEF Goes, Ends, SameEnd
  <2> QED BY <2>1, <2>3, <2>4, <2>5 DEF Onread
<1> QED BY <1>2, <1>3, <1>4 DEF onread

-----------------------------------------------------------------------------
(***************************************************************************)
(* One _read at a time.                                                    *)
(***************************************************************************)
LEMMA Frames ==
  /\ \A k \in UserFrames \cup {"more"} : /\ Frame(k, 0, 0) \in FrameType /\ Frame(k, 0, 0).k = k
                                         /\ Frame(k, 0, 0).n = 0
                                         /\ Frame(k, 0, 0).open <=> k \in {"more", "readable"}
  /\ \A nOrig \in Nat \cup {All}, n \in Int :
       /\ Frame("read", nOrig, n) \in FrameType /\ Frame("read", nOrig, n).k = "read"
       /\ Frame("read", nOrig, n).n = n /\ Frame("read", nOrig, n).open
<1>1. ASSUME NEW k \in UserFrames \cup {"more"}
      PROVE  /\ Frame(k, 0, 0) \in FrameType /\ Frame(k, 0, 0).k = k /\ Frame(k, 0, 0).n = 0
             /\ Frame(k, 0, 0).open <=> k \in {"more", "readable"}
  <2>1. k \in ImplFrames \cup UserFrames /\ k # "read"
    BY DEF ImplFrames, UserFrames
  <2> DEFINE b == k \in {"read", "more", "readable"}
  <2>2. b \in BOOLEAN
    OBVIOUS
  <2>3. Frame(k, 0, 0) = [k |-> k, nOrig |-> 0, n |-> 0, open |-> b]
    BY DEF Frame
  <2>4. b <=> k \in {"more", "readable"}
    BY <2>1
  <2> HIDE DEF b
  <2>5. 0 \in Nat \cup {All} /\ 0 \in Int
    OBVIOUS
  <2>6. Frame(k, 0, 0) \in FrameType
    BY <2>1, <2>2, <2>3, <2>5 DEF FrameType
  <2> QED BY <2>3, <2>4, <2>6
<1>2. ASSUME NEW nOrig \in Nat \cup {All}, NEW n \in Int
      PROVE  /\ Frame("read", nOrig, n) \in FrameType /\ Frame("read", nOrig, n).k = "read"
             /\ Frame("read", nOrig, n).n = n /\ Frame("read", nOrig, n).open
  <2>1. "read" \in ImplFrames \cup UserFrames
    BY DEF ImplFrames
  <2>2. ("read" \in {"read", "more", "readable"}) = TRUE
    OBVIOUS
  <2> QED BY <2>1, <2>2 DEF Frame, FrameType
<1> QED BY <1>1, <1>2

\* A caller that is marked is still one, and owes nothing.
LEMMA KeptNest ==
  ASSUME NEW st \in Seq(FrameType), NEW new, Kept(new, st), Nest(st), UserOnTop(st)
  PROVE  new \in Seq(FrameType) /\ Nest(new) /\ ~Owing(new)
<1>1. PICK b \in BOOLEAN : Marked(new, st, b)
  BY DEF Kept
<1>2. st[Len(st)].k \notin ImplFrames
  BY DEF UserOnTop, UserFrames, ImplFrames
<1> QED BY <1>1, <1>2, MarkedNest

LEMMA InitNested ==
  ASSUME Init
  PROVE  Nested
<1>1. state \in StateType
  BY DEF Init, StateType
<1>2. stack = <<>> /\ Len(stack) = 0 /\ stack \in Seq(FrameType)
  BY DEF Init
<1>3. Callers(stack) /\ OpenAtTop(stack)
  BY <1>2 DEF Callers, OpenAtTop
<1>4. ~state.reading /\ pending = 0
  BY DEF Init
<1>5. Flagged(state.reading, pending, stack)
  BY <1>2, <1>4 DEF Flagged, Owing
<1>6. buffer \in Int /\ pending \in Nat /\ produced \in Nat /\ got \in Int /\ ends \in Nat
  BY DEF Init
<1>7. endTick \in BOOLEAN /\ failed \in BOOLEAN /\ mute \in BOOLEAN
  BY DEF Init
<1>8. Shape
  BY <1>1, <1>2, <1>6, <1>7 DEF Shape
<1> QED BY <1>3, <1>5, <1>8 DEF Nested

LEMMA ReadNested ==
  ASSUME Nested, NEW nOrig \in Amounts, read(nOrig)
  PROVE  Nested'
<1>1. Shape /\ state \in StateType /\ stack \in Seq(FrameType) /\ Nest(stack)
  BY DEF Nested, Nest, Shape
<1>2. Flagged(state.reading, pending, stack)
  BY DEF Nested
<1>3. /\ UserOnTop(stack)
      /\ state' \in StateType /\ buffer' \in Int /\ got' \in Int
      /\ pending' = pending /\ produced' = produced /\ ends' = ends
      /\ failed' = failed /\ mute' \in BOOLEAN
      /\ \/ ReadOver(nOrig)
         \/ ReadCalls(nOrig)
         \/ ReadTakes(nOrig)
  BY <1>1, ReadEffect
<1>4. ~Owing(stack)
  BY <1>3 DEF UserOnTop, Owing, UserFrames, ImplFrames
<1>5. /\ stack' \in Seq(FrameType) /\ Nest(stack') /\ endTick' \in BOOLEAN
      /\ Flagged(state'.reading, pending', stack')
  <2>1. CASE ReadOver(nOrig) \/ ReadTakes(nOrig)
    <3>1. Kept(stack', stack) /\ state'.reading = state.reading /\ endTick' \in BOOLEAN
      BY <1>1, <2>1 DEF ReadOver, ReadTakes, Takes, SameFlags, Shape
    <3>2. stack' \in Seq(FrameType) /\ Nest(stack') /\ ~Owing(stack')
      BY <1>1, <1>3, <3>1, KeptNest
    <3>3. Flagged(state'.reading, pending', stack')
      BY <1>2, <1>3, <1>4, <3>1, <3>2 DEF Flagged
    <3> QED BY <3>1, <3>2, <3>3
  <2>2. CASE ReadCalls(nOrig)
    <3> DEFINE f == Frame("read", nOrig, howMuchToRead(nOrig, state))
    <3>1. nOrig \in Nat \cup {All}
      BY AmountAssumption
    <3>2. howMuchToRead(nOrig, state) \in Int
      BY <1>1, <3>1, HowMuch
    <3>3. f \in FrameType /\ f.k = "read" /\ f.open
      BY <3>1, <3>2, Frames
    <3>4. stack' = Append(stack, f) /\ ~state.reading /\ state'.reading /\ endTick' = endTick
      BY <2>2 DEF ReadCalls
    <3> HIDE DEF f
    <3>5. stack' \in Seq(FrameType) /\ Nest(stack') /\ Owing(stack')
      BY <1>1, <1>3, <1>4, <3>3, <3>4, AppendNest DEF ImplFrames
    <3>6. Flagged(state'.reading, pending', stack')
      BY <1>2, <1>3, <3>4, <3>5 DEF Flagged
    <3>7. endTick' \in BOOLEAN
      BY <1>1, <3>4 DEF Shape
    <3> QED BY <3>5, <3>6, <3>7
  <2> QED BY <1>3, <2>1, <2>2
<1>6. Shape'
  BY <1>1, <1>3, <1>5 DEF Shape
<1> QED BY <1>5, <1>6 DEF Nested, Nest

LEMMA ReadReturnsNested ==
  ASSUME Nested, ReadReturns
  PROVE  Nested'
<1>1. Shape /\ state \in StateType /\ stack \in Seq(FrameType) /\ Nest(stack) /\ pending \in Nat
  BY DEF Nested, Nest, Shape
<1>2. Flagged(state.reading, pending, stack)
  BY DEF Nested
<1>3. /\ stack # <<>> /\ stack[Len(stack)].k = "read"
      /\ state' \in StateType /\ buffer' \in Int /\ got' \in Int /\ mute' \in BOOLEAN
      /\ endTick' = endTick /\ produced' = produced /\ ends' = ends /\ failed' = failed
      /\ pending' = IF stack[Len(stack)].open THEN pending + 1 ELSE pending
      /\ state'.reading = state.reading
      /\ Kept(stack', Pop)
  BY ReadReturnsEffect
<1>4. Pop \in Seq(FrameType) /\ Nest(Pop) /\ UserOnTop(Pop)
  BY <1>1, <1>3, PopNest DEF Pop
<1>5. stack' \in Seq(FrameType) /\ Nest(stack') /\ ~Owing(stack')
  BY <1>3, <1>4, KeptNest
<1>6. Owing(stack) <=> stack[Len(stack)].open
  BY <1>3 DEF Owing, ImplFrames
<1>7. Flagged(state'.reading, pending', stack')
  BY <1>1, <1>2, <1>3, <1>5, <1>6 DEF Flagged
<1>8. Shape'
  BY <1>1, <1>3, <1>5 DEF Shape
<1> QED BY <1>5, <1>7, <1>8 DEF Nested, Nest

LEMMA MoreReturnsNested ==
  ASSUME Nested, MoreReturns
  PROVE  Nested'
<1>1. Shape /\ stack \in Seq(FrameType) /\ Nest(stack) /\ pending \in Nat
  BY DEF Nested, Nest, Shape
<1>2. Flagged(state.reading, pending, stack)
  BY DEF Nested
<1>3. stack # <<>> /\ stack[Len(stack)].k = "more" /\ stack' = Pop
  BY DEF MoreReturns, At, AtBase, Top
<1>4. pending' = IF stack[Len(stack)].open THEN pending + 1 ELSE pending
  BY DEF MoreReturns, Top
<1>5. /\ state' = state /\ buffer' = buffer /\ endTick' = endTick /\ produced' = produced
      /\ got' = got /\ ends' = ends /\ failed' = failed /\ mute' = mute
  BY DEF MoreReturns
<1>6. stack' \in Seq(FrameType) /\ Nest(stack') /\ ~Owing(stack')
  BY <1>1, <1>3, PopNest DEF Pop
<1>7. Owing(stack) <=> stack[Len(stack)].open
  BY <1>3 DEF Owing, ImplFrames
<1>8. Flagged(state'.reading, pending', stack')
  BY <1>1, <1>2, <1>4, <1>5, <1>6, <1>7 DEF Flagged
<1>9. Shape'
  BY <1>1, <1>4, <1>5, <1>6 DEF Shape
<1> QED BY <1>6, <1>8, <1>9 DEF Nested, Nest

LEMMA OnreadNested ==
  ASSUME Nested, Onread
  PROVE  Nested'
<1>1. Shape /\ buffer \in Int /\ produced \in Nat
  BY DEF Nested, Shape
<1>2. /\ Completes /\ state' \in StateType /\ state'.sync = state.sync
      /\ got' = got /\ ends' = ends /\ failed' \in BOOLEAN /\ mute' = mute /\ Goes /\ Ends
  BY DEF Onread
<1>3. pending' = 0 /\ Below \in Seq(FrameType) /\ Nest(Below) /\ ~Owing(Below)
  BY <1>2, CalledBack
<1>4. buffer' \in Int /\ produced' \in Nat
  <2>1. PICK n \in Nat : Adds(n)
    BY DEF Onread
  <2> QED BY <1>1, <2>1 DEF Adds
<1>5. endTick' \in BOOLEAN
  BY <1>1, <1>2 DEF Ends, SameEnd, Shape
<1>6. stack' \in Seq(FrameType) /\ Nest(stack') /\ Flagged(state'.reading, pending', stack')
  <2>1. CASE stack' = Below /\ ~state'.reading
    BY <1>3, <2>1 DEF Flagged
  <2>2. ASSUME NEW k \in UserFrames \cup {"more"}, stack' = Append(Below, Frame(k, 0, 0)),
               state'.reading <=> k = "more"
        PROVE  stack' \in Seq(FrameType) /\ Nest(stack') /\ Flagged(state'.reading, pending', stack')
    <3> DEFINE f == Frame(k, 0, 0)
    <3>1. f \in FrameType /\ f.k = k /\ (f.open <=> k \in {"more", "readable"})
      BY Frames
    <3>2. stack' = Append(Below, f)
      BY <2>2
    <3> HIDE DEF f
    <3>3. f.k # "read" /\ (f.k \in ImplFrames /\ f.open <=> k = "more")
      BY <3>1 DEF ImplFrames, UserFrames
    <3>4. stack' \in Seq(FrameType) /\ Nest(stack') /\ (Owing(stack') <=> k = "more")
      BY <1>3, <3>1, <3>2, <3>3, AppendNest
    <3>5. Flagged(state'.reading, pending', stack')
      BY <1>3, <2>2, <3>4 DEF Flagged
    <3> QED BY <3>4, <3>5
  <2> QED BY <1>2, <2>1, <2>2 DEF Goes, UserFrames
<1>7. Shape'
  BY <1>1, <1>2, <1>3, <1>4, <1>5, <1>6 DEF Shape
<1> QED BY <1>6, <1>7 DEF Nested, Nest

\* The event loop calls code of the program, whether it runs or hears of the end.
Enters(k) ==
  /\ stack = <<>> /\ stack' = <<Frame(k, 0, 0)>>
  /\ state' = state /\ buffer' = buffer /\ pending' = pending /\ produced' = produced /\ got' = got
  /\ failed' = failed /\ mute' = mute

LEMMA EntersNested ==
  ASSUME Nested, NEW k \in {"user", "end"}, Enters(k), endTick' \in BOOLEAN, ends' \in Nat
  PROVE  Nested'
<1>1. Shape /\ Nest(stack) /\ stack \in Seq(FrameType) /\ Flagged(state.reading, pending, stack)
  BY DEF Nested, Nest, Shape
<1> DEFINE f == Frame(k, 0, 0)
<1>2. f \in FrameType /\ f.k = k
  BY Frames DEF UserFrames
<1>3. stack' = Append(stack, f) /\ stack = <<>>
  BY DEF Enters
<1> HIDE DEF f
<1>4. ~Owing(stack) /\ f.k # "read" /\ f.k \notin ImplFrames
  BY <1>2, <1>3 DEF Owing, ImplFrames
<1>5. stack' \in Seq(FrameType) /\ Nest(stack') /\ ~Owing(stack')
  BY <1>1, <1>2, <1>3, <1>4, AppendNest
<1>6. Flagged(state'.reading, pending', stack')
  BY <1>1, <1>4, <1>5 DEF Flagged, Enters
<1>7. Shape'
  BY <1>1, <1>5 DEF Shape, Enters
<1> QED BY <1>5, <1>6, <1>7 DEF Nested, Nest

LEMMA UserReturnsNested ==
  ASSUME Nested, UserReturns
  PROVE  Nested'
<1>1. Shape /\ Nest(stack) /\ stack \in Seq(FrameType) /\ Flagged(state.reading, pending, stack)
  BY DEF Nested, Nest, Shape
<1>2. UserOnTop(stack) /\ stack' = Pop
  BY DEF UserReturns, InUserCode, AtBase, Top, UserOnTop
<1>3. /\ state' = state /\ buffer' = buffer /\ pending' = pending /\ endTick' = endTick
      /\ produced' = produced /\ got' = got /\ ends' = ends /\ failed' = failed /\ mute' = mute
  BY DEF UserReturns
<1>4. stack # <<>> /\ ~Owing(stack)
  BY <1>2 DEF UserOnTop, Owing, UserFrames, ImplFrames
<1>5. stack' \in Seq(FrameType) /\ Nest(stack') /\ ~Owing(stack')
  BY <1>1, <1>2, <1>4, PopNest DEF Pop
<1>6. Flagged(state'.reading, pending', stack')
  BY <1>1, <1>3, <1>4, <1>5 DEF Flagged
<1>7. Shape'
  BY <1>1, <1>3, <1>5 DEF Shape
<1> QED BY <1>5, <1>6, <1>7 DEF Nested, Nest

\* The steps of the specification, sorted by their effects.
LEMMA NextNested ==
  ASSUME Nested, [Next]_vars
  PROVE  Nested'
<1>1. ASSUME NEW n \in Amounts, read(n) PROVE Nested'
  BY <1>1, ReadNested
<1>2. ASSUME ReadReturns PROVE Nested'
  BY <1>2, ReadReturnsNested
<1>3. ASSUME MoreReturns PROVE Nested'
  BY <1>3, MoreReturnsNested
<1>4. ASSUME onread PROVE Nested'
  BY <1>4, OnreadEffect, OnreadNested
<1>5. ASSUME UserRuns PROVE Nested'
  <2>1. Enters("user") /\ endTick' = endTick /\ ends' = ends
    BY <1>5 DEF UserRuns, Enters, AtBase
  <2>2. endTick' \in BOOLEAN /\ ends' \in Nat
    BY <2>1 DEF Nested, Shape
  <2> QED BY <2>1, <2>2, EntersNested
<1>6. ASSUME UserReturns PROVE Nested'
  BY <1>6, UserReturnsNested
<1>7. ASSUME EmitEnd PROVE Nested'
  <2>1. Enters("end") /\ endTick' = FALSE /\ ends' = ends + 1
    BY <1>7 DEF EmitEnd, Enters, AtBase
  <2>2. endTick' \in BOOLEAN
    BY <2>1
  <2>3. ends \in Nat
    BY DEF Nested, Shape
  <2>4. ends' \in Nat
    BY <2>1, <2>3
  <2> QED BY <2>1, <2>2, <2>4, EntersNested
<1>8. ASSUME UNCHANGED vars PROVE Nested'
  BY <1>8 DEF vars, Nested, Shape, Callers, OpenAtTop, Flagged, Owing
<1> QED BY <1>1, <1>2, <1>3, <1>4, <1>5, <1>6, <1>7, <1>8 DEF Next

LEMMA NestedIsOneRead ==
  ASSUME Nested
  PROVE  OneRead
<1>1. stack \in Seq(FrameType) /\ pending \in Nat /\ state.reading \in BOOLEAN
  BY DEF Nested, Shape, StateType
<1>2. PICK n \in Nat : n = Len(stack) /\ (stack = <<>> <=> n = 0)
  BY <1>1, StackFacts
<1> DEFINE open == {i \in 1..n : stack[i].k \in ImplFrames /\ stack[i].open}
<1>3. \A i \in 1..n : stack[i].k \in ImplFrames /\ stack[i].open => i = n
  BY <1>2 DEF Nested, OpenAtTop
<1>4. \A i \in open : i = n
  BY <1>3
<1>5. open # {} <=> Owing(stack)
  <2>1. ASSUME Owing(stack) PROVE open # {}
    <3>1. n \in 1..n /\ stack[n].k \in ImplFrames /\ stack[n].open
      BY <1>2, <2>1 DEF Owing
    <3> QED BY <3>1
  <2>2. ASSUME NEW i \in open PROVE Owing(stack)
    <3>1. i = n /\ n # 0
      BY <1>4, <2>2
    <3> QED BY <1>2, <2>2, <3>1 DEF Owing
  <2> QED BY <2>1, <2>2
<1>6. IF state.reading THEN (pending = 0 /\ Owing(stack)) \/ (pending = 1 /\ ~Owing(stack))
                       ELSE pending = 0 /\ ~Owing(stack)
  BY DEF Nested, Flagged
<1>7. /\ \A i, j \in open : i = j
      /\ pending <= (IF open = {} THEN 1 ELSE 0)
      /\ state.reading <=> pending = 1 \/ open # {}
  <2> HIDE DEF open
  <2> QED BY <1>1, <1>4, <1>5, <1>6
<1> QED BY <1>2, <1>7 DEF OneRead

-----------------------------------------------------------------------------
(***************************************************************************)
(* No byte is counted twice or forgotten.                                  *)
(***************************************************************************)
LEMMA MarkedWaits ==
  ASSUME NEW st \in Seq(FrameType), NEW new, NEW b, Marked(new, st, b), NEW sync, NEW length
  PROVE  /\ FramesPositive(st) => FramesPositive(new)
         /\ Waits(st, sync, length) => Waits(new, sync, length)
         /\ NoRead(st) => NoRead(new)
<1>1. PICK n \in Nat : n = Len(st)
  BY StackFacts
<1>2. Len(new) = n /\ \A i \in 1..n : new[i].k = st[i].k /\ new[i].n = st[i].n
  BY <1>1 DEF Marked
<1>3. ASSUME FramesPositive(st) PROVE FramesPositive(new)
  BY <1>1, <1>2, <1>3 DEF FramesPositive
<1>4. ASSUME Waits(st, sync, length) PROVE Waits(new, sync, length)
  BY <1>1, <1>2, <1>4 DEF Waits
<1>5. ASSUME NoRead(st) PROVE NoRead(new)
  BY <1>1, <1>2, <1>5 DEF NoRead
<1> QED BY <1>3, <1>4, <1>5

LEMMA NoReadWaits ==
  ASSUME NEW st, NoRead(st), NEW sync, NEW length
  PROVE  Waits(st, sync, length)
BY DEF NoRead, Waits

\* A listener of 'readable', or code of the program, runs only where no read() waits.
LEMMA WaitsNoRead ==
  ASSUME NEW st \in Seq(FrameType), NEW sync, NEW length, Waits(st, sync, length)
  PROVE  /\ ~sync => NoRead(st)
         /\ UserOnTop(st) /\ st[Len(st)].k # "error" => NoRead(st)
<1>1. PICK n \in Nat : n = Len(st) /\ (st = <<>> <=> n = 0)
  BY StackFacts
<1>2. \A i \in 1..n : st[i].k = "read" =>
        (\A j \in 1..n : i < j => st[j].k \in {"more", "error"}) /\ sync
  BY <1>1 DEF Waits
<1>3. ASSUME ~sync PROVE NoRead(st)
  BY <1>1, <1>2, <1>3 DEF NoRead
<1>4. ASSUME UserOnTop(st), st[Len(st)].k # "error" PROVE NoRead(st)
  <2>1. n # 0 /\ st[n].k \in UserFrames /\ st[n].k # "error"
    BY <1>1, <1>4 DEF UserOnTop
  <2>2. st[n].k \notin {"read", "more", "error"}
    BY <2>1 DEF UserFrames
  <2>3. ASSUME NEW i \in 1..n, st[i].k = "read" PROVE FALSE
    <3>1. i # n
      BY <2>2, <2>3
    <3>2. i < n /\ n \in 1..n
      BY <3>1
    <3> QED BY <1>2, <2>2, <2>3, <3>2
  <2> QED BY <1>1, <2>3 DEF NoRead
<1> QED BY <1>3, <1>4

LEMMA AppendWaits ==
  ASSUME NEW st \in Seq(FrameType), NEW f \in FrameType, NEW sync \in BOOLEAN, NEW length \in Nat
  PROVE  /\ FramesPositive(st) /\ f.n \in Nat => FramesPositive(Append(st, f))
         /\ NoRead(st) /\ (f.k = "read" => f.n \in 0..length /\ sync) => Waits(Append(st, f), sync, length)
         /\ Waits(st, sync, length) /\ f.k \in {"more", "error"} => Waits(Append(st, f), sync, length)
<1> DEFINE new == Append(st, f)
<1>1. PICK n \in Nat : n = Len(st)
  BY StackFacts
<1>2. Len(new) = n + 1 /\ new[n + 1] = f /\ \A i \in 1..n : new[i] = st[i]
  BY <1>1, StackFacts
<1> HIDE DEF new
<1>3. ASSUME FramesPositive(st), f.n \in Nat PROVE FramesPositive(new)
  BY <1>1, <1>2, <1>3 DEF FramesPositive
<1>4. ASSUME NoRead(st), f.k = "read" => f.n \in 0..length /\ sync PROVE Waits(new, sync, length)
  <2>1. \A i \in 1..n : new[i].k # "read"
    BY <1>1, <1>2, <1>4 DEF NoRead
  <2>2. \A i \in 1..(n + 1) : new[i].k = "read" => i = n + 1
    BY <2>1
  <2>3. \A i \in 1..(n + 1) : new[i].k = "read" => new[i].n \in 0..length /\ sync
    BY <1>2, <1>4, <2>2
  <2>4. \A i, j \in 1..(n + 1) : new[i].k = "read" => ~(i < j)
    BY <2>2
  <2> QED BY <1>2, <2>3, <2>4 DEF Waits
<1>5. ASSUME Waits(st, sync, length), f.k \in {"more", "error"} PROVE Waits(new, sync, length)
  <2>1. \A i \in 1..n : st[i].k = "read" =>
          /\ \A j \in 1..n : i < j => st[j].k \in {"more", "error"}
          /\ st[i].n \in 0..length /\ sync
    BY <1>1, <1>5 DEF Waits
  <2>2. \A i \in 1..(n + 1) : new[i].k = "read" => i \in 1..n /\ st[i].k = "read" /\ new[i].n = st[i].n
    BY <1>2, <1>5
  <2>3. \A i \in 1..(n + 1) : new[i].k = "read" => new[i].n \in 0..length /\ sync
    BY <2>1, <2>2
  <2>4. \A j \in 1..(n + 1) : j \in 1..n \/ j = n + 1
    OBVIOUS
  <2>5. \A i, j \in 1..(n + 1) : new[i].k = "read" /\ i < j => new[j].k \in {"more", "error"}
    BY <1>2, <1>5, <2>1, <2>2, <2>4
  <2> QED BY <1>2, <2>3, <2>5 DEF Waits
<1>6. /\ FramesPositive(st) /\ f.n \in Nat => FramesPositive(new)
      /\ NoRead(st) /\ (f.k = "read" => f.n \in 0..length /\ sync) => Waits(new, sync, length)
      /\ Waits(st, sync, length) /\ f.k \in {"more", "error"} => Waits(new, sync, length)
  BY <1>3, <1>4, <1>5
<1> QED BY <1>6 DEF new

LEMMA PopWaits ==
  ASSUME NEW st \in Seq(FrameType), st # <<>>, FramesPositive(st),
         NEW sync, NEW length, Waits(st, sync, length)
  PROVE  /\ FramesPositive(SubSeq(st, 1, Len(st) - 1))
         /\ Waits(SubSeq(st, 1, Len(st) - 1), sync, length)
         /\ st[Len(st)].k = "read" => /\ NoRead(SubSeq(st, 1, Len(st) - 1))
                                      /\ st[Len(st)].n \in 0..length
<1> DEFINE new == SubSeq(st, 1, Len(st) - 1)
<1>1. PICK n \in Nat : n = Len(st)
  BY StackFacts
<1>2. n # 0 /\ Len(new) = n - 1 /\ \A i \in 1..(n - 1) : new[i] = st[i]
  BY <1>1, StackFacts
<1> HIDE DEF new
<1>3. \A i \in 1..n : st[i].k = "read" =>
        /\ \A j \in 1..n : i < j => st[j].k \in {"more", "error"}
        /\ st[i].n \in 0..length /\ sync
  BY <1>1 DEF Waits
<1>4. \A i \in 1..(n - 1) : i \in 1..n /\ i < n
  OBVIOUS
<1>5. FramesPositive(new)
  BY <1>1, <1>2, <1>4 DEF FramesPositive
<1>6. Waits(new, sync, length)
  BY <1>2, <1>3, <1>4 DEF Waits
<1>7. n \in 1..n
  BY <1>2
<1>8. ASSUME st[n].k = "read" PROVE NoRead(new) /\ st[n].n \in 0..length
  <2>1. ASSUME NEW i \in 1..(n - 1), new[i].k = "read" PROVE FALSE
    <3>1. st[i].k = "read" /\ i < n /\ i \in 1..n
      BY <1>2, <1>4, <2>1
    <3>2. st[n].k \in {"more", "error"}
      BY <1>3, <1>7, <3>1
    <3> QED BY <1>8, <3>2
  <2>2. NoRead(new)
    BY <1>2, <2>1 DEF NoRead
  <2> QED BY <1>3, <1>7, <1>8, <2>2
<1>9. /\ FramesPositive(new) /\ Waits(new, sync, length)
      /\ st[n].k = "read" => NoRead(new) /\ st[n].n \in 0..length
  BY <1>5, <1>6, <1>8
<1> QED BY <1>1, <1>9 DEF new

LEMMA GrowingWaits ==
  ASSUME NEW st, NEW sync, NEW length \in Nat, NEW n \in Nat, Waits(st, sync, length)
  PROVE  Waits(st, sync, length + n)
BY DEF Waits

\* Counted, as facts to start from and to arrive at.
LEMMA CountedFacts ==
  ASSUME Counted
  PROVE  /\ Nested /\ Shape /\ state \in StateType /\ stack \in Seq(FrameType) /\ state.sync \in BOOLEAN
         /\ Waits(stack, state.sync, state.length) /\ FramesPositive(stack)
         /\ state.length \in Nat /\ buffer = state.length /\ got \in Nat /\ produced = got + buffer
BY DEF Counted, Nested, Shape, StateType

LEMMA ReadCounted ==
  ASSUME ~ReadInError, Counted, NEW nOrig \in Amounts, read(nOrig), Nested'
  PROVE  Counted'
<1>1. /\ Nested /\ Shape /\ state \in StateType /\ stack \in Seq(FrameType) /\ state.sync \in BOOLEAN
      /\ Waits(stack, state.sync, state.length) /\ FramesPositive(stack)
      /\ state.length \in Nat /\ buffer = state.length /\ got \in Nat /\ produced = got + buffer
  BY CountedFacts
<1>2. /\ UserOnTop(stack) /\ stack[Len(stack)].k # "error"
      /\ produced' = produced /\ state' \in StateType
      /\ ReadOver(nOrig) \/ ReadCalls(nOrig) \/ ReadTakes(nOrig)
  BY <1>1, ReadEffect
<1>3. NoRead(stack)
  BY <1>1, <1>2, WaitsNoRead
<1>4. nOrig \in Nat \cup {All}
  BY AmountAssumption
<1>5. PICK n \in 0..state.length : n = howMuchToRead(nOrig, state)
  BY <1>1, <1>4, HowMuch
<1>6. CASE ReadOver(nOrig) \/ ReadTakes(nOrig)
  <2>1. Kept(stack', stack)
    BY <1>6 DEF ReadOver, ReadTakes
  <2>2. PICK b \in BOOLEAN : Marked(stack', stack, b)
    BY <2>1 DEF Kept
  <2>3. FramesPositive(stack') /\ NoRead(stack')
    BY <1>1, <1>3, <2>2, MarkedWaits
  <2>4. Waits(stack', state'.sync, state'.length)
    BY <2>3, NoReadWaits
  <2>5. \E k \in 0..state.length : state'.length = state.length - k /\ buffer' = buffer - k /\ got' = got + k
    <3>1. CASE ReadOver(nOrig)
      <4>1. state'.length = state.length /\ buffer' = buffer /\ got' = got
        BY <3>1 DEF ReadOver
      <4>2. 0 \in 0..state.length /\ state.length - 0 = state.length /\ buffer - 0 = buffer /\ got + 0 = got
        BY <1>1
      <4> QED BY <4>1, <4>2
    <3>2. CASE ReadTakes(nOrig)
      BY <1>1, <1>5, <3>2 DEF ReadTakes, Takes
    <3> QED BY <1>6, <3>1, <3>2
  <2>6. state'.length \in Nat /\ buffer' = state'.length /\ got' \in Nat /\ produced' = got' + buffer'
    BY <1>1, <1>2, <2>5
  <2> QED BY <2>3, <2>4, <2>6 DEF Counted
<1>7. CASE ReadCalls(nOrig)
  <2> DEFINE f == Frame("read", nOrig, n)
  <2>1. f \in FrameType /\ f.k = "read" /\ f.n = n
    BY <1>4, <1>5, Frames
  <2>2. /\ stack' = Append(stack, f) /\ state'.sync /\ state'.length = state.length
        /\ buffer' = buffer /\ got' = got
    BY <1>5, <1>7 DEF ReadCalls
  <2> HIDE DEF f
  <2>3. n \in Nat /\ state'.sync \in BOOLEAN
    BY <1>2, <1>5 DEF StateType
  <2>4. FramesPositive(stack') /\ Waits(stack', state'.sync, state'.length)
    BY <1>1, <1>3, <1>5, <2>1, <2>2, <2>3, AppendWaits
  <2>5. state'.length \in Nat /\ buffer' = state'.length /\ got' \in Nat /\ produced' = got' + buffer'
    BY <1>1, <1>2, <2>2
  <2> QED BY <2>4, <2>5 DEF Counted
<1> QED BY <1>2, <1>6, <1>7

LEMMA ReadReturnsCounted ==
  ASSUME Counted, ReadReturns, Nested'
  PROVE  Counted'
<1>1. /\ Nested /\ Shape /\ state \in StateType /\ stack \in Seq(FrameType) /\ state.sync \in BOOLEAN
      /\ Waits(stack, state.sync, state.length) /\ FramesPositive(stack)
      /\ state.length \in Nat /\ buffer = state.length /\ got \in Nat /\ produced = got + buffer
  BY CountedFacts
<1>2. /\ stack # <<>> /\ stack[Len(stack)].k = "read" /\ produced' = produced /\ Kept(stack', Pop)
      /\ state.length \in Nat /\ buffer = state.length /\ stack[Len(stack)].n \in 0..state.length =>
           \E n \in 0..state.length : /\ state'.length = state.length - n
                                      /\ buffer' = buffer - n /\ got' = got + n
  BY <1>1, ReadReturnsEffect
<1>3. FramesPositive(Pop) /\ NoRead(Pop) /\ stack[Len(stack)].n \in 0..state.length
  BY <1>1, <1>2, PopWaits DEF Pop
<1>4. Pop \in Seq(FrameType)
  BY <1>1, <1>2, StackFacts DEF Pop
<1>5. PICK b \in BOOLEAN : Marked(stack', Pop, b)
  BY <1>2 DEF Kept
<1>6. FramesPositive(stack') /\ NoRead(stack')
  BY <1>3, <1>4, <1>5, MarkedWaits
<1>7. Waits(stack', state'.sync, state'.length)
  BY <1>6, NoReadWaits
<1>8. PICK n \in 0..state.length : /\ state'.length = state.length - n
                                   /\ buffer' = buffer - n /\ got' = got + n
  BY <1>1, <1>2, <1>3
<1>9. state'.length \in Nat /\ buffer' = state'.length /\ got' \in Nat /\ produced' = got' + buffer'
  BY <1>1, <1>2, <1>8
<1> QED BY <1>6, <1>7, <1>9 DEF Counted

\* An activation returns without touching the stream.
LEMMA PopCounted ==
  ASSUME Counted, stack # <<>>, stack' = Pop, Nested',
         state' = state, buffer' = buffer, got' = got, produced' = produced
  PROVE  Counted'
<1>1. /\ stack \in Seq(FrameType) /\ Waits(stack, state.sync, state.length) /\ FramesPositive(stack)
      /\ state.length \in Nat /\ buffer = state.length /\ got \in Nat /\ produced = got + buffer
  BY CountedFacts
<1>2. FramesPositive(stack') /\ Waits(stack', state.sync, state.length)
  BY <1>1, PopWaits DEF Pop
<1> QED BY <1>1, <1>2 DEF Counted

LEMMA OnreadCounted ==
  ASSUME Counted, Onread, Nested'
  PROVE  Counted'
<1>1. /\ Nested /\ Shape /\ state \in StateType /\ stack \in Seq(FrameType) /\ state.sync \in BOOLEAN
      /\ Waits(stack, state.sync, state.length) /\ FramesPositive(stack)
      /\ state.length \in Nat /\ buffer = state.length /\ got \in Nat /\ produced = got + buffer
  BY CountedFacts
<1>2. Completes /\ state'.sync = state.sync /\ got' = got /\ Goes
  BY DEF Onread
<1>3. PICK n \in Nat : Adds(n)
  BY DEF Onread
<1>4. state'.length = state.length + n /\ state'.length \in Nat
  BY <1>1, <1>3 DEF Adds
<1>5. buffer' = state'.length /\ got' \in Nat /\ produced' = got' + buffer'
  BY <1>1, <1>2, <1>3 DEF Adds
<1>6. Below \in Seq(FrameType) /\ (Below = stack \/ Marked(Below, stack, FALSE))
  BY <1>1, <1>2, CalledBack
<1>7. FramesPositive(Below) /\ Waits(Below, state.sync, state.length)
  BY <1>1, <1>6, MarkedWaits
<1>8. Waits(Below, state'.sync, state'.length)
  BY <1>1, <1>2, <1>4, <1>7, GrowingWaits
<1>9. ~state.sync => NoRead(Below)
  BY <1>6, <1>7, WaitsNoRead
<1>10. FramesPositive(stack') /\ Waits(stack', state'.sync, state'.length)
  <2>1. CASE stack' = Below
    BY <1>7, <1>8, <2>1
  <2>2. ASSUME NEW k \in {"more", "error", "readable"}, stack' = Append(Below, Frame(k, 0, 0)),
               k = "readable" => ~state.sync
        PROVE  FramesPositive(stack') /\ Waits(stack', state'.sync, state'.length)
    <3> DEFINE f == Frame(k, 0, 0)
    <3>1. f \in FrameType /\ f.k = k /\ f.n = 0
      BY Frames DEF UserFrames
    <3>2. stack' = Append(Below, f)
      BY <2>2
    <3> HIDE DEF f
    <3>3. f.k # "read" /\ f.n \in Nat /\ state'.sync \in BOOLEAN
      BY <1>1, <1>2, <3>1
    <3>4. FramesPositive(stack')
      BY <1>4, <1>6, <1>7, <3>1, <3>2, <3>3, AppendWaits
    <3>5. CASE k = "readable"
      <4>1. NoRead(Below)
        BY <1>9, <2>2, <3>5
      <4> QED BY <1>4, <1>6, <3>1, <3>2, <3>3, <3>4, <4>1, AppendWaits
    <3>6. CASE k # "readable"
      <4>1. f.k \in {"more", "error"}
        BY <3>1, <3>6
      <4> QED BY <1>4, <1>6, <1>8, <3>1, <3>2, <3>3, <3>4, <4>1, AppendWaits
    <3> QED BY <3>5, <3>6
  <2>3. \/ stack' = Below
        \/ stack' = Append(Below, Frame("more", 0, 0))
        \/ stack' = Append(Below, Frame("readable", 0, 0)) /\ ~state.sync
        \/ stack' = Append(Below, Frame("error", 0, 0))
    BY <1>2 DEF Goes
  <2> QED BY <2>1, <2>2, <2>3
<1> QED BY <1>4, <1>5, <1>10 DEF Counted

LEMMA EntersCounted ==
  ASSUME Counted, NEW k \in {"user", "end"}, Enters(k), Nested'
  PROVE  Counted'
<1>1. /\ state \in StateType /\ stack \in Seq(FrameType) /\ state.sync \in BOOLEAN /\ FramesPositive(stack)
      /\ state.length \in Nat /\ buffer = state.length /\ got \in Nat /\ produced = got + buffer
  BY CountedFacts
<1> DEFINE f == Frame(k, 0, 0)
<1>2. f \in FrameType /\ f.k = k /\ f.n = 0
  BY Frames DEF UserFrames
<1>3. stack' = Append(stack, f) /\ stack = <<>>
  BY DEF Enters
<1>4. state' = state /\ buffer' = buffer /\ got' = got /\ produced' = produced
  BY DEF Enters
<1> HIDE DEF f
<1>5. f.k # "read" /\ f.n \in Nat
  BY <1>2
<1>6. NoRead(stack)
  BY <1>3 DEF NoRead
<1>7. FramesPositive(stack') /\ Waits(stack', state.sync, state.length)
  BY <1>1, <1>2, <1>3, <1>5, <1>6, AppendWaits
<1> QED BY <1>1, <1>4, <1>7 DEF Counted

LEMMA InitCounted ==
  ASSUME Init
  PROVE  Counted
<1>1. Nested
  BY InitNested
<1>2. stack = <<>> /\ Len(stack) = 0
  BY DEF Init
<1>3. FramesPositive(stack) /\ NoRead(stack)
  BY <1>2 DEF FramesPositive, NoRead
<1>4. Waits(stack, state.sync, state.length)
  BY <1>3, NoReadWaits
<1>5. state.length = 0 /\ buffer = 0 /\ got = 0 /\ produced = 0
  BY DEF Init
<1> QED BY <1>1, <1>3, <1>4, <1>5 DEF Counted

LEMMA NextCounted ==
  ASSUME ~ReadInError, Counted, [Next]_vars
  PROVE  Counted'
<1>1. Nested /\ Nested'
  BY CountedFacts, NextNested
<1>2. ASSUME NEW n \in Amounts, read(n) PROVE Counted'
  BY <1>1, <1>2, ReadCounted
<1>3. ASSUME ReadReturns PROVE Counted'
  BY <1>1, <1>3, ReadReturnsCounted
<1>4. ASSUME MoreReturns PROVE Counted'
  <2>1. /\ stack # <<>> /\ stack' = Pop
        /\ state' = state /\ buffer' = buffer /\ got' = got /\ produced' = produced
    BY <1>4 DEF MoreReturns, At, AtBase
  <2> QED BY <1>1, <2>1, PopCounted
<1>5. ASSUME onread PROVE Counted'
  BY <1>1, <1>5, OnreadEffect, OnreadCounted
<1>6. ASSUME UserRuns PROVE Counted'
  <2>1. Enters("user")
    BY <1>6 DEF UserRuns, Enters, AtBase
  <2> QED BY <1>1, <2>1, EntersCounted
<1>7. ASSUME UserReturns PROVE Counted'
  <2>1. /\ stack # <<>> /\ stack' = Pop
        /\ state' = state /\ buffer' = buffer /\ got' = got /\ produced' = produced
    BY <1>7 DEF UserReturns, InUserCode, AtBase
  <2> QED BY <1>1, <2>1, PopCounted
<1>8. ASSUME EmitEnd PROVE Counted'
  <2>1. Enters("end")
    BY <1>8 DEF EmitEnd, Enters, AtBase
  <2> QED BY <1>1, <2>1, EntersCounted
<1>9. ASSUME UNCHANGED vars PROVE Counted'
  BY <1>1, <1>9 DEF vars, Counted, Waits, FramesPositive
<1> QED BY <1>2, <1>3, <1>4, <1>5, <1>6, <1>7, <1>8, <1>9 DEF Next

-----------------------------------------------------------------------------
(***************************************************************************)
(* 'end' comes once, after the last byte.                                  *)
(***************************************************************************)
EndOnce(endEmitted, tick, count) ==
  IF endEmitted THEN (tick /\ count = 0) \/ (~tick /\ count = 1) ELSE ~tick /\ count = 0

LEMMA EndedFacts ==
  ASSUME Shape
  PROVE  /\ state.ended \in BOOLEAN /\ state.endEmitted \in BOOLEAN /\ state.reading \in BOOLEAN
         /\ Ended <=> /\ state.ended => ~state.reading
                      /\ state.endEmitted => state.ended /\ state.length = 0
                      /\ EndOnce(state.endEmitted, endTick, ends)
<1>1. state.ended \in BOOLEAN /\ state.endEmitted \in BOOLEAN /\ state.reading \in BOOLEAN
  BY DEF Shape, StateType
<1> QED BY <1>1 DEF Ended, EndOnce

\* The flags stay; what is taken is taken from what is left.
LEMMA TakenEnded ==
  ASSUME Shape, Shape', Ended, NEW n \in 0..state.length, state'.length = state.length - n,
         state.length \in Nat, endTick' = endTick, ends' = ends, state'.reading = state.reading,
         state'.ended = state.ended, state'.endEmitted = state.endEmitted
  PROVE  Ended'
<1>1. state.endEmitted => state'.length = 0
  BY DEF Ended
<1> QED BY <1>1 DEF Ended

LEMMA ReadEnded ==
  ASSUME 0 \notin Amounts, Counted, Ended, NEW nOrig \in Amounts, read(nOrig), Shape'
  PROVE  Ended'
<1>1. Shape /\ state \in StateType /\ state.length \in Nat /\ buffer = state.length
  BY CountedFacts
<1>2. ends' = ends /\ (ReadOver(nOrig) \/ ReadCalls(nOrig) \/ ReadTakes(nOrig))
  BY <1>1, ReadEffect
<1>3. nOrig \in (Nat \cup {All}) \ {0}
  BY AmountAssumption
<1>4. /\ state.ended => ~state.reading
      /\ state.endEmitted => state.ended /\ state.length = 0
      /\ EndOnce(state.endEmitted, endTick, ends)
  BY <1>1, EndedFacts
<1>5. PICK n \in 0..state.length : n = howMuchToRead(nOrig, state)
  BY <1>1, <1>3, HowMuch
<1>6. CASE ReadOver(nOrig)
  <2>1. state.ended /\ howMuchToRead(nOrig, state) = 0
    BY <1>6 DEF ReadOver
  <2>2. state.length = 0
    BY <1>1, <1>3, <2>1 DEF howMuchToRead, All
  <2>3. /\ state'.reading = state.reading /\ state'.length = state.length
        /\ state'.ended /\ state'.endEmitted /\ endTick' = (endTick \/ ~state.endEmitted)
    BY <1>6 DEF ReadOver
  <2>4. EndOnce(TRUE, endTick', ends')
    <3>1. CASE state.endEmitted
      <4>1. endTick' = endTick
        BY <1>1, <2>3, <3>1 DEF Shape
      <4> QED BY <1>2, <1>4, <3>1, <4>1 DEF EndOnce
    <3>2. CASE ~state.endEmitted
      <4>1. endTick' /\ ends = 0
        BY <1>4, <2>3, <3>2 DEF EndOnce
      <4> QED BY <1>2, <4>1 DEF EndOnce
    <3> QED BY <3>1, <3>2
  <2>5. EndOnce(state'.endEmitted, endTick', ends')
    BY <2>3, <2>4 DEF EndOnce
  <2>6. ~state'.reading /\ state'.length = 0
    BY <1>4, <2>1, <2>2, <2>3
  <2> QED BY <2>3, <2>5, <2>6 DEF Ended, EndOnce
<1>7. CASE ReadCalls(nOrig)
  <2>1. /\ ~state.ended /\ ~state'.ended /\ endTick' = endTick
        /\ state'.endEmitted = state.endEmitted
    BY <1>7 DEF ReadCalls
  <2>2. ~state.endEmitted /\ ~state'.endEmitted /\ ~endTick /\ ends = 0
    BY <1>4, <2>1 DEF EndOnce
  <2> QED BY <1>2, <2>1, <2>2 DEF Ended
<1>8. CASE ReadTakes(nOrig)
  <2>1. /\ state'.reading = state.reading /\ state'.ended = state.ended
        /\ state'.endEmitted = state.endEmitted /\ endTick' = endTick
        /\ state'.length = state.length - n
    BY <1>1, <1>5, <1>8 DEF ReadTakes, Takes, SameFlags
  <2> QED BY <1>1, <1>2, <2>1, TakenEnded
<1> QED BY <1>2, <1>6, <1>7, <1>8

LEMMA ReadReturnsEnded ==
  ASSUME Counted, Ended, ReadReturns, Shape'
  PROVE  Ended'
<1>1. /\ Nested /\ Shape /\ stack \in Seq(FrameType) /\ FramesPositive(stack)
      /\ Waits(stack, state.sync, state.length) /\ state.length \in Nat /\ buffer = state.length
  BY CountedFacts
<1>2. /\ stack # <<>> /\ stack[Len(stack)].k = "read" /\ endTick' = endTick /\ ends' = ends
      /\ state'.reading = state.reading /\ state'.ended = state.ended
      /\ state'.endEmitted = state.endEmitted
      /\ state.length \in Nat /\ buffer = state.length /\ stack[Len(stack)].n \in 0..state.length =>
           \E n \in 0..state.length : /\ state'.length = state.length - n
                                      /\ buffer' = buffer - n /\ got' = got + n
  BY <1>1, ReadReturnsEffect
<1>3. stack[Len(stack)].n \in 0..state.length
  BY <1>1, <1>2, PopWaits
<1>4. PICK n \in 0..state.length : state'.length = state.length - n
  BY <1>1, <1>2, <1>3
<1> QED BY <1>1, <1>2, <1>4, TakenEnded

LEMMA OnreadEnded ==
  ASSUME Counted, Ended, Onread, Shape'
  PROVE  Ended'
<1>1. Nested /\ Shape
  BY CountedFacts
<1>2. Completes /\ Ends /\ ends' = ends
  BY DEF Onread
<1>3. state.reading
  BY <1>1, <1>2, CalledBack
<1>4. ~state.ended /\ ~state.endEmitted /\ ~endTick /\ ends = 0
  BY <1>3 DEF Ended
<1>5. CASE SameEnd
  <2>1. ~state'.ended /\ ~state'.endEmitted /\ ~endTick'
    BY <1>4, <1>5 DEF SameEnd
  <2> QED BY <1>2, <1>4, <2>1 DEF Ended
<1>6. CASE state'.ended /\ ~state'.reading /\ state'.endEmitted = state.endEmitted /\ endTick' = endTick
  <2>1. ~state'.reading /\ ~state'.endEmitted /\ ~endTick'
    BY <1>4, <1>6
  <2> QED BY <1>2, <1>4, <2>1 DEF Ended
<1>7. CASE /\ state'.ended /\ ~state'.reading /\ state'.endEmitted /\ state'.length = 0
           /\ endTick' = (endTick \/ ~state.endEmitted)
  <2>1. endTick'
    BY <1>4, <1>7
  <2> QED BY <1>2, <1>4, <1>7, <2>1 DEF Ended
<1> QED BY <1>2, <1>5, <1>6, <1>7 DEF Ends

LEMMA NextEnded ==
  ASSUME ~ReadInError, 0 \notin Amounts, Counted, Ended, [Next]_vars
  PROVE  Ended'
<1>1. Nested /\ Shape'
  BY CountedFacts, NextNested DEF Nested
<1>2. ASSUME NEW n \in Amounts, read(n) PROVE Ended'
  BY <1>1, <1>2, ReadEnded
<1>3. ASSUME ReadReturns PROVE Ended'
  BY <1>1, <1>3, ReadReturnsEnded
<1>4. ASSUME state' = state, endTick' = endTick, ends' = ends PROVE Ended'
  BY <1>4 DEF Ended
<1>5. ASSUME MoreReturns \/ UserRuns \/ UserReturns PROVE Ended'
  BY <1>4, <1>5 DEF MoreReturns, UserRuns, UserReturns
<1>6. ASSUME onread PROVE Ended'
  BY <1>1, <1>6, OnreadEffect, OnreadEnded
<1>7. ASSUME EmitEnd PROVE Ended'
  <2>1. endTick /\ endTick' = FALSE /\ ends' = ends + 1 /\ state' = state
    BY <1>7 DEF EmitEnd
  <2>2. state.endEmitted /\ ends = 0
    BY <2>1 DEF Ended
  <2>3. ends' = 1 /\ ~endTick'
    BY <2>1, <2>2
  <2> QED BY <2>1, <2>2, <2>3 DEF Ended
<1>8. ASSUME UNCHANGED vars PROVE Ended'
  BY <1>4, <1>8 DEF vars
<1> QED BY <1>2, <1>3, <1>5, <1>6, <1>7, <1>8 DEF Next

LEMMA CountedIsTyped ==
  ASSUME Counted
  PROVE  TypeOK /\ LengthExact
<1>1. /\ Shape /\ state \in StateType /\ stack \in Seq(FrameType) /\ FramesPositive(stack)
      /\ state.length \in Nat /\ buffer = state.length /\ got \in Nat
  BY CountedFacts
<1> DEFINE ST == [length : Nat, ended : BOOLEAN, endEmitted : BOOLEAN, reading : BOOLEAN,
                  sync : BOOLEAN, needReadable : BOOLEAN, emittedReadable : BOOLEAN]
           FT == [k : ImplFrames \cup UserFrames, nOrig : Nat \cup {All}, n : Nat, open : BOOLEAN]
<1>2. state \in ST
  BY <1>1 DEF StateType
<1>3. PICK m \in Nat : m = Len(stack)
  BY <1>1, StackFacts
<1>4. \A i \in 1..m : stack[i] \in FrameType /\ stack[i].n \in Nat
  BY <1>1, <1>3, StackFacts DEF FramesPositive
<1>5. \A i \in 1..m : stack[i] \in FT
  BY <1>4 DEF FrameType
<1> HIDE DEF FT, ST
<1>6. stack = [i \in 1..m |-> stack[i]]
  BY <1>1, <1>3, LenProperties
<1>7. stack \in Seq(FT)
  <2>1. [i \in 1..m |-> stack[i]] \in Seq(FT)
    BY <1>5
  <2> QED BY <1>6, <2>1
<1>8. TypeOK
  BY <1>1, <1>2, <1>7 DEF TypeOK, Shape, ST, FT
<1> QED BY <1>1, <1>8 DEF LengthExact

-----------------------------------------------------------------------------
\* At most one _read is under way, and the flag says so (doRead and onread), whoever calls read()
\* and wherever _read completes.
THEOREM OneReadAtATime == Spec => []OneRead
<1>1. Init => Nested
  BY InitNested
<1>2. Nested /\ [Next]_vars => Nested'
  BY NextNested
<1>3. Nested => OneRead
  BY NestedIsOneRead
<1> QED BY <1>1, <1>2, <1>3, PTL DEF Spec

\* Where listeners of 'error' do not read(): the length that decides about every read() is that of
\* the buffer, although read() subtracts what it decided on before it called _read.
THEOREM LengthIsExact ==
  ASSUME ~ReadInError
  PROVE  Spec => [](TypeOK /\ LengthExact)
<1>1. Init => Counted
  BY InitCounted
<1>2. Counted /\ [Next]_vars => Counted'
  BY NextCounted
<1>3. Counted => TypeOK /\ LengthExact
  BY CountedIsTyped
<1> QED BY <1>1, <1>2, <1>3, PTL DEF Spec

\* If besides nobody calls read(0): bytes are counted exactly through every nesting of read(), _read
\* and onread, and endReadable emits 'end' once, after the last byte was read.
THEOREM BytesAreSound ==
  ASSUME ~ReadInError, 0 \notin Amounts
  PROVE  Spec => []BytesSound
<1>1. Init => Counted /\ Ended
  <2>1. Init => Ended
    BY DEF Init, Ended
  <2> QED BY <2>1, InitCounted
<1>2. Counted /\ Ended /\ [Next]_vars => (Counted /\ Ended)'
  <2>1. ASSUME Counted, Ended, [Next]_vars PROVE Counted' /\ Ended'
    BY <2>1, NextCounted, NextEnded
  <2> QED BY <2>1
<1>3. Counted /\ Ended => BytesSound
  <2>1. SUFFICES ASSUME Counted, Ended PROVE BytesSound
    OBVIOUS
  <2>2. TypeOK /\ LengthExact
    BY <2>1, CountedIsTyped
  <2>3. Nested /\ Shape /\ buffer = state.length /\ got \in Nat /\ produced = got + buffer /\ state.length \in Nat
    BY <2>1, CountedFacts
  <2>4. OneRead
    BY <2>3, NestedIsOneRead
  <2>5. ends \in {0, 1} /\ (ends = 1 \/ endTick => state.endEmitted)
    BY <2>1 DEF Ended
  <2>6. state.endEmitted => state.ended /\ state.length = 0
    BY <2>1 DEF Ended
  <2>7. state.endEmitted => got = produced
    BY <2>3, <2>6
  <2>8. ends <= 1
    BY <2>5
  <2>9. EndLast
    BY <2>5, <2>6, <2>7, <2>8 DEF EndLast
  <2> QED BY <2>2, <2>4, <2>9 DEF BytesSound
<1> QED BY <1>1, <1>2, <1>3, PTL DEF Spec

=============================================================================
