--------------------------- MODULE ImmediateProofs --------------------------
(***************************************************************************)
(* setImmediate keeps its word for any number of immediates.  That         *)
(* callbacks run in the order of creation is inductive once the queue is   *)
(* known to be in that order and to hold nothing that was cleared; that one *)
(* runs per iteration, once it is known that the Timer of an iteration in  *)
(* which one has run is due in the next.                                   *)
(***************************************************************************)
EXTENDS Immediate, SequenceTheorems, TLAPS

\* The queue is in the order of creation, and holds no immediate that was cleared.
QueueInOrder ==
  /\ \A j, k \in 1..Len(immediateQueue) : j < k => immediateQueue[j] < immediateQueue[k]
  /\ \A k \in 1..Len(immediateQueue) : immediateQueue[k] \in 1..issued /\ immediateQueue[k] \notin cleared

\* The histories name immediates that were created.
HistoryKnown ==
  /\ cleared \subseteq 1..issued
  /\ \A k \in 1..Len(ran) : ran[k] \in 1..issued

\* Once an immediate has run, the Timer waits for the next iteration.
NextIteration == phase = "timers" /\ fires # 0 /\ ~emptied => due = 1

IInv == TypeOK /\ Armed /\ InOrder /\ OncePerIteration /\ QueueInOrder /\ HistoryKnown /\ NextIteration

-----------------------------------------------------------------------------
\* The queue with an immediate at its end, and without the one at its head.
LEMMA QueueFacts ==
  ASSUME NEW q \in Seq(Nat)
  PROVE  /\ Len(q) \in Nat
         /\ \A k \in 1..Len(q) : q[k] \in Nat
         /\ \A n \in Nat : /\ Append(q, n) \in Seq(Nat)
                           /\ Append(q, n) # <<>>
                           /\ Len(Append(q, n)) = Len(q) + 1
                           /\ Append(q, n)[Len(q) + 1] = n
                           /\ \A k \in 1..Len(q) : Append(q, n)[k] = q[k]
         /\ q # <<>> => /\ Len(q) >= 1
                        /\ Head(q) = q[1]
                        /\ Tail(q) \in Seq(Nat)
                        /\ Len(Tail(q)) = Len(q) - 1
                        /\ \A k \in 1..(Len(q) - 1) : Tail(q)[k] = q[k + 1]
<1>1. Len(q) \in Nat /\ \A k \in 1..Len(q) : q[k] \in Nat
  BY LenProperties, ElementOfSeq
<1>2. ASSUME NEW n \in Nat
      PROVE  /\ Append(q, n) \in Seq(Nat)
             /\ Append(q, n) # <<>>
             /\ Len(Append(q, n)) = Len(q) + 1
             /\ Append(q, n)[Len(q) + 1] = n
             /\ \A k \in 1..Len(q) : Append(q, n)[k] = q[k]
  BY AppendProperties
<1>3. ASSUME q # <<>>
      PROVE  /\ Len(q) >= 1
             /\ Head(q) = q[1]
             /\ Tail(q) \in Seq(Nat)
             /\ Len(Tail(q)) = Len(q) - 1
             /\ \A k \in 1..(Len(q) - 1) : Tail(q)[k] = q[k + 1]
  BY <1>1, <1>3, HeadTailProperties, EmptySeq
<1> QED BY <1>1, <1>2, <1>3

\* A function on 1..n is a sequence of length n.
LEMMA FunctionIsSequence ==
  ASSUME NEW n \in Nat, NEW f \in [1..n -> Nat]
  PROVE  f \in Seq(Nat) /\ Len(f) = n
<1>1. f \in Seq(Nat)
  BY SeqDef
<1>2. Len(f) \in Nat /\ 1..Len(f) = 1..n
  BY <1>1, LenProperties
<1>3. n = 0 => Len(f) = 0
  BY <1>2
<1> QED BY <1>1, <1>2, <1>3

\* What clearImmediate leaves of the queue: its elements in their order, without i.
LEMMA OthersFacts ==
  ASSUME immediateQueue \in Seq(Nat), NEW i \in Nat,
         \A j, k \in 1..Len(immediateQueue) : j < k => immediateQueue[j] < immediateQueue[k]
  PROVE  /\ Others(i) \in Seq(Nat)
         /\ \A j, k \in 1..Len(Others(i)) : j < k => Others(i)[j] < Others(i)[k]
         /\ \A k \in 1..Len(Others(i)) :
              /\ Others(i)[k] # i
              /\ \E m \in 1..Len(immediateQueue) : Others(i)[k] = immediateQueue[m]
         /\ Others(i) # immediateQueue => Waiting(i)
<1>0. Len(immediateQueue) \in Nat /\ \A k \in 1..Len(immediateQueue) : immediateQueue[k] \in Nat
  BY QueueFacts
<1>1. CASE ~Waiting(i)
  <2>1. Others(i) = immediateQueue
    BY <1>1 DEF Others
  <2>2. \A k \in 1..Len(immediateQueue) : immediateQueue[k] # i
    BY <1>1 DEF Waiting
  <2> QED BY <2>1, <2>2
<1>2. CASE Waiting(i)
  <2> DEFINE len == Len(immediateQueue)
             at == CHOOSE k \in 1..len : immediateQueue[k] = i
             rest == [k \in 1..(len - 1) |-> IF k < at THEN immediateQueue[k] ELSE immediateQueue[k + 1]]
  <2>1. at \in 1..len /\ immediateQueue[at] = i
    BY <1>2 DEF Waiting
  <2>2. Others(i) = rest
    BY <1>2 DEF Others
  <2>3. len - 1 \in Nat /\ \A k \in 1..(len - 1) : k \in 1..len /\ k + 1 \in 1..len
    BY <1>0, <2>1
  <2>4. rest \in Seq(Nat) /\ Len(rest) = len - 1
    <3> HIDE DEF at
    <3>1. \A k \in 1..(len - 1) : (IF k < at THEN immediateQueue[k] ELSE immediateQueue[k + 1]) \in Nat
      BY <1>0, <2>3
    <3>2. rest \in [1..(len - 1) -> Nat]
      BY <3>1
    <3> HIDE DEF rest
    <3> QED BY <2>3, <3>2, FunctionIsSequence
  <2>5. \A k \in 1..(len - 1) : rest[k] = IF k < at THEN immediateQueue[k] ELSE immediateQueue[k + 1]
    OBVIOUS
  <2> HIDE DEF rest, at
  <2>6. \A j, k \in 1..Len(rest) : j < k => rest[j] < rest[k]
    <3> SUFFICES ASSUME NEW j \in 1..(len - 1), NEW k \in 1..(len - 1), j < k
                 PROVE  rest[j] < rest[k]
      BY <2>4
    <3>1. j \in 1..len /\ k \in 1..len /\ j + 1 \in 1..len /\ k + 1 \in 1..len
      BY <2>3
    <3> QED BY <2>1, <2>5, <3>1
  <2>7. \A k \in 1..Len(rest) : rest[k] # i /\ \E m \in 1..len : rest[k] = immediateQueue[m]
    <3> SUFFICES ASSUME NEW k \in 1..(len - 1)
                 PROVE  rest[k] # i /\ \E m \in 1..len : rest[k] = immediateQueue[m]
      BY <2>4
    <3>1. k \in 1..len /\ k + 1 \in 1..len
      BY <2>3
    <3>2. CASE k < at
      BY <1>0, <2>1, <2>5, <3>1, <3>2
    <3>3. CASE ~(k < at)
      <4>1. at < k + 1
        BY <2>1, <3>3
      <4>2. rest[k] = immediateQueue[k + 1]
        BY <2>5, <3>3
      <4>3. immediateQueue[at] < immediateQueue[k + 1]
        BY <2>1, <3>1, <4>1
      <4> QED BY <1>0, <2>1, <3>1, <4>2, <4>3
    <3> QED BY <3>2, <3>3
  <2> QED BY <1>2, <2>2, <2>4, <2>6, <2>7
<1> QED BY <1>1, <1>2

-----------------------------------------------------------------------------
\* The initial state: nothing waits, nothing has run and the Timer is stopped.
LEMMA InitIInv == Init => IInv
<1> SUFFICES ASSUME Init PROVE IInv
  OBVIOUS
<1>1. <<>> \in Seq(Nat) /\ Len(<<>>) = 0
  OBVIOUS
<1>2. TypeOK
  BY <1>1 DEF Init, TypeOK, Stopped
<1>3. Armed /\ OncePerIteration /\ NextIteration
  BY DEF Init, Armed, OncePerIteration, NextIteration, Stopped
<1>4. InOrder /\ QueueInOrder /\ HistoryKnown
  BY <1>1 DEF Init, InOrder, QueueInOrder, HistoryKnown
<1> QED BY <1>2, <1>3, <1>4 DEF IInv

\* setImmediate puts the youngest immediate behind those that wait.
LEMMA SetImmediateKeeps ==
  ASSUME IInv, setImmediate
  PROVE  IInv'
<1> USE DEF IInv
<1>1. immediateQueue \in Seq(Nat) /\ ran \in Seq(Nat) /\ issued \in Nat /\ issued' = issued + 1
  BY DEF TypeOK, setImmediate
<1>2. PICK n \in Nat : n = Len(immediateQueue)
  BY <1>1, QueueFacts
<1>3. /\ immediateQueue' \in Seq(Nat)
      /\ immediateQueue' # <<>>
      /\ Len(immediateQueue') = n + 1
      /\ immediateQueue'[n + 1] = issued + 1
      /\ \A k \in 1..n : immediateQueue'[k] = immediateQueue[k]
  BY <1>1, <1>2, QueueFacts DEF setImmediate
<1>4. \A k \in 1..(n + 1) : k \in 1..n \/ k = n + 1
  OBVIOUS
<1>5. TypeOK'
  BY <1>1, <1>3 DEF TypeOK, setImmediate
<1>6. Armed' /\ OncePerIteration'
  BY <1>3 DEF TypeOK, Armed, OncePerIteration, setImmediate, Stopped
<1>7. NextIteration'
  BY DEF TypeOK, Armed, NextIteration, setImmediate, Stopped
<1>8. HistoryKnown'
  BY <1>1 DEF HistoryKnown, setImmediate
<1>9. QueueInOrder'
  <2>1. \A k \in 1..n : immediateQueue[k] \in 1..issued /\ immediateQueue[k] \notin cleared
    BY <1>2 DEF QueueInOrder
  <2>2. issued + 1 \notin cleared
    BY <1>1 DEF HistoryKnown
  <2>3. \A j, k \in 1..(n + 1) : j < k => immediateQueue'[j] < immediateQueue'[k]
    <3> SUFFICES ASSUME NEW j \in 1..(n + 1), NEW k \in 1..(n + 1), j < k
                 PROVE  immediateQueue'[j] < immediateQueue'[k]
      OBVIOUS
    <3>1. j \in 1..n /\ immediateQueue'[j] = immediateQueue[j]
      BY <1>3
    <3>2. CASE k = n + 1
      <4>1. immediateQueue'[k] = issued + 1
        BY <1>3, <3>2
      <4>2. immediateQueue[j] \in 1..issued
        BY <2>1, <3>1
      <4> QED BY <1>1, <3>1, <4>1, <4>2
    <3>3. CASE k \in 1..n
      <4>1. immediateQueue'[k] = immediateQueue[k]
        BY <1>3, <3>3
      <4>2. immediateQueue[j] < immediateQueue[k]
        BY <1>2, <3>1, <3>3 DEF QueueInOrder
      <4> QED BY <3>1, <4>1, <4>2
    <3> QED BY <1>4, <3>2, <3>3
  <2>4. ASSUME NEW k \in 1..(n + 1)
        PROVE  immediateQueue'[k] \in 1..(issued + 1) /\ immediateQueue'[k] \notin cleared
    <3>1. CASE k = n + 1
      <4>1. immediateQueue'[k] = issued + 1
        BY <1>3, <3>1
      <4> QED BY <1>1, <2>2, <4>1
    <3>2. CASE k \in 1..n
      <4>1. immediateQueue'[k] = immediateQueue[k]
        BY <1>3, <3>2
      <4>2. immediateQueue[k] \in 1..issued /\ immediateQueue[k] \notin cleared
        BY <2>1, <3>2
      <4> QED BY <1>1, <4>1, <4>2
    <3> QED BY <1>4, <3>1, <3>2
  <2> QED BY <1>1, <1>3, <2>3, <2>4 DEF QueueInOrder, setImmediate
<1>10. InOrder'
  <2>1. ran' = ran /\ cleared' = cleared
    BY DEF setImmediate
  <2>2. \A j \in 1..Len(ran), k \in 1..(n + 1) : ran[j] < immediateQueue'[k]
    <3> SUFFICES ASSUME NEW j \in 1..Len(ran), NEW k \in 1..(n + 1)
                 PROVE  ran[j] < immediateQueue'[k]
      OBVIOUS
    <3>1. CASE k = n + 1
      BY <1>1, <1>3, <3>1 DEF HistoryKnown
    <3>2. CASE k # n + 1
      BY <1>2, <1>3, <1>4, <3>2 DEF InOrder
    <3> QED BY <3>1, <3>2
  <2> QED BY <1>3, <2>1, <2>2 DEF InOrder
<1> QED BY <1>5, <1>6, <1>7, <1>8, <1>9, <1>10

\* clearImmediate takes one immediate out of the queue, and stops the Timer of a
\* queue it empties.
LEMMA ClearImmediateKeeps ==
  ASSUME IInv, NEW i \in 1..MaxImmediates, clearImmediate(i)
  PROVE  IInv'
<1> USE DEF IInv
<1>0. i \in Nat /\ i <= issued /\ issued \in Nat /\ i \in 1..issued
  BY BoundAssumption DEF TypeOK, clearImmediate
<1>1. /\ immediateQueue' \in Seq(Nat)
      /\ \A j, k \in 1..Len(immediateQueue') : j < k => immediateQueue'[j] < immediateQueue'[k]
      /\ \A k \in 1..Len(immediateQueue') :
           /\ immediateQueue'[k] # i
           /\ \E m \in 1..Len(immediateQueue) : immediateQueue'[k] = immediateQueue[m]
      /\ immediateQueue' # immediateQueue => Waiting(i)
  <2>1. immediateQueue' = Others(i)
    BY DEF clearImmediate
  <2> QED BY <1>0, <2>1, OthersFacts DEF TypeOK, QueueInOrder
<1>2. TypeOK'
  BY <1>0, <1>1 DEF TypeOK, clearImmediate, Stopped
<1>3. Armed' /\ OncePerIteration'
  BY <1>1 DEF TypeOK, Armed, OncePerIteration, Waiting, clearImmediate, Stopped
<1>4. NextIteration'
  BY DEF TypeOK, NextIteration, clearImmediate
<1>5. cleared' \subseteq cleared \cup {i} /\ issued' = issued /\ ran' = ran
  BY DEF clearImmediate
<1>6. HistoryKnown'
  BY <1>0, <1>5 DEF HistoryKnown
<1>7. QueueInOrder'
  <2>1. \A k \in 1..Len(immediateQueue') : immediateQueue'[k] \in 1..issued /\ immediateQueue'[k] \notin cleared \cup {i}
    BY <1>1 DEF QueueInOrder
  <2> QED BY <1>1, <1>5, <2>1 DEF QueueInOrder
<1>8. InOrder'
  <2>1. \A k \in 1..Len(ran) : ran[k] \notin cleared'
    <3>1. CASE immediateQueue' = immediateQueue
      BY <3>1 DEF InOrder, clearImmediate
    <3>2. CASE immediateQueue' # immediateQueue
      <4>1. PICK m \in 1..Len(immediateQueue) : immediateQueue[m] = i
        BY <1>1, <3>2 DEF Waiting
      <4>2. \A k \in 1..Len(ran) : ran[k] < i /\ ran[k] \in Nat
        BY <4>1, QueueFacts DEF InOrder, TypeOK
      <4> QED BY <1>0, <1>5, <4>2 DEF InOrder
    <3> QED BY <3>1, <3>2
  <2>2. \A j \in 1..Len(ran), k \in 1..Len(immediateQueue') : ran[j] < immediateQueue'[k]
    BY <1>1 DEF InOrder
  <2> QED BY <1>5, <2>1, <2>2 DEF InOrder
<1> QED BY <1>2, <1>3, <1>4, <1>6, <1>7, <1>8

\* processImmediate stops the Timer of an empty queue, or calls the oldest immediate
\* and leaves the Timer due in the next iteration.
LEMMA ProcessImmediateKeeps ==
  ASSUME IInv, processImmediate
  PROVE  IInv'
<1> USE DEF IInv
<1>1. CASE immediateQueue = <<>>
  <2>1. TypeOK'
    BY <1>1 DEF TypeOK, processImmediate, StopQueue, Stopped
  <2>2. Armed' /\ OncePerIteration'
    BY <1>1 DEF TypeOK, Armed, OncePerIteration, processImmediate, StopQueue, Stopped
  <2>3. NextIteration'
    BY <1>1 DEF TypeOK, NextIteration, processImmediate, StopQueue
  <2>4. InOrder' /\ QueueInOrder' /\ HistoryKnown'
    BY <1>1 DEF InOrder, QueueInOrder, HistoryKnown, processImmediate
  <2> QED BY <2>1, <2>2, <2>3, <2>4
<1>2. CASE immediateQueue # <<>>
  <2>0. /\ phase = "timers" /\ due = 0 /\ due' = 1
        /\ fires' = fires + 1 /\ running' = Head(immediateQueue) /\ ran' = Append(ran, Head(immediateQueue))
        /\ immediateQueue' = Tail(immediateQueue)
        /\ UNCHANGED <<phase, issued, cleared, emptied, started>>
    BY <1>2 DEF processImmediate, TakeImmediate
  <2>1. immediateQueue \in Seq(Nat) /\ ran \in Seq(Nat) /\ issued \in Nat
    BY DEF TypeOK
  <2>2. PICK n \in Nat, m \in Nat : n + 1 = Len(immediateQueue) /\ m = Len(ran) /\ n = Len(immediateQueue) - 1
    <3>1. Len(immediateQueue) \in Nat /\ Len(ran) \in Nat /\ Len(immediateQueue) >= 1
      BY <1>2, <2>1, QueueFacts
    <3>2. Len(immediateQueue) - 1 \in Nat /\ (Len(immediateQueue) - 1) + 1 = Len(immediateQueue)
      BY <3>1
    <3> QED BY <3>1, <3>2
  <2>3. /\ immediateQueue' \in Seq(Nat) /\ Len(immediateQueue') = n
        /\ \A k \in 1..n : immediateQueue'[k] = immediateQueue[k + 1]
        /\ running' = immediateQueue[1]
        /\ \A k \in 1..(n + 1) : immediateQueue[k] \in Nat
    BY <1>2, <2>0, <2>1, <2>2, QueueFacts
  <2>4. running' \in Nat /\ 1 \in 1..(n + 1) /\ \A k \in 1..n : k + 1 \in 1..(n + 1) /\ 1 < k + 1
    BY <2>3
  <2>5. /\ ran' \in Seq(Nat) /\ Len(ran') = m + 1 /\ ran'[m + 1] = immediateQueue[1]
        /\ \A k \in 1..m : ran'[k] = ran[k]
    BY <2>0, <2>1, <2>2, <2>3, <2>4, QueueFacts
  <2>6. \A k \in 1..(m + 1) : k \in 1..m \/ k = m + 1
    OBVIOUS
  <2>7. TypeOK'
    BY <2>0, <2>3, <2>4, <2>5 DEF TypeOK
  <2>8. Armed' /\ NextIteration'
    BY <1>2, <2>0 DEF Armed, NextIteration, Stopped
  <2>9. OncePerIteration'
    BY <2>0 DEF TypeOK, NextIteration, OncePerIteration
  <2>10. QueueInOrder'
    <3>1. \A j, k \in 1..n : j < k => immediateQueue'[j] < immediateQueue'[k]
      BY <2>2, <2>3, <2>4 DEF QueueInOrder
    <3>2. \A k \in 1..n : immediateQueue'[k] \in 1..issued /\ immediateQueue'[k] \notin cleared
      BY <2>2, <2>3, <2>4 DEF QueueInOrder
    <3> QED BY <2>0, <2>3, <3>1, <3>2 DEF QueueInOrder
  <2>11. HistoryKnown'
    <3>1. immediateQueue[1] \in 1..issued
      BY <2>2, <2>4 DEF QueueInOrder
    <3>2. \A k \in 1..(m + 1) : ran'[k] \in 1..issued
      BY <2>2, <2>5, <2>6, <3>1 DEF HistoryKnown
    <3> QED BY <2>0, <2>5, <3>2 DEF HistoryKnown
  <2>12. InOrder'
    <3>1. \A k \in 1..m : ran[k] < immediateQueue[1]
      BY <2>2, <2>4 DEF InOrder
    <3>2. \A j, k \in 1..(m + 1) : j < k => ran'[j] < ran'[k]
      <4> SUFFICES ASSUME NEW j \in 1..(m + 1), NEW k \in 1..(m + 1), j < k
                   PROVE  ran'[j] < ran'[k]
        OBVIOUS
      <4>1. CASE k = m + 1
        BY <2>5, <3>1, <4>1
      <4>2. CASE k \in 1..m
        <5>1. j \in 1..m /\ ran'[j] = ran[j] /\ ran'[k] = ran[k]
          BY <2>5, <4>2
        <5>2. ran[j] < ran[k]
          BY <2>2, <4>2, <5>1 DEF InOrder
        <5> QED BY <5>1, <5>2
      <4> QED BY <2>6, <4>1, <4>2
    <3>3. \A k \in 1..(m + 1) : ran'[k] \notin cleared
      <4>1. immediateQueue[1] \notin cleared
        BY <2>2, <2>4 DEF QueueInOrder
      <4> QED BY <2>2, <2>5, <2>6, <4>1 DEF InOrder
    <3>4. \A j \in 1..(m + 1), k \in 1..n : ran'[j] < immediateQueue'[k]
      <4> SUFFICES ASSUME NEW j \in 1..(m + 1), NEW k \in 1..n
                   PROVE  ran'[j] < immediateQueue[k + 1]
        BY <2>3
      <4>1. CASE j = m + 1
        BY <2>2, <2>4, <2>5, <4>1 DEF QueueInOrder
      <4>2. CASE j \in 1..m
        BY <2>2, <2>4, <2>5, <4>2 DEF InOrder
      <4> QED BY <2>6, <4>1, <4>2
    <3> QED BY <2>0, <2>3, <2>5, <3>2, <3>3, <3>4 DEF InOrder
  <2> QED BY <2>7, <2>8, <2>9, <2>10, <2>11, <2>12
<1> QED BY <1>1, <1>2

\* Every step keeps the invariant.
LEMMA NextIInv == IInv /\ [Next]_vars => IInv'
<1> SUFFICES ASSUME IInv, [Next]_vars PROVE IInv'
  OBVIOUS
<1>1. CASE setImmediate
  BY <1>1, SetImmediateKeeps
<1>2. ASSUME NEW i \in 1..MaxImmediates, clearImmediate(i) PROVE IInv'
  BY <1>2, ClearImmediateKeeps
<1>3. CASE processImmediate
  BY <1>3, ProcessImmediateKeeps
<1>4. CASE Returns
  BY <1>4 DEF IInv, TypeOK, Armed, InOrder, OncePerIteration, QueueInOrder, HistoryKnown, NextIteration, Returns
<1>5. CASE Throws
  BY <1>5 DEF IInv, TypeOK, Armed, InOrder, OncePerIteration, QueueInOrder, HistoryKnown, NextIteration, Throws
<1>6. ASSUME NEW advanced \in BOOLEAN, IterationBegins(advanced) PROVE IInv'
  <2>0. phase' = "timers" /\ fires' = 0 /\ due' \in {due, 0} /\ (due' = 0 => due \in {0, 1})
    BY <1>6 DEF IInv, TypeOK, IterationBegins
  <2>1. TypeOK' /\ Armed' /\ OncePerIteration' /\ NextIteration'
    <3>1. TypeOK'
      BY <1>6, <2>0 DEF IInv, TypeOK, IterationBegins
    <3>2. Armed'
      BY <1>6, <2>0 DEF IInv, TypeOK, Armed, IterationBegins, Stopped
    <3>3. OncePerIteration' /\ NextIteration'
      BY <2>0 DEF OncePerIteration, NextIteration
    <3> QED BY <3>1, <3>2, <3>3
  <2>2. InOrder' /\ QueueInOrder' /\ HistoryKnown'
    BY <1>6 DEF IInv, InOrder, QueueInOrder, HistoryKnown, IterationBegins
  <2> QED BY <2>1, <2>2 DEF IInv
<1>7. CASE TimersEnd
  BY <1>7 DEF IInv, TypeOK, Armed, InOrder, OncePerIteration, QueueInOrder, HistoryKnown, NextIteration, TimersEnd
<1>8. CASE UNCHANGED vars
  BY <1>8 DEF IInv, TypeOK, Armed, InOrder, OncePerIteration, QueueInOrder, HistoryKnown, NextIteration, vars
<1> QED BY <1>1, <1>2, <1>3, <1>4, <1>5, <1>6, <1>7, <1>8 DEF Next

\* The queue, the Timer and the histories keep their types.
THEOREM TypeCorrect == Spec => []TypeOK
<1>1. IInv => TypeOK
  BY DEF IInv
<1> QED BY InitIInv, NextIInv, <1>1, PTL DEF Spec

\* setImmediate, clearImmediate and processImmediate of lib/timers.js, for any number of
\* immediates: a queue that holds one has its Timer running, callbacks run in the order
\* of creation and never after clearImmediate, and one runs per iteration of the loop
\* unless clearImmediate has emptied the queue in between.
THEOREM ImmediatesCorrect == Spec => []ImmediatesSound
<1>1. IInv => ImmediatesSound
  BY DEF IInv, ImmediatesSound
<1> QED BY InitIInv, NextIInv, <1>1, PTL DEF Spec

\* No step withdraws a call or calls an immediate a second time: what has run stays
\* run and can no longer be cleared, and what a step calls was waiting and not cleared.
NeverAgain ==
  [][/\ \A k \in 1..Len(ran) : k <= Len(ran') /\ ran'[k] = ran[k] /\ ran[k] \notin cleared'
     /\ \A k \in 1..Len(ran') : k > Len(ran) => Waiting(ran'[k]) /\ ran'[k] \notin cleared]_vars

\* What processImmediate called it never calls again, whatever the callbacks set and clear.
THEOREM CalledOnce == Spec => NeverAgain
<1> DEFINE A == /\ \A k \in 1..Len(ran) : k <= Len(ran') /\ ran'[k] = ran[k] /\ ran[k] \notin cleared'
                /\ \A k \in 1..Len(ran') : k > Len(ran) => Waiting(ran'[k]) /\ ran'[k] \notin cleared
<1>1. ASSUME IInv, IInv', [Next]_vars PROVE A \/ UNCHANGED vars
  <2>0. ran \in Seq(Nat) /\ immediateQueue \in Seq(Nat) /\ ran' \in Seq(Nat)
    BY <1>1 DEF IInv, TypeOK
  <2>1. PICK m \in Nat : m = Len(ran)
    BY <2>0, QueueFacts
  <2>2. \A k \in 1..Len(ran') : ran'[k] \notin cleared'
    BY <1>1 DEF IInv, InOrder
  <2>3. CASE processImmediate /\ immediateQueue # <<>>
    <3>1. /\ Len(immediateQueue) \in Nat /\ Len(immediateQueue) >= 1 /\ ran' = Append(ran, Head(immediateQueue))
          /\ Head(immediateQueue) = immediateQueue[1] /\ cleared' = cleared
      BY <2>0, <2>3, QueueFacts DEF processImmediate, TakeImmediate
    <3>2. 1 \in 1..Len(immediateQueue)
      BY <3>1
    <3>3. immediateQueue[1] \in Nat /\ immediateQueue[1] \notin cleared /\ Waiting(immediateQueue[1])
      BY <1>1, <2>0, <3>2, QueueFacts DEF IInv, QueueInOrder, Waiting
    <3>4. Len(ran') = m + 1 /\ ran'[m + 1] = immediateQueue[1] /\ \A k \in 1..m : ran'[k] = ran[k]
      BY <2>0, <2>1, <3>1, <3>3, QueueFacts
    <3>5. \A k \in 1..(m + 1) : k > m => k = m + 1
      OBVIOUS
    <3>6. \A k \in 1..m : k <= m + 1 /\ k \in 1..(m + 1)
      OBVIOUS
    <3>7. \A k \in 1..Len(ran) : k <= Len(ran') /\ ran'[k] = ran[k] /\ ran[k] \notin cleared'
      BY <2>1, <2>2, <3>4, <3>6
    <3>8. \A k \in 1..Len(ran') : k > Len(ran) => Waiting(ran'[k]) /\ ran'[k] \notin cleared
      BY <2>1, <3>3, <3>4, <3>5
    <3> QED BY <3>7, <3>8
  <2>4. CASE ran' = ran
    <3>1. \A k \in 1..Len(ran) : k <= Len(ran) /\ ~(k > Len(ran))
      BY <2>1
    <3> QED BY <2>2, <2>4, <3>1
  <2>5. ran' = ran \/ (processImmediate /\ immediateQueue # <<>>)
    BY <1>1 DEF Next, vars, setImmediate, clearImmediate, processImmediate, Returns, Throws, IterationBegins, TimersEnd
  <2> QED BY <2>3, <2>4, <2>5
<1>2. IInv /\ IInv' /\ [Next]_vars => [A]_vars
  BY <1>1
<1> QED BY InitIInv, NextIInv, <1>2, PTL DEF Spec, NeverAgain
=============================================================================
