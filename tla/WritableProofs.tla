--------------------------- MODULE WritableProofs ---------------------------
(***************************************************************************)
(* write(), end() and onwrite, for any chunks, marks and implementation,   *)
(* and any number of chunks: chunks reach _write in order (but for those   *)
(* that an error let others overtake) and one at a time, and the length is *)
(* that of the chunks not yet written.                                     *)
(*                                                                         *)
(* The invariant says where every chunk is: given to _write, or in the     *)
(* buffer, in order, behind those of the buffer that a loop of onwrite has *)
(* done and not yet removed; p counts these.  The stack tells whether that *)
(* loop runs, a write callback that finds chunks in the buffer finds no    *)
(* other callback below, and as long as no chunk has failed, user code     *)
(* that may write finds chunks in the buffer only while one is written.    *)
(***************************************************************************)
EXTENDS Writable, SequenceTheorems, FiniteSetTheorems, TLAPS

Frames == [k : UserFrames \cup ImplFrames, c : Nat, end : BOOLEAN]

Holds(st, kind) == \E k \in 1..Len(st) : st[k].k = kind

\* One loop over the buffer at most; it has passed p of its chunks.
Loop(st, processing, p) ==
  /\ \A j, k \in 1..Len(st) : st[j].k = "proc" /\ st[k].k = "proc" => j = k
  /\ processing <=> Holds(st, "proc")
  /\ \A k \in 1..Len(st) : st[k].k = "proc" => p = st[k].c + 1
  /\ ~processing => p = 0

\* A write callback that finds chunks waiting is the only one, and none is being written.
CbAlone(st, b, writing) ==
  \A k \in 1..Len(st) : st[k].k = "cb" /\ b # <<>> =>
    /\ ~writing
    /\ \A j \in (k + 1)..Len(st) : st[j].k = "endFinish"

Given(su) == {su[k] : k \in 1..Len(su)}
Newest(su) == su[Len(su)]

\* A chunk had failed before the k-th one was given to _write.
Excused(su, fa, k) == \E m \in 1..(k - 1) : su[m] \in fa

\* Each of the w chunks was given to _write once, or stands in the buffer behind the p that
\* a loop has passed; both in order, but for the chunks written after one had failed.
Queue(b, p, w, su, fa) ==
  /\ p <= Len(b)
  /\ \A i, j \in 1..Len(b) : i < j => b[i] < b[j]
  /\ \A i \in 1..Len(b) : b[i] \in 1..w
  /\ \A k \in 1..Len(su) : su[k] \in 1..w
  /\ \A c \in 1..w : (\E k \in 1..Len(su) : su[k] = c) \/ (\E i \in (p + 1)..Len(b) : b[i] = c)
  /\ \A k \in 1..Len(su), i \in (p + 1)..Len(b) :
       su[k] # b[i] /\ (su[k] < b[i] \/ Excused(su, fa, k))
  /\ \A j, k \in 1..Len(su) : j < k =>
       su[j] # su[k] /\ (su[j] < su[k] \/ Excused(su, fa, j))

Placed(processing, st, b, w, su, fa) ==
  \E p \in Nat : Loop(st, processing, p) /\ Queue(b, p, w, su, fa)

\* The chunk being written is the last one given to _write, and onwrite knows its length.
InFlight(s, fl, ch, su) ==
  IF s.writing
  THEN /\ Len(su) >= 1 /\ fl = {Newest(su)}
       /\ s.writelen = ch[Newest(su)].len /\ s.writecb = writecb(Newest(su), ch[Newest(su)])
  ELSE fl = {}

\* What became of the chunks given to _write.
Ledger(fl, su, dn, fa) == dn \cup fa \cup fl = Given(su) /\ dn \cap fl = {}

\* g is the function of partial sums of the lengths of the first n chunks but those in dn.
Sums(g, n, ch, dn) ==
  /\ g \in [0..n -> Int] /\ g[0] = 0
  /\ \A c \in 1..n : g[c] = g[c - 1] + (IF c \in dn THEN 0 ELSE ch[c].len)

Lengths(length, ch, dn) == \E g : Sums(g, Len(ch), ch, dn) /\ g[Len(ch)] = length

States == [length : Nat, writing : BOOLEAN, sync : BOOLEAN, bufferProcessing : BOOLEAN,
           writelen : Nat, writecb : Nat, needDrain : BOOLEAN, ending : BOOLEAN,
           ended : BOOLEAN, finishing : BOOLEAN, finished : BOOLEAN]
Chunk == [len : Sizes, cb : BOOLEAN]

Sound(s, b, ch, fl, st, su, dn, fa) ==
  /\ s \in States /\ b \in Seq(Nat) /\ ch \in Seq(Chunk) /\ st \in Seq(Frames) /\ su \in Seq(Nat)
  /\ Placed(s.bufferProcessing, st, b, Len(ch), su, fa) /\ CbAlone(st, b, s.writing)
  /\ InFlight(s, fl, ch, su) /\ Ledger(fl, su, dn, fa)
  /\ Lengths(s.length, ch, dn)
  /\ s.finishing => s.ending \/ s.ended

Promised(tk) == \E k \in 1..Len(tk) : tk[k] = "drain"

\* 'drain' is on its way once everything is written, or a callback still has to schedule it.
Drain(s, ch, dn, tk, st) ==
  s.needDrain /\ 1..Len(ch) \subseteq dn => s.finishing \/ Promised(tk) \/ Holds(st, "cb")

Ticks == {"cb", "drain"}

IInv ==
  /\ Sound(state, buffer, chunk, inflight, stack, sunk, done, failed)
  /\ ticks \in Seq(Ticks) /\ Drain(state, chunk, done, ticks, stack)

\* Only write callbacks run inside the _write of a loop over the buffer.
Nested(st) == \A j, k \in 1..Len(st) : j < k /\ st[j].k = "proc" => st[k].k = "cb"

\* Onwrite is half way through: it will go on with the buffer.
Busy(st) == Holds(st, "cb") \/ (st # <<>> /\ st[Len(st)].k = "proc")

\* As long as no chunk has failed, chunks wait only for one being written or for onwrite.
Attended ==
  failed = {} /\ ~state.finishing =>
    Nested(stack) /\ (buffer # <<>> /\ ~state.writing => Busy(stack))

-----------------------------------------------------------------------------
\* A set of natural numbers that is not empty has a least element.
LEMMA LeastElement ==
  ASSUME NEW T, T \subseteq Nat, T # {}
  PROVE  \E m \in T : \A k \in T : m <= k
<1> DEFINE R == OpToRel(<, Nat)
<1>1. IsWellFoundedOn(R, Nat)
  BY NatLessThanWellFounded
<1>2. \A x, y \in Nat : y < x => <<y, x>> \in R
  BY DEF OpToRel
<1> HIDE DEF R
<1>3. PICK m \in T : \A k \in T : ~ (<<k, m>> \in R)
  BY <1>1, WFMin
<1>4. \A k \in T : ~(k < m)
  BY <1>2, <1>3
<1> QED BY <1>4

LEMMA SequenceFacts ==
  ASSUME NEW S, NEW s \in Seq(S)
  PROVE  /\ Len(s) \in Nat
         /\ \A i \in 1..Len(s) : s[i] \in S
         /\ s = <<>> <=> Len(s) = 0
         /\ \A x \in S : /\ Append(s, x) \in Seq(S) /\ Len(Append(s, x)) = Len(s) + 1
                         /\ Append(s, x)[Len(s) + 1] = x
                         /\ \A i \in 1..Len(s) : Append(s, x)[i] = s[i]
<1>1. Len(s) \in Nat /\ \A i \in 1..Len(s) : s[i] \in S
  BY LenProperties, ElementOfSeq
<1>2. s = <<>> <=> Len(s) = 0
  BY EmptySeq
<1>3. \A x \in S : /\ Append(s, x) \in Seq(S) /\ Len(Append(s, x)) = Len(s) + 1
                   /\ Append(s, x)[Len(s) + 1] = x
                   /\ \A i \in 1..Len(s) : Append(s, x)[i] = s[i]
  BY AppendProperties
<1> QED BY <1>1, <1>2, <1>3

-----------------------------------------------------------------------------
\* The buffer and what was given to _write: the steps that change them.
LEMMA AppendFacts ==
  ASSUME NEW su \in Seq(Nat), NEW x \in Nat, NEW g, g = Len(su)
  PROVE  /\ g \in Nat /\ Len(Append(su, x)) = g + 1 /\ Append(su, x) \in Seq(Nat)
         /\ \A k \in 1..g : Append(su, x)[k] = su[k] /\ su[k] \in Nat
         /\ Append(su, x)[g + 1] = x /\ Newest(Append(su, x)) = x
         /\ \A k \in 1..(g + 1) : k = g + 1 \/ k \in 1..g
         /\ Given(Append(su, x)) = Given(su) \cup {x}
<1>1. g \in Nat
  BY SequenceFacts
<1>2. /\ Append(su, x) \in Seq(Nat) /\ Len(Append(su, x)) = g + 1 /\ Append(su, x)[g + 1] = x
      /\ \A k \in 1..g : Append(su, x)[k] = su[k] /\ su[k] \in Nat
  BY <1>1, SequenceFacts
<1>3. \A k : k \in 1..(g + 1) <=> k = g + 1 \/ k \in 1..g
  BY <1>1
<1>4. Given(Append(su, x)) = Given(su) \cup {x}
  BY <1>1, <1>2, <1>3 DEF Given
<1> QED BY <1>1, <1>2, <1>3, <1>4 DEF Newest

LEMMA ExcusedKept ==
  ASSUME NEW su \in Seq(Nat), NEW x \in Nat, NEW fa, NEW k \in 1..Len(su), Excused(su, fa, k)
  PROVE  Excused(Append(su, x), fa, k)
<1>1. PICK g \in Nat : g = Len(su)
  BY SequenceFacts
<1>4. \A i \in 1..g : Append(su, x)[i] = su[i]
  BY <1>1, AppendFacts
<1>2. PICK m \in 1..(k - 1) : su[m] \in fa
  BY DEF Excused
<1>3. m \in 1..g
  BY <1>1, <1>2
<1> QED BY <1>1, <1>2, <1>3, <1>4 DEF Excused

\* A loop of onwrite gives the next chunk of the buffer to _write.
LEMMA QueueNext ==
  ASSUME NEW b \in Seq(Nat), NEW su \in Seq(Nat), NEW p \in Nat, NEW w \in Nat, NEW fa,
         Queue(b, p, w, su, fa), p < Len(b)
  PROVE  /\ b[p + 1] \in 1..w /\ b[p + 1] \in Nat /\ b[p + 1] \notin Given(su)
         /\ Queue(b, p + 1, w, Append(su, b[p + 1]), fa)
<1> DEFINE x == b[p + 1]
           sx == Append(su, x)
<1>1. PICK n \in Nat : n = Len(b) /\ \A i \in 1..n : b[i] \in Nat
  BY SequenceFacts
<1>2. p + 1 \in 1..n /\ p + 1 \in (p + 1)..n
  BY <1>1
<1>3. x \in 1..w /\ x \in Nat
  BY <1>1, <1>2 DEF Queue
<1>4. \A i \in (p + 2)..n : i \in (p + 1)..n /\ i \in 1..n /\ b[i] \in Nat /\ x < b[i]
  <2>1. \A i \in (p + 2)..n : i \in (p + 1)..n /\ i \in 1..n /\ p + 1 < i
    OBVIOUS
  <2> QED BY <1>1, <1>2, <2>1 DEF Queue
<1>5. \A i \in (p + 1)..n : i = p + 1 \/ i \in (p + 2)..n
  OBVIOUS
<1> HIDE DEF x
<1>6a. PICK g \in Nat : g = Len(su)
  BY SequenceFacts
<1>6. /\ Len(su) = g /\ Len(sx) = g + 1
      /\ \A k \in 1..g : sx[k] = su[k] /\ su[k] \in Nat
      /\ sx[g + 1] = x /\ \A k \in 1..(g + 1) : k = g + 1 \/ k \in 1..g
  BY <1>3, <1>6a, AppendFacts
<1>7. \A k \in 1..g : Excused(su, fa, k) => Excused(sx, fa, k)
  BY <1>3, <1>6, ExcusedKept
<1>8. x \notin Given(su)
  BY <1>1, <1>2, <1>6 DEF Queue, Given, x
<1> HIDE DEF sx
<1>9. \A k \in 1..(g + 1) : sx[k] \in 1..w
  BY <1>3, <1>6 DEF Queue
<1>10. \A c \in 1..w : (\E k \in 1..(g + 1) : sx[k] = c) \/ (\E i \in (p + 2)..n : b[i] = c)
  <2> SUFFICES ASSUME NEW c \in 1..w
               PROVE  (\E k \in 1..(g + 1) : sx[k] = c) \/ (\E i \in (p + 2)..n : b[i] = c)
    OBVIOUS
  <2>1. (\E k \in 1..g : su[k] = c) \/ (\E i \in (p + 1)..n : b[i] = c)
    BY <1>1, <1>6 DEF Queue
  <2>2. \A k \in 1..g : k \in 1..(g + 1)
    OBVIOUS
  <2>3. g + 1 \in 1..(g + 1)
    OBVIOUS
  <2> QED BY <1>5, <1>6, <2>1, <2>2, <2>3 DEF x
<1>11. \A k \in 1..(g + 1), i \in (p + 2)..n : sx[k] # b[i] /\ (sx[k] < b[i] \/ Excused(sx, fa, k))
  <2> SUFFICES ASSUME NEW k \in 1..(g + 1), NEW i \in (p + 2)..n
               PROVE  sx[k] # b[i] /\ (sx[k] < b[i] \/ Excused(sx, fa, k))
    OBVIOUS
  <2>1. CASE k = g + 1
    BY <1>3, <1>4, <1>6, <2>1
  <2>2. CASE k \in 1..g
    <3>1. su[k] # b[i] /\ (su[k] < b[i] \/ Excused(su, fa, k))
      BY <1>1, <1>4, <1>6, <2>2 DEF Queue
    <3> QED BY <1>6, <1>7, <2>2, <3>1
  <2> QED BY <1>6, <2>1, <2>2
<1>12. \A j, k \in 1..(g + 1) : j < k => sx[j] # sx[k] /\ (sx[j] < sx[k] \/ Excused(sx, fa, j))
  <2> SUFFICES ASSUME NEW j \in 1..(g + 1), NEW k \in 1..(g + 1), j < k
               PROVE  sx[j] # sx[k] /\ (sx[j] < sx[k] \/ Excused(sx, fa, j))
    OBVIOUS
  <2>1. j \in 1..g
    OBVIOUS
  <2>2. CASE k = g + 1
    <3>1. su[j] # x /\ (su[j] < x \/ Excused(su, fa, j))
      BY <1>1, <1>2, <1>6, <2>1 DEF Queue, x
    <3> QED BY <1>6, <1>7, <2>1, <2>2, <3>1
  <2>3. CASE k \in 1..g
    <3>1. su[j] # su[k] /\ (su[j] < su[k] \/ Excused(su, fa, j))
      BY <1>6, <2>1, <2>3 DEF Queue
    <3> QED BY <1>6, <1>7, <2>1, <2>3, <3>1
  <2> QED BY <1>6, <2>2, <2>3
<1>13. Queue(b, p + 1, w, sx, fa)
  <2>1. p + 1 <= n /\ (p + 1) + 1 = p + 2
    BY <1>2
  <2>2. (\A i, j \in 1..n : i < j => b[i] < b[j]) /\ (\A i \in 1..n : b[i] \in 1..w)
    BY <1>1 DEF Queue
  <2> QED BY <1>1, <1>6, <1>9, <1>10, <1>11, <1>12, <2>1, <2>2 DEF Queue
<1> QED BY <1>3, <1>8, <1>13 DEF sx, x

\* write() gives its chunk to _write at once; if chunks wait in the buffer, one had failed.
LEMMA QueueDirect ==
  ASSUME NEW b \in Seq(Nat), NEW su \in Seq(Nat), NEW p \in Nat, NEW w \in Nat, NEW fa,
         Queue(b, p, w, su, fa), b # <<>> => \E m \in 1..Len(su) : su[m] \in fa
  PROVE  w + 1 \notin Given(su) /\ Queue(b, p, w + 1, Append(su, w + 1), fa)
<1> DEFINE x == w + 1
           sx == Append(su, x)
<1>1. PICK n \in Nat : n = Len(b) /\ \A i \in 1..n : b[i] \in 1..w
  BY SequenceFacts DEF Queue
<1>2. x \in Nat /\ x = w + 1
  OBVIOUS
<1> HIDE DEF x
<1>3a. PICK g \in Nat : g = Len(su)
  BY SequenceFacts
<1>3. /\ Len(su) = g /\ Len(sx) = g + 1
      /\ \A k \in 1..g : sx[k] = su[k] /\ su[k] \in Nat
      /\ sx[g + 1] = x /\ \A k \in 1..(g + 1) : k = g + 1 \/ k \in 1..g
  BY <1>2, <1>3a, AppendFacts
<1>4. \A k \in 1..g : Excused(su, fa, k) => Excused(sx, fa, k)
  BY <1>2, <1>3, ExcusedKept
<1> HIDE DEF sx
<1>5. \A k \in 1..g : su[k] \in 1..w
  BY <1>3 DEF Queue
<1>6. x \notin Given(su)
  <2>1. \A k \in 1..g : su[k] # x
    BY <1>2, <1>5
  <2> QED BY <1>3, <2>1 DEF Given
<1>7. \A k \in 1..(g + 1) : sx[k] \in 1..(w + 1)
  <2>1. x \in 1..(w + 1) /\ \A c \in 1..w : c \in 1..(w + 1)
    BY <1>2
  <2> QED BY <1>3, <1>5, <2>1
<1>8. \A c \in 1..(w + 1) : (\E k \in 1..(g + 1) : sx[k] = c) \/ (\E i \in (p + 1)..n : b[i] = c)
  <2> SUFFICES ASSUME NEW c \in 1..(w + 1)
               PROVE  (\E k \in 1..(g + 1) : sx[k] = c) \/ (\E i \in (p + 1)..n : b[i] = c)
    OBVIOUS
  <2>1. c = x \/ c \in 1..w
    BY <1>2
  <2>2. c \in 1..w => (\E k \in 1..g : su[k] = c) \/ (\E i \in (p + 1)..n : b[i] = c)
    BY <1>1, <1>3 DEF Queue
  <2>3. \A k \in 1..g : k \in 1..(g + 1)
    OBVIOUS
  <2>4. g + 1 \in 1..(g + 1)
    OBVIOUS
  <2> QED BY <1>3, <2>1, <2>2, <2>3, <2>4
<1>9. \A k \in 1..(g + 1), i \in (p + 1)..n : sx[k] # b[i] /\ (sx[k] < b[i] \/ Excused(sx, fa, k))
  <2> SUFFICES ASSUME NEW k \in 1..(g + 1), NEW i \in (p + 1)..n
               PROVE  sx[k] # b[i] /\ (sx[k] < b[i] \/ Excused(sx, fa, k))
    OBVIOUS
  <2>0. i \in 1..n /\ b[i] \in 1..w
    BY <1>1
  <2>1. CASE k = g + 1
    <3>1. b # <<>>
      BY <1>1, <2>0, SequenceFacts
    <3>2. PICK m \in 1..g : su[m] \in fa
      BY <1>3, <3>1
    <3>3. m \in 1..(k - 1) /\ sx[m] \in fa
      BY <1>3, <2>1, <3>2
    <3>4. Excused(sx, fa, k)
      BY <3>3 DEF Excused
    <3> QED BY <1>2, <1>3, <2>0, <2>1, <3>4
  <2>2. CASE k \in 1..g
    <3>1. su[k] # b[i] /\ (su[k] < b[i] \/ Excused(su, fa, k))
      BY <1>1, <1>3, <2>2 DEF Queue
    <3> QED BY <1>3, <1>4, <2>2, <3>1
  <2> QED BY <1>3, <2>1, <2>2
<1>10. \A j, k \in 1..(g + 1) : j < k => sx[j] # sx[k] /\ (sx[j] < sx[k] \/ Excused(sx, fa, j))
  <2> SUFFICES ASSUME NEW j \in 1..(g + 1), NEW k \in 1..(g + 1), j < k
               PROVE  sx[j] # sx[k] /\ (sx[j] < sx[k] \/ Excused(sx, fa, j))
    OBVIOUS
  <2>1. j \in 1..g
    OBVIOUS
  <2>2. CASE k = g + 1
    BY <1>2, <1>3, <1>5, <2>1, <2>2
  <2>3. CASE k \in 1..g
    <3>1. su[j] # su[k] /\ (su[j] < su[k] \/ Excused(su, fa, j))
      BY <1>3, <2>1, <2>3 DEF Queue
    <3> QED BY <1>3, <1>4, <2>1, <2>3, <3>1
  <2> QED BY <1>3, <2>2, <2>3
<1>11. Queue(b, p, w + 1, sx, fa)
  <2>1. p <= n /\ (\A i, j \in 1..n : i < j => b[i] < b[j]) /\ (\A i \in 1..n : b[i] \in 1..(w + 1))
    BY <1>1 DEF Queue
  <2> QED BY <1>1, <1>3, <1>7, <1>8, <1>9, <1>10, <2>1 DEF Queue
<1> QED BY <1>6, <1>11 DEF sx, x

\* write() puts its chunk behind the others.
LEMMA QueueBehind ==
  ASSUME NEW b \in Seq(Nat), NEW su \in Seq(Nat), NEW p \in Nat, NEW w \in Nat, NEW fa,
         Queue(b, p, w, su, fa)
  PROVE  Queue(Append(b, w + 1), p, w + 1, su, fa)
<1> DEFINE x == w + 1
           bx == Append(b, x)
<1>1. x \in Nat /\ x = w + 1
  OBVIOUS
<1> HIDE DEF x
<1>2a. PICK n \in Nat : n = Len(b)
  BY SequenceFacts
<1>2. /\ Len(b) = n /\ Len(bx) = n + 1
      /\ \A k \in 1..n : bx[k] = b[k]
      /\ bx[n + 1] = x /\ \A k \in 1..(n + 1) : k = n + 1 \/ k \in 1..n
  BY <1>1, <1>2a, AppendFacts
<1> HIDE DEF bx
<1>3. /\ p <= n /\ (\A i, j \in 1..n : i < j => b[i] < b[j]) /\ (\A i \in 1..n : b[i] \in 1..w)
      /\ \A k \in 1..Len(su) : su[k] \in 1..w
  BY <1>2 DEF Queue
<1>4. p <= n + 1
  BY <1>3
<1>5. \A i, j \in 1..(n + 1) : i < j => bx[i] < bx[j]
  <2> SUFFICES ASSUME NEW i \in 1..(n + 1), NEW j \in 1..(n + 1), i < j PROVE bx[i] < bx[j]
    OBVIOUS
  <2>1. i \in 1..n
    OBVIOUS
  <2>2. b[i] \in 1..w
    BY <1>3, <2>1
  <2>3. CASE j = n + 1
    BY <1>1, <1>2, <2>1, <2>2, <2>3
  <2>4. CASE j \in 1..n
    BY <1>2, <1>3, <2>1, <2>4
  <2> QED BY <1>2, <2>3, <2>4
<1>6. (\A i \in 1..(n + 1) : bx[i] \in 1..(w + 1)) /\ (\A k \in 1..Len(su) : su[k] \in 1..(w + 1))
  <2>1. \A c \in 1..w : c \in 1..(w + 1)
    OBVIOUS
  <2>2. x \in 1..(w + 1)
    BY <1>1
  <2> QED BY <1>2, <1>3, <2>1, <2>2
<1>7. \A c \in 1..(w + 1) : (\E k \in 1..Len(su) : su[k] = c) \/ (\E i \in (p + 1)..(n + 1) : bx[i] = c)
  <2> SUFFICES ASSUME NEW c \in 1..(w + 1)
               PROVE  (\E k \in 1..Len(su) : su[k] = c) \/ (\E i \in (p + 1)..(n + 1) : bx[i] = c)
    OBVIOUS
  <2>1. c = x \/ c \in 1..w
    BY <1>1
  <2>2. c \in 1..w => (\E k \in 1..Len(su) : su[k] = c) \/ (\E i \in (p + 1)..n : b[i] = c)
    BY <1>2 DEF Queue
  <2>3. \A i \in (p + 1)..n : i \in (p + 1)..(n + 1) /\ i \in 1..n
    OBVIOUS
  <2>4. n + 1 \in (p + 1)..(n + 1)
    BY <1>3
  <2> QED BY <1>2, <2>1, <2>2, <2>3, <2>4
<1>8. \A k \in 1..Len(su), i \in (p + 1)..(n + 1) : su[k] # bx[i] /\ (su[k] < bx[i] \/ Excused(su, fa, k))
  <2> SUFFICES ASSUME NEW k \in 1..Len(su), NEW i \in (p + 1)..(n + 1)
               PROVE  su[k] # bx[i] /\ (su[k] < bx[i] \/ Excused(su, fa, k))
    OBVIOUS
  <2>1. i = n + 1 \/ (i \in (p + 1)..n /\ i \in 1..n)
    OBVIOUS
  <2>2. CASE i = n + 1
    BY <1>1, <1>2, <1>3, <2>2
  <2>3. CASE i \in (p + 1)..n /\ i \in 1..n
    <3>1. su[k] # b[i] /\ (su[k] < b[i] \/ Excused(su, fa, k))
      BY <1>2, <2>3 DEF Queue
    <3> QED BY <1>2, <2>3, <3>1
  <2> QED BY <2>1, <2>2, <2>3
<1>9. \A j, k \in 1..Len(su) : j < k => su[j] # su[k] /\ (su[j] < su[k] \/ Excused(su, fa, j))
  BY DEF Queue
<1>10. Queue(bx, p, w + 1, su, fa)
  BY <1>2, <1>4, <1>5, <1>6, <1>7, <1>8, <1>9 DEF Queue
<1> QED BY <1>10 DEF bx, x

\* A loop leaves: the chunks it has passed are taken out of the buffer.
LEMMA QueueDrop ==
  ASSUME NEW b \in Seq(Nat), NEW su, NEW p \in Nat, NEW w \in Nat, NEW fa, Queue(b, p, w, su, fa),
         NEW b2, NEW m \in Nat, m = Len(b) - p, Len(b2) = m, \A i \in 1..m : b2[i] = b[p + i]
  PROVE  Queue(b2, 0, w, su, fa)
<1>1. PICK n \in Nat : n = Len(b)
  BY SequenceFacts
<1>2. /\ p <= n /\ (\A i, j \in 1..n : i < j => b[i] < b[j]) /\ (\A i \in 1..n : b[i] \in 1..w)
  BY <1>1 DEF Queue
<1>3. \A i \in 1..m : p + i \in 1..n /\ p + i \in (p + 1)..n
  BY <1>1
<1>4. \A i, j \in 1..m : i < j => b2[i] < b2[j]
  <2> SUFFICES ASSUME NEW i \in 1..m, NEW j \in 1..m, i < j PROVE b2[i] < b2[j]
    OBVIOUS
  <2>1. p + i < p + j
    OBVIOUS
  <2>2. b[p + i] < b[p + j]
    BY <1>2, <1>3, <2>1
  <2> QED BY <2>2
<1>5. \A i \in 1..m : b2[i] \in 1..w
  BY <1>2, <1>3
<1>6. \A c \in 1..w : (\E k \in 1..Len(su) : su[k] = c) \/ (\E i \in 1..m : b2[i] = c)
  <2> SUFFICES ASSUME NEW c \in 1..w, NEW i \in (p + 1)..n, b[i] = c
               PROVE  \E k \in 1..m : b2[k] = c
    BY <1>1 DEF Queue
  <2>1. i - p \in 1..m /\ p + (i - p) = i
    BY <1>1
  <2>2. b2[i - p] = b[p + (i - p)]
    BY <2>1
  <2>3. b2[i - p] = c
    BY <2>1, <2>2
  <2> QED BY <2>1, <2>3
<1>7. \A k \in 1..Len(su), i \in 1..m : su[k] # b2[i] /\ (su[k] < b2[i] \/ Excused(su, fa, k))
  BY <1>1, <1>3 DEF Queue
<1>8. /\ \A k \in 1..Len(su) : su[k] \in 1..w
      /\ \A j, k \in 1..Len(su) : j < k => su[j] # su[k] /\ (su[j] < su[k] \/ Excused(su, fa, j))
  BY DEF Queue
<1>9. 0 <= m /\ 0 + 1 = 1
  OBVIOUS
<1> QED BY <1>4, <1>5, <1>6, <1>7, <1>8, <1>9 DEF Queue

LEMMA QueueFails ==
  ASSUME NEW b, NEW su, NEW p, NEW w, NEW fa, NEW x, Queue(b, p, w, su, fa)
  PROVE  Queue(b, p, w, su, fa \cup {x})
<1>1. \A k : Excused(su, fa, k) => Excused(su, fa \cup {x}, k)
  BY DEF Excused
<1> QED BY <1>1 DEF Queue

-----------------------------------------------------------------------------
\* The stack: entering and leaving a frame.
Below(st) == SubSeq(st, 1, Len(st) - 1)

LEMMA PushFacts ==
  ASSUME NEW st \in Seq(Frames), NEW f \in Frames
  PROVE  /\ Append(st, f) \in Seq(Frames) /\ Append(st, f) # <<>>
         /\ \A kind : Holds(Append(st, f), kind) <=> Holds(st, kind) \/ f.k = kind
<1>1. PICK n \in Nat : n = Len(st)
  BY SequenceFacts
<1>2. /\ Append(st, f) \in Seq(Frames) /\ Len(Append(st, f)) = n + 1 /\ Append(st, f)[n + 1] = f
      /\ \A i \in 1..n : Append(st, f)[i] = st[i]
  BY <1>1, SequenceFacts
<1>3. \A i : i \in 1..(n + 1) <=> i \in 1..n \/ i = n + 1
  OBVIOUS
<1>4. Append(st, f) # <<>>
  BY <1>2, SequenceFacts
<1>5. \A kind : Holds(Append(st, f), kind) <=> Holds(st, kind) \/ f.k = kind
  BY <1>1, <1>2, <1>3 DEF Holds
<1> QED BY <1>2, <1>4, <1>5

LEMMA BelowFacts ==
  ASSUME NEW st \in Seq(Frames), st # <<>>
  PROVE  \E n \in Nat :
           /\ Len(st) = n + 1 /\ st[n + 1] \in Frames /\ st[Len(st)] = st[n + 1]
           /\ Below(st) \in Seq(Frames) /\ Len(Below(st)) = n
           /\ \A i \in 1..n : Below(st)[i] = st[i]
           /\ \A kind : Holds(st, kind) <=> Holds(Below(st), kind) \/ st[n + 1].k = kind
<1>1. Len(st) \in Nat /\ Len(st) # 0 /\ \A i \in 1..Len(st) : st[i] \in Frames
  BY SequenceFacts
<1>2. PICK n \in Nat : n = Len(st) - 1 /\ Len(st) = n + 1
  <2>1. Len(st) - 1 \in Nat /\ Len(st) = (Len(st) - 1) + 1
    BY <1>1
  <2> QED BY <2>1
<1>3. \A i \in 1..n : st[i] \in Frames
  BY <1>1, <1>2
<1>4. /\ Below(st) \in Seq(Frames) /\ Len(Below(st)) = IF 1 <= n THEN n - 1 + 1 ELSE 0
      /\ \A i \in 1..(n - 1 + 1) : Below(st)[i] = st[1 + i - 1]
  BY <1>2, <1>3, SubSeqProperties DEF Below
<1>5. Len(Below(st)) = n /\ \A i \in 1..n : i \in 1..(n - 1 + 1) /\ 1 + i - 1 = i
  BY <1>4
<1>6. \A i \in 1..n : Below(st)[i] = st[i]
  BY <1>4, <1>5
<1>7. st[n + 1] \in Frames
  BY <1>1, <1>2
<1>8. \A i : i \in 1..(n + 1) <=> i \in 1..n \/ i = n + 1
  OBVIOUS
<1>9. \A kind : Holds(st, kind) <=> Holds(Below(st), kind) \/ st[n + 1].k = kind
  BY <1>2, <1>5, <1>6, <1>8 DEF Holds
<1> QED BY <1>2, <1>4, <1>5, <1>6, <1>7, <1>9

LEMMA LoopPush ==
  ASSUME NEW st \in Seq(Frames), NEW f \in Frames, f.k # "proc", NEW pr \in BOOLEAN, NEW p, Loop(st, pr, p)
  PROVE  Loop(Append(st, f), pr, p)
<1>1. PICK n \in Nat : n = Len(st)
  BY SequenceFacts
<1>2. /\ Len(Append(st, f)) = n + 1 /\ Append(st, f)[n + 1] = f
      /\ \A i \in 1..n : Append(st, f)[i] = st[i]
  BY <1>1, SequenceFacts
<1>3. \A i \in 1..(n + 1) : i \in 1..n \/ i = n + 1
  OBVIOUS
<1>4. Holds(Append(st, f), "proc") <=> Holds(st, "proc")
  BY PushFacts
<1> QED BY <1>1, <1>2, <1>3, <1>4 DEF Loop

\* onwrite's loop calls _write for the chunk at index c.
LEMMA LoopEnter ==
  ASSUME NEW st \in Seq(Frames), ~Holds(st, "proc"), NEW c \in Nat
  PROVE  Loop(Append(st, Frame("proc", c, FALSE)), TRUE, c + 1)
<1> DEFINE f == Frame("proc", c, FALSE)
<1>0. f \in Frames /\ f.k = "proc" /\ f.c = c
  BY DEF Frame, Frames, UserFrames, ImplFrames
<1> HIDE DEF f
<1>1. PICK n \in Nat : n = Len(st)
  BY SequenceFacts
<1>2. /\ Len(Append(st, f)) = n + 1 /\ Append(st, f)[n + 1] = f
      /\ \A i \in 1..n : Append(st, f)[i] = st[i]
  BY <1>0, <1>1, SequenceFacts
<1>3. \A i \in 1..(n + 1) : i \in 1..n \/ i = n + 1
  OBVIOUS
<1>4. Holds(Append(st, f), "proc")
  BY <1>0, PushFacts
<1>5. \A i \in 1..n : st[i].k # "proc"
  BY <1>1 DEF Holds
<1>6. Loop(Append(st, f), TRUE, c + 1)
  BY <1>0, <1>2, <1>3, <1>4, <1>5 DEF Loop
<1> QED BY <1>6 DEF f

LEMMA LoopPop ==
  ASSUME NEW st \in Seq(Frames), st # <<>>, NEW pr \in BOOLEAN, NEW p, Loop(st, pr, p)
  PROVE  /\ st[Len(st)].k # "proc" => Loop(Below(st), pr, p)
         /\ st[Len(st)].k = "proc" => pr /\ p = st[Len(st)].c + 1 /\ ~Holds(Below(st), "proc")
<1>1. PICK n \in Nat :
           /\ Len(st) = n + 1 /\ st[Len(st)] = st[n + 1]
           /\ Below(st) \in Seq(Frames) /\ Len(Below(st)) = n
           /\ \A i \in 1..n : Below(st)[i] = st[i]
           /\ \A kind : Holds(st, kind) <=> Holds(Below(st), kind) \/ st[n + 1].k = kind
  BY BelowFacts
<1>2. \A i \in 1..n : i \in 1..(n + 1) /\ i # n + 1
  OBVIOUS
<1>3. n + 1 \in 1..(n + 1)
  OBVIOUS
<1>4. CASE st[n + 1].k # "proc"
  BY <1>1, <1>2, <1>4 DEF Loop
<1>5. CASE st[n + 1].k = "proc"
  <2>1. Holds(st, "proc") /\ p = st[n + 1].c + 1
    BY <1>1, <1>3, <1>5 DEF Loop
  <2>2. ~Holds(Below(st), "proc")
    BY <1>1, <1>2, <1>3, <1>5 DEF Loop, Holds
  <2>3. pr
    <3>1. pr <=> Holds(st, "proc")
      BY DEF Loop
    <3> QED BY <2>1, <3>1
  <2> QED BY <1>1, <1>5, <2>1, <2>2, <2>3
<1> QED BY <1>1, <1>4, <1>5

LEMMA NestedPush ==
  ASSUME NEW st \in Seq(Frames), NEW f \in Frames, Nested(st), f.k = "cb" \/ ~Holds(st, "proc")
  PROVE  Nested(Append(st, f))
<1>1. PICK n \in Nat : n = Len(st)
  BY SequenceFacts
<1>2. /\ Len(Append(st, f)) = n + 1 /\ Append(st, f)[n + 1] = f
      /\ \A i \in 1..n : Append(st, f)[i] = st[i]
  BY <1>1, SequenceFacts
<1> SUFFICES ASSUME NEW j \in 1..(n + 1), NEW k \in 1..(n + 1), j < k, Append(st, f)[j].k = "proc"
             PROVE  Append(st, f)[k].k = "cb"
  BY <1>2 DEF Nested
<1>3. j \in 1..n /\ (k \in 1..n \/ k = n + 1)
  OBVIOUS
<1>4. st[j].k = "proc" /\ Holds(st, "proc")
  BY <1>1, <1>2, <1>3 DEF Holds
<1>5. CASE k \in 1..n
  BY <1>1, <1>2, <1>3, <1>4, <1>5 DEF Nested
<1>6. CASE k = n + 1
  BY <1>2, <1>4, <1>6
<1> QED BY <1>3, <1>5, <1>6

LEMMA NestedPop ==
  ASSUME NEW st \in Seq(Frames), st # <<>>, Nested(st)
  PROVE  /\ Nested(Below(st)) /\ (Holds(Below(st), "proc") => st[Len(st)].k = "cb")
         /\ Holds(st, "proc") => Busy(st)
<1>1. PICK n \in Nat :
           /\ Len(st) = n + 1 /\ st[Len(st)] = st[n + 1]
           /\ Below(st) \in Seq(Frames) /\ Len(Below(st)) = n
           /\ \A i \in 1..n : Below(st)[i] = st[i]
           /\ \A kind : Holds(st, kind) <=> Holds(Below(st), kind) \/ st[n + 1].k = kind
  BY BelowFacts
<1>2. n + 1 \in 1..(n + 1) /\ \A i \in 1..n : i \in 1..(n + 1) /\ i < n + 1
  OBVIOUS
<1>3. Nested(Below(st))
  BY <1>1, <1>2 DEF Nested
<1>4. Holds(Below(st), "proc") => st[Len(st)].k = "cb"
  BY <1>1, <1>2 DEF Nested, Holds
<1>5. Holds(st, "proc") => Busy(st)
  BY <1>1, <1>4 DEF Busy
<1> QED BY <1>3, <1>4, <1>5

LEMMA CbPush ==
  ASSUME NEW st \in Seq(Frames), NEW f \in Frames, NEW b, NEW w \in BOOLEAN, CbAlone(st, b, w),
         b = <<>> \/ ~Holds(st, "cb") \/ f.k = "endFinish", f.k = "cb" => ~w
  PROVE  CbAlone(Append(st, f), b, w)
<1>1. PICK n \in Nat : n = Len(st)
  BY SequenceFacts
<1>2. /\ Len(Append(st, f)) = n + 1 /\ Append(st, f)[n + 1] = f
      /\ \A i \in 1..n : Append(st, f)[i] = st[i]
  BY <1>1, SequenceFacts
<1> SUFFICES ASSUME NEW k \in 1..(n + 1), Append(st, f)[k].k = "cb", b # <<>>
             PROVE  ~w /\ \A j \in (k + 1)..(n + 1) : Append(st, f)[j].k = "endFinish"
  BY <1>2 DEF CbAlone
<1>3. CASE k = n + 1
  BY <1>2, <1>3
<1>4. CASE k \in 1..n
  <2>1. st[k].k = "cb" /\ Holds(st, "cb")
    BY <1>1, <1>2, <1>4 DEF Holds
  <2>2. f.k = "endFinish"
    BY <2>1
  <2>3. ~w /\ \A j \in (k + 1)..n : st[j].k = "endFinish"
    BY <1>1, <1>4, <2>1 DEF CbAlone
  <2>4. \A j \in (k + 1)..(n + 1) : j = n + 1 \/ (j \in (k + 1)..n /\ j \in 1..n)
    BY <1>4
  <2> QED BY <1>2, <2>2, <2>3, <2>4
<1>5. k = n + 1 \/ k \in 1..n
  OBVIOUS
<1> QED BY <1>3, <1>4, <1>5

LEMMA CbPop ==
  ASSUME NEW st \in Seq(Frames), st # <<>>, NEW b, NEW w \in BOOLEAN, CbAlone(st, b, w)
  PROVE  /\ CbAlone(Below(st), b, w)
         /\ b # <<>> /\ st[Len(st)].k # "endFinish" => ~Holds(Below(st), "cb")
         /\ b # <<>> /\ st[Len(st)].k = "cb" => ~w
<1>1. PICK n \in Nat :
           /\ Len(st) = n + 1 /\ st[Len(st)] = st[n + 1]
           /\ Below(st) \in Seq(Frames) /\ Len(Below(st)) = n
           /\ \A i \in 1..n : Below(st)[i] = st[i]
           /\ \A kind : Holds(st, kind) <=> Holds(Below(st), kind) \/ st[n + 1].k = kind
  BY BelowFacts
<1>2. \A k \in 1..n : k \in 1..(n + 1) /\ n + 1 \in (k + 1)..(n + 1)
                      /\ \A j \in (k + 1)..n : j \in (k + 1)..(n + 1) /\ j \in 1..n
  OBVIOUS
<1>3. CbAlone(Below(st), b, w)
  <2> SUFFICES ASSUME NEW k \in 1..n, st[k].k = "cb", b # <<>>
               PROVE  ~w /\ \A j \in (k + 1)..n : Below(st)[j].k = "endFinish"
    BY <1>1 DEF CbAlone
  <2>1. ~w /\ \A j \in (k + 1)..(n + 1) : st[j].k = "endFinish"
    BY <1>1, <1>2 DEF CbAlone
  <2> QED BY <1>1, <1>2, <2>1
<1>4. ASSUME b # <<>>, st[n + 1].k # "endFinish" PROVE ~Holds(Below(st), "cb")
  <2> SUFFICES ASSUME NEW k \in 1..n, st[k].k = "cb" PROVE FALSE
    BY <1>1 DEF Holds
  <2> QED BY <1>1, <1>2, <1>4 DEF CbAlone
<1>5. ASSUME b # <<>>, st[n + 1].k = "cb" PROVE ~w
  <2>1. n + 1 \in 1..(n + 1)
    OBVIOUS
  <2> QED BY <1>1, <1>5, <2>1 DEF CbAlone
<1> QED BY <1>1, <1>3, <1>4, <1>5

-----------------------------------------------------------------------------
\* The partial sums of lengths, and how write() and onwrite change them.
LEMMA SumsGrow ==
  ASSUME NEW n \in Nat, NEW ch, \A c \in 1..n : ch[c].len \in Nat, NEW dn, NEW g, Sums(g, n, ch, dn)
  PROVE  \A i, j \in 0..n : i <= j => g[i] <= g[j]
<1>0. /\ g \in [0..n -> Int]
      /\ \A c \in 1..n : g[c] = g[c - 1] + (IF c \in dn THEN 0 ELSE ch[c].len)
  BY DEF Sums
<1> SUFFICES ASSUME NEW i \in 0..n, NEW j \in 0..n, i <= j, ~(g[i] <= g[j]) PROVE FALSE
  OBVIOUS
<1> DEFINE T == {k \in 0..n : i <= k /\ ~(g[i] <= g[k])}
<1>1. T \subseteq Nat /\ T # {}
  OBVIOUS
<1>2. PICK m \in T : \A k \in T : m <= k
  BY <1>1, LeastElement
<1>3. m \in 0..n /\ i <= m /\ ~(g[i] <= g[m])
  BY <1>2
<1>4. m # i
  BY <1>0, <1>3
<1>5. m \in 1..n /\ m - 1 \in 0..n /\ i <= m - 1
  BY <1>3, <1>4
<1>6. g[i] <= g[m - 1]
  <2>1. ~(m <= m - 1)
    BY <1>5
  <2> QED BY <1>2, <1>5, <2>1
<1>7. ch[m].len \in Nat /\ g[i] \in Int /\ g[m] \in Int /\ g[m - 1] \in Int
  BY <1>0, <1>5
<1>8. g[m] = g[m - 1] + (IF m \in dn THEN 0 ELSE ch[m].len)
  BY <1>0, <1>5
<1>9. g[m - 1] <= g[m]
  BY <1>7, <1>8
<1> QED BY <1>3, <1>6, <1>7, <1>9

\* A chunk not written is part of the length; without any, the length is 0.
LEMMA SumsBound ==
  ASSUME NEW n \in Nat, NEW ch, \A c \in 1..n : ch[c].len \in Nat, NEW dn, NEW g, Sums(g, n, ch, dn)
  PROVE  /\ g[n] \in Nat
         /\ \A c \in 1..n : c \notin dn => g[n] >= ch[c].len
         /\ 1..n \subseteq dn => g[n] = 0
<1>1. /\ g \in [0..n -> Int] /\ g[0] = 0
      /\ \A c \in 1..n : g[c] = g[c - 1] + (IF c \in dn THEN 0 ELSE ch[c].len)
  BY DEF Sums
<1>2. \A i, j \in 0..n : i <= j => g[i] <= g[j]
  BY SumsGrow
<1>3. 0 \in 0..n /\ n \in 0..n /\ 0 <= n
  OBVIOUS
<1>4. g[n] \in Nat
  <2>1. g[0] <= g[n] /\ g[n] \in Int
    BY <1>1, <1>2, <1>3
  <2> QED BY <1>1, <2>1
<1>5. ASSUME NEW c \in 1..n, c \notin dn PROVE g[n] >= ch[c].len
  <2>1. c \in 0..n /\ c - 1 \in 0..n /\ 0 <= c - 1 /\ c <= n
    OBVIOUS
  <2>2. g[0] <= g[c - 1] /\ g[c] <= g[n]
    BY <1>2, <1>3, <2>1
  <2>3. g[c] = g[c - 1] + ch[c].len
    BY <1>1, <1>5
  <2>4. ch[c].len \in Nat /\ g[c] \in Int /\ g[c - 1] \in Int /\ g[n] \in Int
    BY <1>1, <1>3, <2>1
  <2> QED BY <1>1, <2>2, <2>3, <2>4
<1>6. ASSUME 1..n \subseteq dn, g[n] # 0 PROVE FALSE
  <2> DEFINE T == {k \in 0..n : g[k] # 0}
  <2>1. T \subseteq Nat /\ T # {}
    BY <1>3, <1>6
  <2>2. PICK m \in T : \A k \in T : m <= k
    BY <2>1, LeastElement
  <2>3. m \in 0..n /\ g[m] # 0
    BY <2>2
  <2>4. m \in 1..n /\ m - 1 \in 0..n /\ ~(m <= m - 1)
    BY <1>1, <2>3
  <2>5. g[m - 1] = 0
    BY <2>2, <2>4
  <2>6. g[m] = g[m - 1] + 0
    BY <1>1, <1>6, <2>4
  <2> QED BY <2>3, <2>5, <2>6
<1> QED BY <1>4, <1>5, <1>6

\* write() adds the length of its chunk.
LEMMA SumsAppend ==
  ASSUME NEW ch \in Seq(Chunk), NEW d \in Chunk, NEW dn, Len(ch) + 1 \notin dn,
         NEW length, Lengths(length, ch, dn)
  PROVE  Lengths(length + d.len, Append(ch, d), dn)
<1>1. PICK n \in Nat : n = Len(ch)
  BY SequenceFacts
<1>2. PICK g : Sums(g, n, ch, dn) /\ g[n] = length
  BY <1>1 DEF Lengths
<1> DEFINE ch2 == Append(ch, d)
<1>a. Len(ch2) = n + 1 /\ ch2[n + 1] = d /\ \A c \in 1..n : ch2[c] = ch[c]
  BY <1>1, SequenceFacts
<1> HIDE DEF ch2
<1>3. /\ g \in [0..n -> Int] /\ g[0] = 0
      /\ \A c \in 1..n : g[c] = g[c - 1] + (IF c \in dn THEN 0 ELSE ch[c].len)
  BY <1>2 DEF Sums
<1> DEFINE h == [c \in 0..(n + 1) |-> IF c = n + 1 THEN g[n] + d.len ELSE g[c]]
<1>4. d.len \in Nat /\ g[n] \in Int
  BY <1>3, SizeAssumption DEF Chunk
<1>5. h \in [0..(n + 1) -> Int]
  <2> SUFFICES ASSUME NEW c \in 0..(n + 1) PROVE (IF c = n + 1 THEN g[n] + d.len ELSE g[c]) \in Int
    OBVIOUS
  <2>1. c # n + 1 => c \in 0..n
    OBVIOUS
  <2> QED BY <1>3, <1>4, <2>1
<1>6. h[n + 1] = g[n] + d.len /\ \A c \in 0..n : h[c] = g[c]
  OBVIOUS
<1> HIDE DEF h
<1>7. h[0] = 0 /\ \A c \in 1..(n + 1) : h[c] = h[c - 1] + (IF c \in dn THEN 0 ELSE ch2[c].len)
  <2>1. h[0] = 0
    BY <1>3, <1>6
  <2> SUFFICES ASSUME NEW c \in 1..(n + 1)
               PROVE  h[c] = h[c - 1] + (IF c \in dn THEN 0 ELSE ch2[c].len)
    BY <2>1
  <2>2. CASE c = n + 1
    <3>1. c \notin dn /\ c - 1 = n /\ n \in 0..n
      BY <1>1, <2>2
    <3> QED BY <1>a, <1>6, <2>2, <3>1
  <2>3. CASE c \in 1..n
    <3>1. c \in 0..n /\ c - 1 \in 0..n
      BY <2>3
    <3> QED BY <1>a, <1>3, <1>6, <2>3, <3>1
  <2> QED BY <2>2, <2>3
<1>8. Sums(h, n + 1, ch2, dn)
  BY <1>5, <1>7 DEF Sums
<1> QED BY <1>a, <1>2, <1>6, <1>8 DEF Lengths, ch2

\* onwrite gives back the length of its chunk.
LEMMA SumsDone ==
  ASSUME NEW ch \in Seq(Chunk), NEW dn, NEW c \in 1..Len(ch), c \notin dn,
         NEW length, Lengths(length, ch, dn)
  PROVE  Lengths(length - ch[c].len, ch, dn \cup {c}) /\ length - ch[c].len \in Nat
<1>0. PICK n \in Nat : n = Len(ch) /\ c \in 1..n
  BY SequenceFacts
<1>1. PICK g : Sums(g, n, ch, dn) /\ g[n] = length
  BY <1>0 DEF Lengths
<1>a. \A i \in 1..n : ch[i].len \in Nat
  <2>1. \A i \in 1..n : ch[i] \in Chunk
    BY <1>0, SequenceFacts
  <2>2. \A x \in Chunk : x.len \in Nat
    BY SizeAssumption DEF Chunk
  <2> QED BY <2>1, <2>2
<1>b. g[n] \in Nat /\ g[n] >= ch[c].len
  BY <1>0, <1>1, <1>a, SumsBound
<1>2. /\ g \in [0..n -> Int] /\ g[0] = 0
      /\ \A i \in 1..n : g[i] = g[i - 1] + (IF i \in dn THEN 0 ELSE ch[i].len)
  BY <1>1 DEF Sums
<1> DEFINE h == [i \in 0..n |-> IF i < c THEN g[i] ELSE g[i] - ch[c].len]
<1>3. (\A i \in 1..n : ch[i].len \in Int) /\ ch[c].len \in Nat
  BY <1>0, <1>a
<1>4. h \in [0..n -> Int]
  BY <1>2, <1>3
<1>5. \A i \in 0..n : h[i] = IF i < c THEN g[i] ELSE g[i] - ch[c].len
  OBVIOUS
<1> HIDE DEF h
<1>6. h[0] = 0 /\ h[n] = g[n] - ch[c].len
  <2>1. 0 \in 0..n /\ n \in 0..n /\ 0 < c /\ ~(n < c)
    BY <1>0
  <2> QED BY <1>2, <1>5, <2>1
<1>7. \A i \in 1..n : h[i] = h[i - 1] + (IF i \in dn \cup {c} THEN 0 ELSE ch[i].len)
  <2> SUFFICES ASSUME NEW i \in 1..n
               PROVE  h[i] = h[i - 1] + (IF i \in dn \cup {c} THEN 0 ELSE ch[i].len)
    OBVIOUS
  <2>a. i \in 0..n /\ i - 1 \in 0..n
    OBVIOUS
  <2>b. g[i] \in Int /\ g[i - 1] \in Int
    BY <1>2, <2>a
  <2>c. ch[i].len \in Int /\ ch[c].len \in Int
    BY <1>0, <1>3
  <2>0. i \in 0..n /\ i - 1 \in 0..n /\ g[i] \in Int /\ g[i - 1] \in Int /\ ch[i].len \in Int /\ ch[c].len \in Int
    BY <2>a, <2>b, <2>c
  <2>1. CASE i < c
    <3>1. h[i] = g[i] /\ h[i - 1] = g[i - 1] /\ i # c
      BY <1>0, <1>5, <2>0, <2>1
    <3>2. i \in dn \cup {c} <=> i \in dn
      BY <3>1
    <3> QED BY <1>2, <3>1, <3>2
  <2>2. CASE i = c
    <3>1. h[i] = g[i] - ch[c].len /\ h[i - 1] = g[i - 1]
      BY <1>0, <1>5, <2>0, <2>2
    <3>2. g[i] = g[i - 1] + ch[c].len
      BY <1>2, <2>2
    <3> QED BY <2>0, <2>2, <3>1, <3>2
  <2>3. CASE i > c
    <3>1. h[i] = g[i] - ch[c].len /\ h[i - 1] = g[i - 1] - ch[c].len /\ i # c
      BY <1>0, <1>5, <2>0, <2>3
    <3>2. CASE i \in dn
      BY <1>2, <2>0, <3>1, <3>2
    <3>3. CASE i \notin dn
      <4>1. g[i] = g[i - 1] + ch[i].len
        BY <1>2, <3>3
      <4> QED BY <2>0, <3>1, <3>3, <4>1
    <3> QED BY <3>2, <3>3
  <2> QED BY <2>1, <2>2, <2>3
<1>8. Sums(h, n, ch, dn \cup {c})
  BY <1>4, <1>6, <1>7 DEF Sums
<1>9. length - ch[c].len \in Nat
  BY <1>1, <1>3, <1>b
<1> QED BY <1>0, <1>1, <1>6, <1>8, <1>9 DEF Lengths

\* The partial sums are the ones Unwritten is defined by.
LEMMA SumsAreUnwritten ==
  ASSUME NEW n \in Nat, n = Len(chunk), NEW g, Sums(g, n, chunk, done)
  PROVE  Unwritten = g[n]
<1> DEFINE F(f) == [c \in 0..Len(chunk) |-> IF c = 0 THEN 0 ELSE f[c - 1] + (IF c \in done THEN 0 ELSE chunk[c].len)]
           sum == CHOOSE f : f = F(f)
<1>1. /\ g \in [0..n -> Int] /\ g[0] = 0
      /\ \A c \in 1..n : g[c] = g[c - 1] + (IF c \in done THEN 0 ELSE chunk[c].len)
  BY DEF Sums
<1>2. g = F(g)
  <2>1. \A c \in 0..n : c = 0 \/ c \in 1..n
    OBVIOUS
  <2>2. g = [c \in 0..n |-> IF c = 0 THEN 0 ELSE g[c - 1] + (IF c \in done THEN 0 ELSE chunk[c].len)]
    BY <1>1, <2>1
  <2> QED BY <2>2
<1>3. sum = F(sum)
  BY <1>2
<1>4. Unwritten = sum[n]
  BY DEF Unwritten
<1>5. sum[0] = 0 /\ \A c \in 1..n : sum[c] = sum[c - 1] + (IF c \in done THEN 0 ELSE chunk[c].len)
  <2>1. \A c \in 0..n : sum[c] = F(sum)[c]
    BY <1>3
  <2> HIDE DEF sum
  <2>2. \A c \in 0..n : F(sum)[c] = IF c = 0 THEN 0 ELSE sum[c - 1] + (IF c \in done THEN 0 ELSE chunk[c].len)
    OBVIOUS
  <2> HIDE DEF F
  <2>3. 0 \in 0..n /\ \A c \in 1..n : c \in 0..n /\ c # 0
    OBVIOUS
  <2> QED BY <2>1, <2>2, <2>3
<1> HIDE DEF sum
<1>7. ASSUME sum[n] # g[n] PROVE FALSE
  <2> DEFINE T == {k \in 0..n : sum[k] # g[k]}
  <2>1. T \subseteq Nat /\ T # {}
    BY <1>7
  <2>2. PICK m \in T : \A k \in T : m <= k
    BY <2>1, LeastElement
  <2>3. m \in 0..n /\ sum[m] # g[m]
    BY <2>2
  <2>4. m \in 1..n /\ m - 1 \in 0..n /\ ~(m <= m - 1)
    BY <1>1, <1>5, <2>3
  <2>5. sum[m - 1] = g[m - 1]
    BY <2>2, <2>4
  <2> QED BY <1>1, <1>5, <2>3, <2>4, <2>5
<1> QED BY <1>4, <1>7

-----------------------------------------------------------------------------
\* What Sound says of the numbers of chunks.
LEMMA Counts ==
  ASSUME NEW s, NEW b, NEW ch, NEW fl, NEW st, NEW su, NEW dn, NEW fa, Sound(s, b, ch, fl, st, su, dn, fa)
  PROVE  /\ Len(ch) \in Nat /\ Len(su) \in Nat /\ Len(b) \in Nat
         /\ \A c \in 1..Len(ch) : ch[c] \in Chunk /\ ch[c].len \in Sizes /\ ch[c].len \in Nat /\ ch[c].cb \in BOOLEAN
         /\ dn \subseteq Given(su) /\ fa \subseteq Given(su) /\ fl \subseteq Given(su)
         /\ dn \subseteq 1..Len(ch) /\ fa \subseteq 1..Len(ch) /\ fl \subseteq 1..Len(ch)
<1>1. b \in Seq(Nat) /\ ch \in Seq(Chunk) /\ su \in Seq(Nat)
  BY DEF Sound
<1>2. Len(ch) \in Nat /\ Len(su) \in Nat /\ Len(b) \in Nat
  BY <1>1, SequenceFacts
<1>3. Given(su) \subseteq 1..Len(ch)
  <2>1. \A k \in 1..Len(su) : su[k] \in 1..Len(ch)
    BY DEF Sound, Placed, Queue
  <2> QED BY <2>1 DEF Given
<1>4. \A c \in 1..Len(ch) : ch[c] \in Chunk
  BY <1>1, SequenceFacts
<1>5. \A x \in Chunk : x.len \in Sizes /\ x.len \in Nat /\ x.cb \in BOOLEAN
  BY SizeAssumption DEF Chunk
<1>6. dn \subseteq Given(su) /\ fa \subseteq Given(su) /\ fl \subseteq Given(su)
  BY DEF Sound, Ledger
<1>7. dn \subseteq 1..Len(ch) /\ fa \subseteq 1..Len(ch) /\ fl \subseteq 1..Len(ch)
  BY <1>3, <1>6
<1> QED BY <1>2, <1>4, <1>5, <1>6, <1>7

\* The length is 0 once every chunk is written, and only then if none is empty.
LEMMA LengthFacts ==
  ASSUME NEW s, NEW b, NEW ch, NEW fl, NEW st, NEW su, NEW dn, NEW fa, Sound(s, b, ch, fl, st, su, dn, fa)
  PROVE  /\ 1..Len(ch) \subseteq dn => s.length = 0
         /\ 0 \notin Sizes /\ s.length = 0 => 1..Len(ch) \subseteq dn
<1>1. PICK n \in Nat : n = Len(ch)
  BY Counts
<1>2. \A c \in 1..n : ch[c].len \in Nat /\ ch[c].len \in Sizes
  BY <1>1, Counts
<1>3. PICK g : Sums(g, n, ch, dn) /\ g[n] = s.length
  BY <1>1 DEF Sound, Lengths
<1>4. /\ g[n] \in Nat
      /\ \A c \in 1..n : c \notin dn => g[n] >= ch[c].len
      /\ 1..n \subseteq dn => g[n] = 0
  BY <1>2, <1>3, SumsBound
<1>5. ASSUME 0 \notin Sizes, s.length = 0, NEW c \in 1..n PROVE c \in dn
  <2>1. ch[c].len \in Nat /\ ch[c].len # 0
    BY <1>2, <1>5
  <2> QED BY <1>3, <1>4, <1>5, <2>1
<1> QED BY <1>1, <1>3, <1>4, <1>5

LEMMA PromisedAppend ==
  ASSUME NEW tk \in Seq(Ticks), NEW x \in Ticks
  PROVE  /\ Append(tk, x) \in Seq(Ticks)
         /\ Promised(tk) \/ x = "drain" => Promised(Append(tk, x))
<1>1. PICK n \in Nat : n = Len(tk)
  BY SequenceFacts
<1>2. /\ Append(tk, x) \in Seq(Ticks) /\ Len(Append(tk, x)) = n + 1 /\ Append(tk, x)[n + 1] = x
      /\ \A i \in 1..n : Append(tk, x)[i] = tk[i]
  BY <1>1, SequenceFacts
<1>3. n + 1 \in 1..(n + 1) /\ \A i \in 1..n : i \in 1..(n + 1)
  OBVIOUS
<1> QED BY <1>1, <1>2, <1>3 DEF Promised

-----------------------------------------------------------------------------
\* The loop of onwrite, entered with c chunks of the buffer passed: it gives the next one
\* to _write, or leaves with the buffer empty.
LEMMA ProcessKeeps ==
  ASSUME NEW s \in States, s.bufferProcessing, ~s.writing, s.finishing => s.ending \/ s.ended,
         NEW fl, fl = {}, NEW c \in Nat, NEW below \in Seq(Frames), ~Holds(below, "proc"), ~Holds(below, "cb"),
         buffer \in Seq(Nat), chunk \in Seq(Chunk), sunk \in Seq(Nat), NEW dn, NEW fa,
         Queue(buffer, c, Len(chunk), sunk, fa), Ledger(fl, sunk, dn, fa),
         Lengths(s.length, chunk, dn), Process(s, fl, c, below)
  PROVE  /\ Sound(state', buffer', chunk, inflight', stack', sunk', dn, fa)
         /\ state'.finishing = s.finishing /\ state'.needDrain = s.needDrain
<1>1. PICK n \in Nat, w \in Nat : n = Len(buffer) /\ w = Len(chunk)
  BY SequenceFacts
<1>2. c <= n /\ Queue(buffer, c, w, sunk, fa)
  BY <1>1 DEF Queue
<1>3. CASE c < n
  <2> DEFINE next == buffer[c + 1]
  <2>1. /\ next \in Nat /\ next \in 1..w /\ next \notin Given(sunk)
        /\ Queue(buffer, c + 1, w, Append(sunk, next), fa)
    BY <1>1, <1>2, <1>3, QueueNext
  <2>2. chunk[next] \in Chunk
    BY <1>1, <2>1, SequenceFacts
  <2>3. chunk[next].len \in Nat /\ chunk[next].cb \in BOOLEAN
    BY <2>2, SizeAssumption DEF Chunk
  <2>4. /\ state' = Writing(s, next, chunk[next]) /\ stack' = Append(below, Frame("proc", c, FALSE))
        /\ inflight' = fl \cup {next} /\ sunk' = Append(sunk, next) /\ buffer' = buffer
    BY <1>1, <1>3, <2>1 DEF Process
  <2> HIDE DEF next
  <2>5. writecb(next, chunk[next]) \in Nat
    BY <2>1 DEF writecb, NoChunk
  <2>6. /\ state' \in States /\ state'.bufferProcessing /\ state'.writing /\ state'.length = s.length
        /\ state'.finishing = s.finishing /\ state'.needDrain = s.needDrain
        /\ state'.ending = s.ending /\ state'.ended = s.ended
        /\ state'.writelen = chunk[next].len /\ state'.writecb = writecb(next, chunk[next])
    BY <2>3, <2>4, <2>5 DEF Writing, States
  <2>7. /\ sunk' \in Seq(Nat) /\ Len(sunk') >= 1 /\ Newest(sunk') = next
        /\ Given(sunk') = Given(sunk) \cup {next}
    <3>1. PICK g \in Nat : g = Len(sunk)
      BY SequenceFacts
    <3> QED BY <2>1, <2>4, <3>1, AppendFacts
  <2>9. stack' \in Seq(Frames) /\ Loop(stack', TRUE, c + 1) /\ ~Holds(stack', "cb")
    <3>1. Frame("proc", c, FALSE) \in Frames /\ Frame("proc", c, FALSE).k = "proc"
      BY DEF Frame, Frames, UserFrames, ImplFrames
    <3> QED BY <2>4, <3>1, PushFacts, LoopEnter
  <2>11. Placed(state'.bufferProcessing, stack', buffer', Len(chunk), sunk', fa)
    <3>1. state'.bufferProcessing = TRUE
      BY <2>6 DEF States
    <3>2. c + 1 \in Nat
      OBVIOUS
    <3>3. Loop(stack', state'.bufferProcessing, c + 1)
      BY <2>9, <3>1, Zenon
    <3>4. Queue(buffer', c + 1, Len(chunk), sunk', fa)
      BY <1>1, <2>1, <2>4
    <3> QED BY <3>2, <3>3, <3>4, Zenon DEF Placed
  <2>12. CbAlone(stack', buffer', state'.writing)
    BY <2>9 DEF CbAlone, Holds
  <2>13. InFlight(state', inflight', chunk, sunk')
    <3>1. inflight' = {next}
      BY <2>4
    <3> QED BY <2>6, <2>7, <3>1 DEF InFlight
  <2>14. Ledger(inflight', sunk', dn, fa)
    <3>1. dn \cup fa = Given(sunk)
      BY DEF Ledger
    <3> QED BY <2>1, <2>4, <2>7, <3>1 DEF Ledger
  <2> QED BY <2>4, <2>6, <2>7, <2>9, <2>11, <2>12, <2>13, <2>14 DEF Sound
<1>4. CASE ~(c < n)
  <2>1. 0 = n - c
    BY <1>2, <1>4
  <2>2. /\ state' = [s EXCEPT !.bufferProcessing = FALSE] /\ stack' = below /\ buffer' = <<>> /\ inflight' = fl
        /\ sunk' = sunk
    BY <1>1, <1>4 DEF Process
  <2>3. /\ state' \in States /\ state'.bufferProcessing = FALSE /\ ~state'.writing /\ state'.length = s.length
        /\ state'.finishing = s.finishing /\ state'.needDrain = s.needDrain
        /\ state'.ending = s.ending /\ state'.ended = s.ended
    BY <2>2 DEF States
  <2>4. buffer' \in Seq(Nat) /\ Len(buffer') = 0
    BY <2>2
  <2>5. Loop(stack', FALSE, 0)
    BY <2>2 DEF Loop, Holds
  <2>6. Queue(buffer', 0, Len(chunk), sunk', fa)
    <3>1. PICK m \in Nat : m = Len(buffer) - c /\ m = 0
      BY <1>1, <2>1
    <3>2. Len(buffer') = m /\ \A i \in 1..m : buffer'[i] = buffer[c + i]
      BY <2>4, <3>1
    <3>3. Queue(buffer', 0, w, sunk, fa)
      BY <1>2, <3>1, <3>2, QueueDrop
    <3> QED BY <1>1, <2>2, <3>3
  <2>7. Placed(state'.bufferProcessing, stack', buffer', Len(chunk), sunk', fa)
    BY <2>3, <2>5, <2>6 DEF Placed
  <2>8. CbAlone(stack', buffer', state'.writing)
    BY <2>2 DEF CbAlone
  <2>9. InFlight(state', inflight', chunk, sunk')
    BY <2>2, <2>3 DEF InFlight
  <2> QED BY <2>2, <2>3, <2>4, <2>7, <2>8, <2>9 DEF Sound
<1> QED BY <1>3, <1>4
\* The rest of onwrite, after the user's callback.
LEMMA AfterCbKeeps ==
  ASSUME NEW s, NEW fl, NEW tk \in Seq(Ticks), NEW below, NEW dn, NEW fa,
         Sound(s, buffer, chunk, fl, below, sunk, dn, fa),
         s.writing => buffer = <<>>, buffer # <<>> => ~Holds(below, "cb"), AfterCb(s, fl, tk, below)
  PROVE  /\ Sound(state', buffer', chunk, inflight', stack', sunk', dn, fa)
         /\ ticks' \in Seq(Ticks) /\ Drain(state', chunk, dn, ticks', stack')
         /\ state'.finishing => s.finishing \/ s.length = 0
         /\ s.finishing => state'.finishing
<1>0. /\ s \in States /\ s.length \in Nat /\ below \in Seq(Frames)
      /\ s.finishing \in BOOLEAN /\ s.needDrain \in BOOLEAN /\ s.bufferProcessing \in BOOLEAN
  BY DEF Sound, States
<1>1. CASE Finishes(s)
  <2>1. /\ state' = [s EXCEPT !.finishing = TRUE] /\ stack' = Append(below, Frame("finish", 0, FALSE))
        /\ ticks' = tk /\ inflight' = fl /\ buffer' = buffer /\ sunk' = sunk
    BY <1>1 DEF AfterCb
  <2>2. s.ended \/ s.ending
    BY <1>1 DEF Finishes
  <2>3. /\ state' \in States /\ state'.bufferProcessing = s.bufferProcessing /\ state'.writing = s.writing
        /\ state'.length = s.length /\ state'.finishing /\ (state'.ended \/ state'.ending)
        /\ state'.writelen = s.writelen /\ state'.writecb = s.writecb
    BY <1>0, <2>1, <2>2 DEF States
  <2>4. Frame("finish", 0, FALSE) \in Frames /\ Frame("finish", 0, FALSE).k = "finish"
    BY DEF Frame, Frames, UserFrames, ImplFrames
  <2>5. stack' \in Seq(Frames)
    BY <1>0, <2>1, <2>4, PushFacts
  <2>6. Placed(state'.bufferProcessing, stack', buffer', Len(chunk), sunk', fa)
    <3>1. PICK p \in Nat : Loop(below, s.bufferProcessing, p) /\ Queue(buffer, p, Len(chunk), sunk, fa)
      BY DEF Sound, Placed
    <3>2. Loop(stack', s.bufferProcessing, p)
      BY <1>0, <2>1, <2>4, <3>1, LoopPush
    <3> QED BY <2>1, <2>3, <3>1, <3>2, Zenon DEF Placed
  <2>7. CbAlone(stack', buffer', state'.writing)
    <3>1. CbAlone(below, buffer, s.writing) /\ s.writing \in BOOLEAN
      BY <1>0 DEF Sound, States
    <3>2. CbAlone(stack', buffer, s.writing)
      BY <1>0, <2>1, <2>4, <3>1, CbPush
    <3> QED BY <2>1, <2>3, <3>2, Zenon
  <2>8. InFlight(state', inflight', chunk, sunk')
    BY <2>1, <2>3 DEF Sound, InFlight
  <2>9. Sound(state', buffer', chunk, inflight', stack', sunk', dn, fa)
    BY <2>1, <2>3, <2>5, <2>6, <2>7, <2>8 DEF Sound
  <2> QED BY <1>1, <2>1, <2>3, <2>9 DEF Drain, Finishes
<1>2. CASE ~Finishes(s)
  <2>1. /\ ticks' = IF Drains(s) THEN Append(tk, "drain") ELSE tk
        /\ IF MayProcess(s)
           THEN Process([s EXCEPT !.bufferProcessing = TRUE], fl, 0, below)
           ELSE /\ state' = s /\ stack' = below /\ inflight' = fl
                /\ buffer' = buffer /\ sunk' = sunk
    BY <1>2 DEF AfterCb
  <2>2. ticks' \in Seq(Ticks) /\ (Promised(tk) \/ Drains(s) => Promised(ticks'))
    <3>1. "drain" \in Ticks
      BY DEF Ticks
    <3>2. CASE Drains(s)
      BY <2>1, <3>1, <3>2, PromisedAppend
    <3>3. CASE ~Drains(s)
      BY <2>1, <3>3
    <3> QED BY <3>2, <3>3
  <2>3. s.needDrain /\ 1..Len(chunk) \subseteq dn => Promised(ticks')
    <3>1. ASSUME s.needDrain, 1..Len(chunk) \subseteq dn PROVE Drains(s)
      <4>1. s.length = 0
        BY <3>1, LengthFacts
      <4> QED BY <3>1, <4>1, MarkAssumption DEF Drains
    <3> QED BY <2>2, <3>1
  <2>4. CASE MayProcess(s)
    <3> DEFINE t == [s EXCEPT !.bufferProcessing = TRUE]
    <3>1. ~s.bufferProcessing /\ buffer # <<>> /\ ~s.writing
      BY <2>4 DEF MayProcess
    <3>2. /\ t \in States /\ t.bufferProcessing /\ ~t.writing /\ t.finishing = s.finishing
          /\ t.ending = s.ending /\ t.ended = s.ended /\ t.length = s.length /\ t.needDrain = s.needDrain
      BY <1>0, <3>1 DEF States
    <3>3. fl = {}
      BY <3>1 DEF Sound, InFlight
    <3>4. PICK p \in Nat : Loop(below, s.bufferProcessing, p) /\ Queue(buffer, p, Len(chunk), sunk, fa)
      BY DEF Sound, Placed
    <3>5. p = 0 /\ ~Holds(below, "proc")
      <4>1. s.bufferProcessing <=> Holds(below, "proc")
        BY <3>4 DEF Loop
      <4>2. p = 0
        BY <3>1, <3>4 DEF Loop
      <4> QED BY <3>1, <4>1, <4>2, Zenon
    <3>6. Queue(buffer, 0, Len(chunk), sunk, fa)
      BY <3>4, <3>5
    <3>7. Process(t, fl, 0, below)
      BY <2>1, <2>4
    <3> HIDE DEF t
    <3>8. /\ buffer \in Seq(Nat) /\ chunk \in Seq(Chunk) /\ sunk \in Seq(Nat)
          /\ Ledger(fl, sunk, dn, fa) /\ Lengths(t.length, chunk, dn)
      BY <3>2 DEF Sound
    <3>9. t.finishing => t.ending \/ t.ended
      BY <3>2 DEF Sound
    <3>10. /\ Sound(state', buffer', chunk, inflight', stack', sunk', dn, fa)
           /\ state'.finishing = t.finishing /\ state'.needDrain = t.needDrain
      BY <1>0, <3>1, <3>2, <3>3, <3>5, <3>6, <3>7, <3>8, <3>9, ProcessKeeps
    <3> QED BY <2>2, <2>3, <3>2, <3>10 DEF Drain
  <2>5. CASE ~MayProcess(s)
    <3>1. state' = s /\ stack' = below /\ inflight' = fl /\ buffer' = buffer /\ sunk' = sunk
      BY <2>1, <2>5
    <3>2. Sound(state', buffer', chunk, inflight', stack', sunk', dn, fa)
      BY <3>1
    <3> QED BY <2>2, <2>3, <3>1, <3>2 DEF Drain
  <2> QED BY <2>4, <2>5
<1> QED BY <1>1, <1>2
-----------------------------------------------------------------------------
\* Entering and leaving a frame of user code or of write(), and changes of flags.
LEMMA SoundPush ==
  ASSUME NEW s, NEW b, NEW ch, NEW fl, NEW st, NEW su, NEW dn, NEW fa, Sound(s, b, ch, fl, st, su, dn, fa),
         NEW f \in Frames, f.k # "proc", f.k = "cb" => ~s.writing,
         b = <<>> \/ ~Holds(st, "cb") \/ f.k = "endFinish"
  PROVE  Sound(s, b, ch, fl, Append(st, f), su, dn, fa)
<1>1. s.bufferProcessing \in BOOLEAN /\ s.writing \in BOOLEAN /\ st \in Seq(Frames)
  BY DEF Sound, States
<1>2. Append(st, f) \in Seq(Frames)
  BY <1>1, PushFacts
<1>3. PICK p \in Nat : Loop(st, s.bufferProcessing, p) /\ Queue(b, p, Len(ch), su, fa)
  BY DEF Sound, Placed
<1>4. Loop(Append(st, f), s.bufferProcessing, p)
  BY <1>1, <1>3, LoopPush
<1>5. Placed(s.bufferProcessing, Append(st, f), b, Len(ch), su, fa)
  BY <1>3, <1>4, Zenon DEF Placed
<1>6. CbAlone(st, b, s.writing)
  BY DEF Sound
<1>7. CbAlone(Append(st, f), b, s.writing)
  BY <1>1, <1>6, CbPush
<1> QED BY <1>2, <1>5, <1>7 DEF Sound

LEMMA SoundPop ==
  ASSUME NEW s, NEW b, NEW ch, NEW fl, NEW st, NEW su, NEW dn, NEW fa, Sound(s, b, ch, fl, st, su, dn, fa),
         st # <<>>, st[Len(st)].k # "proc"
  PROVE  Sound(s, b, ch, fl, Below(st), su, dn, fa)
<1>1. s.bufferProcessing \in BOOLEAN /\ s.writing \in BOOLEAN /\ st \in Seq(Frames)
  BY DEF Sound, States
<1>2. Below(st) \in Seq(Frames)
  BY <1>1, BelowFacts
<1>3. PICK p \in Nat : Loop(st, s.bufferProcessing, p) /\ Queue(b, p, Len(ch), su, fa)
  BY DEF Sound, Placed
<1>4. Loop(Below(st), s.bufferProcessing, p)
  BY <1>1, <1>3, LoopPop
<1>5. Placed(s.bufferProcessing, Below(st), b, Len(ch), su, fa)
  BY <1>3, <1>4, Zenon DEF Placed
<1>6. CbAlone(st, b, s.writing)
  BY DEF Sound
<1>7. CbAlone(Below(st), b, s.writing)
  BY <1>1, <1>6, CbPop
<1> QED BY <1>2, <1>5, <1>7 DEF Sound

LEMMA SoundFlags ==
  ASSUME NEW s, NEW b, NEW ch, NEW fl, NEW st, NEW su, NEW dn, NEW fa, Sound(s, b, ch, fl, st, su, dn, fa),
         NEW t \in States, t.bufferProcessing = s.bufferProcessing, t.writing = s.writing,
         t.writelen = s.writelen, t.writecb = s.writecb, t.length = s.length,
         t.finishing => t.ending \/ t.ended
  PROVE  Sound(t, b, ch, fl, st, su, dn, fa)
<1>1. Placed(t.bufferProcessing, st, b, Len(ch), su, fa) /\ CbAlone(st, b, t.writing)
  BY DEF Sound
<1>2. InFlight(t, fl, ch, su)
  BY DEF Sound, InFlight
<1> QED BY <1>1, <1>2 DEF Sound

LEMMA FrameFacts ==
  ASSUME NEW k \in UserFrames \cup ImplFrames, NEW e \in BOOLEAN
  PROVE  Frame(k, 0, e) \in Frames /\ Frame(k, 0, e).k = k
BY DEF Frame, Frames

\* What write(d) does, called where Settled lets it be.
LEMMA WriteKeeps ==
  ASSUME NEW s, Sound(s, buffer, chunk, inflight, stack, sunk, done, failed), ticks \in Seq(Ticks),
         Settled, s.writing = state.writing, s.finishing => s.ending,
         buffer # <<>> /\ ~s.writing => failed # {},
         NEW d \in Chunk, NEW byEnd \in BOOLEAN, Write(s, d, byEnd)
  PROVE  /\ Sound(state', buffer', chunk', inflight', stack', sunk', done, failed)
         /\ ~(1..Len(chunk') \subseteq done)
         /\ state'.finishing = s.finishing
<1>1. PICK w \in Nat, n \in Nat : w = Len(chunk) /\ n = Len(buffer)
  BY Counts
<1> DEFINE c == w + 1
           t == Counted(s, d.len)
<1>2. c \in Nat /\ c = w + 1
  OBVIOUS
<1> HIDE DEF c
<1>3. /\ s \in States /\ buffer \in Seq(Nat) /\ chunk \in Seq(Chunk) /\ stack \in Seq(Frames) /\ sunk \in Seq(Nat)
  BY DEF Sound
<1>4. d.len \in Nat /\ d.cb \in BOOLEAN
  BY SizeAssumption DEF Chunk
<1>5. /\ t \in States /\ t.length = s.length + d.len /\ t.writing = s.writing /\ t.bufferProcessing = s.bufferProcessing
      /\ t.writelen = s.writelen /\ t.writecb = s.writecb /\ t.finishing = s.finishing /\ t.ending = s.ending
  <2> DEFINE u == [s EXCEPT !.length = @ + d.len]
  <2>a. s.length + d.len \in Nat
    BY <1>3, <1>4 DEF States
  <2>1. /\ u \in States /\ u.length = s.length + d.len /\ u.writing = s.writing /\ u.bufferProcessing = s.bufferProcessing
        /\ u.writelen = s.writelen /\ u.writecb = s.writecb /\ u.finishing = s.finishing /\ u.ending = s.ending
    BY <1>3, <2>a DEF States
  <2>2. t = IF u.length < highWaterMark THEN u ELSE [u EXCEPT !.needDrain = TRUE]
    BY DEF Counted
  <2> HIDE DEF u
  <2> QED BY <2>1, <2>2 DEF States
<1>6. /\ chunk' = Append(chunk, d)
      /\ \/ /\ s.writing /\ buffer' = Append(buffer, c) /\ state' = [t EXCEPT !.ended = byEnd]
            /\ stack' = stack /\ inflight' = inflight /\ sunk' = sunk
         \/ /\ ~s.writing /\ state' = Writing(t, c, d) /\ stack' = Append(stack, Frame("write", 0, byEnd))
            /\ inflight' = inflight \cup {c} /\ sunk' = Append(sunk, c) /\ buffer' = buffer
  <2>1. t.writing = s.writing
    BY <1>5
  <2> QED BY <1>1, <1>2, <2>1 DEF Write, MustQueue
<1> HIDE DEF t
<1>7. /\ chunk' \in Seq(Chunk) /\ Len(chunk') = c /\ chunk'[c] = d
      /\ \A i \in 1..w : chunk'[i] = chunk[i]
  BY <1>1, <1>2, <1>3, <1>6, SequenceFacts
<1>8. c \notin done /\ c \notin failed /\ c \notin inflight
  <2>1. done \subseteq 1..w /\ failed \subseteq 1..w /\ inflight \subseteq 1..w
    BY <1>1, Counts
  <2>2. c \notin 1..w
    BY <1>1, <1>2
  <2> QED BY <2>1, <2>2
<1>9. ~(1..Len(chunk') \subseteq done)
  <2>1. c \in 1..c
    BY <1>2
  <2> QED BY <1>7, <1>8, <2>1
<1>10. Lengths(t.length, chunk', done)
  <2>1. Lengths(s.length, chunk, done) /\ Len(chunk) + 1 \notin done
    BY <1>1, <1>2, <1>8 DEF Sound
  <2>2. Lengths(s.length + d.len, Append(chunk, d), done)
    BY <1>3, <2>1, SumsAppend
  <2> QED BY <1>5, <1>6, <2>2
<1>11. Settled /\ (s.writing \in BOOLEAN)
  BY <1>3 DEF States
<1>12. PICK p \in Nat : Loop(stack, s.bufferProcessing, p) /\ Queue(buffer, p, w, sunk, failed)
  BY <1>1 DEF Sound, Placed
<1>14. CASE s.writing
  <2>1. /\ buffer' = Append(buffer, c) /\ state' = [t EXCEPT !.ended = byEnd]
        /\ stack' = stack /\ inflight' = inflight /\ sunk' = sunk
    BY <1>6, <1>14
  <2>2. /\ state' \in States /\ state'.length = t.length /\ state'.writing /\ state'.bufferProcessing = s.bufferProcessing
        /\ state'.writelen = s.writelen /\ state'.writecb = s.writecb /\ state'.finishing = s.finishing
        /\ state'.ending = s.ending
    BY <1>5, <1>14, <2>1 DEF States
  <2>3. ~Holds(stack, "cb")
    BY <1>14 DEF Settled, Holds
  <2>4. CbAlone(stack', buffer', state'.writing)
    BY <2>1, <2>3 DEF CbAlone, Holds
  <2>5. buffer' \in Seq(Nat)
    BY <1>2, <1>3, <2>1, SequenceFacts
  <2>6. Queue(buffer', p, c, sunk, failed)
    BY <1>2, <1>3, <1>12, <2>1, QueueBehind
  <2>7. Placed(state'.bufferProcessing, stack', buffer', Len(chunk'), sunk', failed)
    <3>1. Loop(stack', state'.bufferProcessing, p)
      BY <1>12, <2>1, <2>2
    <3>2. Queue(buffer', p, Len(chunk'), sunk', failed)
      BY <1>1, <1>7, <2>1, <2>6
    <3> QED BY <3>1, <3>2, Zenon DEF Placed
  <2>8. InFlight(state', inflight', chunk', sunk')
    <3>1. /\ Len(sunk) >= 1 /\ inflight = {Newest(sunk)} /\ s.writelen = chunk[Newest(sunk)].len
          /\ s.writecb = writecb(Newest(sunk), chunk[Newest(sunk)])
      BY <1>14 DEF Sound, InFlight
    <3>2. Newest(sunk) \in 1..w
      BY <1>1, <3>1, Counts
    <3>3. chunk'[Newest(sunk)] = chunk[Newest(sunk)]
      BY <1>7, <3>2
    <3> QED BY <2>1, <2>2, <3>1, <3>3 DEF InFlight
  <2>9. Ledger(inflight', sunk', done, failed)
    BY <2>1 DEF Sound
  <2> QED BY <1>3, <1>7, <1>9, <1>10, <2>1, <2>2, <2>4, <2>5, <2>7, <2>8, <2>9 DEF Sound
<1>15. CASE ~s.writing
  <2>1. /\ state' = Writing(t, c, d) /\ stack' = Append(stack, Frame("write", 0, byEnd))
        /\ inflight' = inflight \cup {c} /\ sunk' = Append(sunk, c) /\ buffer' = buffer
    BY <1>6, <1>15
  <2>2. writecb(c, d) \in Nat
    BY <1>2 DEF writecb, NoChunk
  <2>3. /\ state' \in States /\ state'.length = t.length /\ state'.writing /\ state'.bufferProcessing = s.bufferProcessing
        /\ state'.writelen = d.len /\ state'.writecb = writecb(c, d) /\ state'.finishing = s.finishing
        /\ state'.ending = s.ending
    BY <1>4, <1>5, <2>1, <2>2 DEF States, Writing
  <2>4. buffer = <<>> \/ ~Holds(stack, "cb")
    BY DEF Settled, Holds
  <2>5. c \notin Given(sunk) /\ Queue(buffer, p, c, Append(sunk, c), failed)
    <3>1. buffer # <<>> => \E m \in 1..Len(sunk) : sunk[m] \in failed
      <4>1. failed \subseteq Given(sunk)
        BY Counts
      <4> QED BY <1>15, <4>1 DEF Given
    <3> QED BY <1>2, <1>3, <1>12, <3>1, QueueDirect
  <2>6. /\ sunk' \in Seq(Nat) /\ Len(sunk') >= 1 /\ Newest(sunk') = c
        /\ Given(sunk') = Given(sunk) \cup {c}
    <3>1. PICK g \in Nat : g = Len(sunk)
      BY <1>3, SequenceFacts
    <3> QED BY <1>2, <1>3, <2>1, <3>1, AppendFacts
  <2>8. Frame("write", 0, byEnd) \in Frames /\ Frame("write", 0, byEnd).k = "write"
    BY FrameFacts DEF ImplFrames
  <2>9. stack' \in Seq(Frames)
    BY <1>3, <2>1, <2>8, PushFacts
  <2>10. CbAlone(stack', buffer', state'.writing)
    <3>1. buffer = <<>> \/ ~Holds(stack', "cb")
      BY <1>3, <2>1, <2>4, <2>8, PushFacts
    <3> QED BY <2>1, <3>1 DEF CbAlone, Holds
  <2>11. Placed(state'.bufferProcessing, stack', buffer', Len(chunk'), sunk', failed)
    <3>0. s.bufferProcessing \in BOOLEAN
      BY <1>3 DEF States
    <3>1. Loop(stack', s.bufferProcessing, p)
      BY <1>3, <1>12, <2>1, <2>8, <3>0, LoopPush
    <3>3. Queue(buffer', p, Len(chunk'), sunk', failed)
      BY <1>7, <2>1, <2>5
    <3> QED BY <2>3, <3>1, <3>3, Zenon DEF Placed
  <2>12. inflight = {}
    BY <1>15 DEF Sound, InFlight
  <2>13. InFlight(state', inflight', chunk', sunk')
    <3>1. inflight' = {c}
      BY <2>1, <2>12
    <3> QED BY <1>7, <2>3, <2>6, <3>1 DEF InFlight
  <2>14. Ledger(inflight', sunk', done, failed)
    <3>1. done \cup failed = Given(sunk)
      BY <2>12 DEF Sound, Ledger
    <3> QED BY <1>8, <2>1, <2>6, <2>12, <3>1 DEF Ledger
  <2> QED BY <1>3, <1>7, <1>9, <1>10, <2>1, <2>3, <2>6, <2>9, <2>10, <2>11, <2>13, <2>14 DEF Sound
<1> QED BY <1>9, <1>11, <1>14, <1>15
-----------------------------------------------------------------------------
\* write() and end().
LEMMA WriteFinds ==
  ASSUME IInv, Attended, Settled, InUserCode, ~state.ended
  PROVE  /\ buffer # <<>> /\ ~state.writing => failed # {}
         /\ ~state.finishing
         /\ failed = {} => ~Holds(stack, "proc")
<1>1. /\ stack \in Seq(Frames) /\ state \in States /\ (state.finishing => state.ending \/ state.ended)
      /\ state.bufferProcessing \in BOOLEAN /\ buffer \in Seq(Nat)
      /\ Placed(state.bufferProcessing, stack, buffer, Len(chunk), sunk, failed)
  BY DEF IInv, Sound, States
<1>2. ~state.finishing
  BY <1>1 DEF Settled
<1>3. stack # <<>> => Top = stack[Len(stack)] /\ Pop = Below(stack) /\ Top.k # "proc"
  BY DEF InUserCode, AtBase, UserFrames, Top, Pop, Below
<1>4. Holds(stack, "cb") => buffer = <<>>
  BY DEF Settled, Holds
<1>5. ASSUME buffer # <<>>, ~state.writing, failed = {} PROVE FALSE
  BY <1>2, <1>3, <1>4, <1>5 DEF Attended, Busy
<1>6. ASSUME failed = {}, Holds(stack, "proc") PROVE FALSE
  <2>1. stack # <<>>
    BY <1>6 DEF Holds
  <2>2. Busy(stack)
    BY <1>1, <1>2, <1>6, <2>1, NestedPop DEF Attended
  <2>3. Holds(stack, "cb")
    BY <1>3, <2>1, <2>2 DEF Busy
  <2>4. PICK p \in Nat : Loop(stack, state.bufferProcessing, p) /\ Queue(buffer, p, Len(chunk), sunk, failed)
    BY <1>1 DEF Placed
  <2>5. PICK k \in 1..Len(stack) : stack[k].k = "proc"
    BY <1>6 DEF Holds
  <2>6. p = stack[k].c + 1 /\ stack[k].c \in Nat
    <3>1. p = stack[k].c + 1
      BY <2>4, <2>5 DEF Loop
    <3>2. stack[k] \in Frames
      BY <1>1, <2>5, SequenceFacts
    <3> QED BY <3>1, <3>2 DEF Frames
  <2>7. p <= Len(buffer) /\ Len(buffer) \in Nat
    BY <1>1, <2>4, SequenceFacts DEF Queue
  <2>8. Len(buffer) # 0
    BY <2>6, <2>7
  <2> QED BY <1>1, <1>4, <2>3, <2>8, SequenceFacts
<1> QED BY <1>2, <1>5, <1>6

LEMMA Writes ==
  ASSUME IInv, Attended, Reentrant = FALSE, write \/ endChunk
  PROVE  IInv'
<1>1. Settled /\ InUserCode /\ ~state.ended
  BY DEF write, endChunk, MayWrite, mayAccept, Settled
<1>2. /\ Sound(state, buffer, chunk, inflight, stack, sunk, done, failed) /\ ticks \in Seq(Ticks)
      /\ state \in States /\ (state.finishing => state.ending \/ state.ended)
  BY DEF IInv, Sound
<1>3. (state.finishing => state.ending) /\ (buffer # <<>> /\ ~state.writing => failed # {})
  BY <1>1, WriteFinds
<1>4. CASE write
  <2>1. PICK l \in Sizes, b \in Callbacks : Write(state, [len |-> l, cb |-> b], FALSE)
    BY <1>4 DEF write
  <2>2. [len |-> l, cb |-> b] \in Chunk
    BY UserAssumption DEF Chunk
  <2>3. /\ Sound(state', buffer', chunk', inflight', stack', sunk', done, failed)
        /\ ~(1..Len(chunk') \subseteq done)
    BY <1>1, <1>2, <1>3, <2>1, <2>2, WriteKeeps
  <2>4. ticks' = ticks /\ done' = done /\ failed' = failed
    BY <1>4 DEF write
  <2> QED BY <1>2, <2>3, <2>4 DEF IInv, Drain
<1>5. CASE endChunk
  <2> DEFINE s == [state EXCEPT !.ending = TRUE]
  <2>1. PICK l \in Sizes : Write(s, [len |-> l, cb |-> FALSE], TRUE)
    BY <1>5 DEF endChunk
  <2>2. [len |-> l, cb |-> FALSE] \in Chunk
    BY DEF Chunk
  <2>3. /\ s \in States /\ s.bufferProcessing = state.bufferProcessing /\ s.writing = state.writing
        /\ s.writelen = state.writelen /\ s.writecb = state.writecb /\ s.length = state.length /\ s.ending
    BY <1>2 DEF States
  <2> HIDE DEF s
  <2>4. Sound(s, buffer, chunk, inflight, stack, sunk, done, failed)
    BY <1>2, <2>3, SoundFlags
  <2>5. /\ Sound(state', buffer', chunk', inflight', stack', sunk', done, failed)
        /\ ~(1..Len(chunk') \subseteq done)
    BY <1>1, <1>2, <1>3, <2>1, <2>2, <2>3, <2>4, WriteKeeps
  <2>6. ticks' = ticks /\ done' = done /\ failed' = failed
    BY <1>5 DEF endChunk
  <2> QED BY <1>2, <2>5, <2>6 DEF IInv, Drain
<1> QED BY <1>4, <1>5

LEMMA WriteAfterEnd ==
  ASSUME IInv, writeAfterEnd
  PROVE  IInv'
<1>1. PICK b \in Callbacks : stack' = <<Frame(IF b THEN "errCb" ELSE "error", 0, FALSE)>>
  BY DEF writeAfterEnd
<1>2. PICK k \in {"errCb", "error"} : stack' = <<Frame(k, 0, FALSE)>>
  <2>1. CASE b
    BY <1>1, <2>1
  <2>2. CASE ~b
    BY <1>1, <2>2
  <2> QED BY <2>1, <2>2
<1>3. Frame(k, 0, FALSE) \in Frames /\ Frame(k, 0, FALSE).k = k
  BY FrameFacts DEF UserFrames, ImplFrames
<1>4. stack = <<>> /\ stack' = Append(stack, Frame(k, 0, FALSE))
  <2>1. stack = <<>>
    BY DEF writeAfterEnd, AtBase
  <2>2. <<Frame(k, 0, FALSE)>> = Append(<<>>, Frame(k, 0, FALSE))
    OBVIOUS
  <2> QED BY <1>2, <2>1, <2>2
<1>5. ~Holds(stack, "cb")
  BY <1>4 DEF Holds
<1>6. /\ state' = state /\ buffer' = buffer /\ chunk' = chunk /\ inflight' = inflight /\ ticks' = ticks
      /\ sunk' = sunk /\ done' = done /\ failed' = failed
  BY DEF writeAfterEnd
<1>7. Sound(state, buffer, chunk, inflight, stack', sunk, done, failed)
  BY <1>3, <1>4, <1>5, SoundPush DEF IInv
<1> QED BY <1>5, <1>6, <1>7 DEF IInv, Drain

LEMMA Ends ==
  ASSUME IInv, end
  PROVE  IInv'
<1>1. /\ buffer' = buffer /\ chunk' = chunk /\ inflight' = inflight /\ ticks' = ticks
      /\ sunk' = sunk /\ done' = done /\ failed' = failed
  BY DEF end
<1>2. /\ Sound(state, buffer, chunk, inflight, stack, sunk, done, failed) /\ state \in States
      /\ stack \in Seq(Frames)
  BY DEF IInv, Sound
<1>3. CASE NothingLeft
  <2>1. /\ state' = [state EXCEPT !.ending = TRUE, !.finishing = TRUE]
        /\ stack' = Append(stack, Frame("endFinish", 0, TRUE))
    BY <1>3 DEF end
  <2>2. /\ state' \in States /\ state'.bufferProcessing = state.bufferProcessing /\ state'.writing = state.writing
        /\ state'.writelen = state.writelen /\ state'.writecb = state.writecb /\ state'.length = state.length
        /\ state'.ending /\ state'.finishing
    BY <1>2, <2>1 DEF States
  <2>3. Sound(state', buffer, chunk, inflight, stack, sunk, done, failed)
    BY <1>2, <2>2, SoundFlags
  <2>4. Frame("endFinish", 0, TRUE) \in Frames /\ Frame("endFinish", 0, TRUE).k = "endFinish"
    BY FrameFacts DEF UserFrames, ImplFrames
  <2>5. Sound(state', buffer, chunk, inflight, stack', sunk, done, failed)
    BY <2>1, <2>3, <2>4, SoundPush
  <2> QED BY <1>1, <2>2, <2>5 DEF IInv, Drain
<1>4. CASE ~NothingLeft
  <2>1. state' = [state EXCEPT !.ending = TRUE, !.ended = TRUE] /\ stack' = stack
    BY <1>4 DEF end
  <2>2. /\ state' \in States /\ state'.bufferProcessing = state.bufferProcessing /\ state'.writing = state.writing
        /\ state'.writelen = state.writelen /\ state'.writecb = state.writecb /\ state'.length = state.length
        /\ state'.ending /\ state'.finishing = state.finishing /\ state'.needDrain = state.needDrain
    BY <1>2, <2>1 DEF States
  <2>3. Sound(state', buffer, chunk, inflight, stack, sunk, done, failed)
    BY <1>2, <2>2, SoundFlags
  <2> QED BY <1>1, <2>1, <2>2, <2>3 DEF IInv, Drain
<1> QED BY <1>3, <1>4

-----------------------------------------------------------------------------
\* A completion finds the chunk it is about, and no write callback half way through
\* while chunks wait.
LEMMA Completes ==
  ASSUME IInv, NEW c, MayComplete(c)
  PROVE  /\ state.writing /\ c = Newest(sunk) /\ inflight = {c} /\ c \in 1..Len(chunk) /\ c \notin done
         /\ state.writelen = chunk[c].len
         /\ buffer # <<>> => ~Holds(stack, "cb")
<1>1. c \in inflight /\ Sound(state, buffer, chunk, inflight, stack, sunk, done, failed)
  BY DEF MayComplete, IInv
<1>2. state.writing /\ inflight = {Newest(sunk)} /\ state.writelen = chunk[Newest(sunk)].len
  BY <1>1 DEF Sound, InFlight
<1>3. c \notin done
  BY <1>1 DEF Sound, Ledger
<1>4. c \in 1..Len(chunk)
  BY <1>1, Counts
<1>5. buffer # <<>> => ~Holds(stack, "cb")
  BY <1>1, <1>2 DEF Sound, CbAlone, Holds
<1> QED BY <1>1, <1>2, <1>3, <1>4, <1>5

LEMMA Releases ==
  ASSUME IInv, NEW c, MayComplete(c)
  PROVE  /\ ~Released(state).writing
         /\ Sound(Released(state), buffer, chunk, inflight \ {c}, stack, sunk, done \cup {c}, failed)
<1>1. /\ state.writing /\ c = Newest(sunk) /\ inflight = {c} /\ c \in 1..Len(chunk) /\ c \notin done
      /\ state.writelen = chunk[c].len
  BY Completes
<1>2. /\ Sound(state, buffer, chunk, inflight, stack, sunk, done, failed) /\ state \in States
      /\ chunk \in Seq(Chunk)
  BY DEF IInv, Sound
<1>3. /\ Lengths(state.length - state.writelen, chunk, done \cup {c})
      /\ state.length - state.writelen \in Nat
  BY <1>1, <1>2, SumsDone DEF Sound
<1> DEFINE t == Released(state)
<1>4. /\ t \in States /\ t.bufferProcessing = state.bufferProcessing /\ ~t.writing /\ t.writing \in BOOLEAN
      /\ t.length = state.length - state.writelen
      /\ t.finishing = state.finishing /\ t.ending = state.ending /\ t.ended = state.ended
  BY <1>2, <1>3 DEF States, Released, Reset, NoChunk
<1> HIDE DEF t
<1>5. inflight \ {c} = {}
  BY <1>1
<1>6. InFlight(t, inflight \ {c}, chunk, sunk)
  BY <1>4, <1>5 DEF InFlight
<1>7. Ledger(inflight \ {c}, sunk, done \cup {c}, failed)
  BY <1>1, <1>2 DEF Sound, Ledger
<1>8. CbAlone(stack, buffer, t.writing)
  BY <1>2, <1>4 DEF Sound, CbAlone
<1>9. Placed(t.bufferProcessing, stack, buffer, Len(chunk), sunk, failed)
  BY <1>2, <1>4 DEF Sound
<1>10. Sound(t, buffer, chunk, inflight \ {c}, stack, sunk, done \cup {c}, failed)
  BY <1>2, <1>3, <1>4, <1>6, <1>7, <1>8, <1>9 DEF Sound
<1> QED BY <1>4, <1>10 DEF t
LEMMA Onwrite ==
  ASSUME IInv, NEW c, onwrite(c)
  PROVE  IInv'
<1> DEFINE s == Released(state)
           left == inflight \ {c}
           dn == done \cup {c}
<1>1. MayComplete(c) /\ done' = dn /\ chunk' = chunk /\ failed' = failed
  BY DEF onwrite
<1>2. ~s.writing /\ Sound(s, buffer, chunk, left, stack, sunk, dn, failed)
  BY <1>1, Releases
<1>3. buffer # <<>> => ~Holds(stack, "cb")
  BY <1>1, Completes
<1>4. ticks \in Seq(Ticks) /\ Append(ticks, "cb") \in Seq(Ticks)
  <2>1. ticks \in Seq(Ticks) /\ "cb" \in Ticks
    BY DEF IInv, Ticks
  <2> QED BY <2>1, PromisedAppend
<1>5. \/ AfterCb(s, left, ticks, stack)
      \/ AfterCb(s, left, Append(ticks, "cb"), stack)
      \/ /\ state' = s /\ inflight' = left /\ stack' = Append(stack, Frame("cb", 0, FALSE))
         /\ buffer' = buffer /\ ticks' = ticks /\ sunk' = sunk
  BY DEF onwrite
<1> HIDE DEF s, left, dn
<1>6. CASE AfterCb(s, left, ticks, stack)
  <2>1. /\ Sound(state', buffer', chunk, inflight', stack', sunk', dn, failed)
        /\ ticks' \in Seq(Ticks) /\ Drain(state', chunk, dn, ticks', stack')
    BY <1>2, <1>3, <1>4, <1>6, AfterCbKeeps
  <2> QED BY <1>1, <2>1 DEF IInv
<1>7. CASE AfterCb(s, left, Append(ticks, "cb"), stack)
  <2>1. /\ Sound(state', buffer', chunk, inflight', stack', sunk', dn, failed)
        /\ ticks' \in Seq(Ticks) /\ Drain(state', chunk, dn, ticks', stack')
    BY <1>2, <1>3, <1>4, <1>7, AfterCbKeeps
  <2> QED BY <1>1, <2>1 DEF IInv
<1>8. CASE /\ state' = s /\ inflight' = left /\ stack' = Append(stack, Frame("cb", 0, FALSE))
           /\ buffer' = buffer /\ ticks' = ticks /\ sunk' = sunk
  <2>1. Frame("cb", 0, FALSE) \in Frames /\ Frame("cb", 0, FALSE).k = "cb"
    BY FrameFacts DEF UserFrames, ImplFrames
  <2>2. stack \in Seq(Frames)
    BY <1>2 DEF Sound
  <2>3. Sound(s, buffer, chunk, left, stack', sunk, dn, failed)
    BY <1>2, <1>3, <1>8, <2>1, SoundPush
  <2>4. Holds(stack', "cb")
    BY <1>8, <2>1, <2>2, PushFacts
  <2> QED BY <1>1, <1>4, <1>8, <2>3, <2>4 DEF IInv, Drain
<1> QED BY <1>5, <1>6, <1>7, <1>8

LEMMA OnwriteError ==
  ASSUME IInv, NEW c, onwriteError(c)
  PROVE  IInv'
<1>1. /\ MayComplete(c) /\ inflight' = inflight \ {c} /\ state' = Reset(state) /\ failed' = failed \cup {c}
      /\ buffer' = buffer /\ chunk' = chunk /\ sunk' = sunk /\ done' = done
  BY DEF onwriteError
<1>2. PICK k \in {"errCb", "error"} :
           stack' = Append(stack, Frame(k, 0, FALSE)) /\ (ticks' = ticks \/ ticks' = Append(ticks, "cb"))
  BY DEF onwriteError
<1>3. /\ inflight = {c} /\ (buffer # <<>> => ~Holds(stack, "cb"))
  BY <1>1, Completes
<1>4. /\ Sound(state, buffer, chunk, inflight, stack, sunk, done, failed) /\ state \in States
      /\ stack \in Seq(Frames) /\ ticks \in Seq(Ticks) /\ Drain(state, chunk, done, ticks, stack)
  BY DEF IInv, Sound
<1>5. /\ state' \in States /\ state'.bufferProcessing = state.bufferProcessing /\ ~state'.writing
      /\ state'.length = state.length /\ state'.needDrain = state.needDrain
      /\ state'.finishing = state.finishing /\ state'.ending = state.ending /\ state'.ended = state.ended
  BY <1>1, <1>4 DEF States, Reset, NoChunk
<1>6. InFlight(state', inflight', chunk, sunk)
  BY <1>1, <1>3, <1>5 DEF InFlight
<1>7. Ledger(inflight', sunk, done, failed')
  <2>1. done \cup failed \cup {c} = Given(sunk)
    BY <1>3, <1>4 DEF Sound, Ledger
  <2>2. inflight' = {} /\ failed' = failed \cup {c}
    BY <1>1, <1>3
  <2>3. done \cup failed' \cup {} = Given(sunk) /\ done \cap {} = {}
    BY <2>1, <2>2
  <2> QED BY <2>2, <2>3 DEF Ledger
<1>8. CbAlone(stack, buffer, state'.writing)
  BY <1>4, <1>5 DEF Sound, CbAlone
<1>9. Placed(state'.bufferProcessing, stack, buffer, Len(chunk), sunk, failed')
  BY <1>1, <1>4, <1>5, QueueFails DEF Sound, Placed
<1>10. Sound(state', buffer, chunk, inflight', stack, sunk, done, failed')
  BY <1>4, <1>5, <1>6, <1>7, <1>8, <1>9 DEF Sound
<1>11. Frame(k, 0, FALSE) \in Frames /\ Frame(k, 0, FALSE).k = k
  BY FrameFacts DEF UserFrames, ImplFrames
<1>12. Sound(state', buffer, chunk, inflight', stack', sunk, done, failed')
  BY <1>2, <1>3, <1>10, <1>11, SoundPush
<1>13. Holds(stack, "cb") => Holds(stack', "cb")
  BY <1>2, <1>4, <1>11, PushFacts
<1>14. ticks' \in Seq(Ticks) /\ (Promised(ticks) => Promised(ticks'))
  <2>1. "cb" \in Ticks
    BY DEF Ticks
  <2> QED BY <1>2, <1>4, <2>1, PromisedAppend
<1>15. Drain(state', chunk, done, ticks', stack')
  BY <1>4, <1>5, <1>13, <1>14 DEF Drain
<1> QED BY <1>1, <1>12, <1>14, <1>15 DEF IInv

-----------------------------------------------------------------------------
\* The top frame and what is below it.
LEMMA TopFacts ==
  ASSUME IInv, stack # <<>>
  PROVE  /\ Top = stack[Len(stack)] /\ Pop = Below(stack) /\ Top \in Frames /\ Pop \in Seq(Frames)
         /\ \A kind : Holds(stack, kind) <=> Holds(Pop, kind) \/ Top.k = kind
         /\ buffer # <<>> /\ Top.k # "endFinish" => ~Holds(Pop, "cb")
         /\ buffer # <<>> /\ Top.k = "cb" => ~state.writing
<1>1. stack \in Seq(Frames) /\ CbAlone(stack, buffer, state.writing) /\ state.writing \in BOOLEAN
  BY DEF IInv, Sound, States
<1>2. Top = stack[Len(stack)] /\ Pop = Below(stack)
  BY DEF Top, Pop, Below
<1>3. PICK n \in Nat :
           /\ Len(stack) = n + 1 /\ stack[n + 1] \in Frames /\ stack[Len(stack)] = stack[n + 1]
           /\ Below(stack) \in Seq(Frames)
           /\ \A kind : Holds(stack, kind) <=> Holds(Below(stack), kind) \/ stack[n + 1].k = kind
  BY <1>1, BelowFacts
<1>4. /\ buffer # <<>> /\ stack[Len(stack)].k # "endFinish" => ~Holds(Below(stack), "cb")
      /\ buffer # <<>> /\ stack[Len(stack)].k = "cb" => ~state.writing
  BY <1>1, CbPop
<1> QED BY <1>2, <1>3, <1>4

LEMMA CbReturn ==
  ASSUME IInv, CbReturns
  PROVE  IInv'
<1>1. /\ stack # <<>> /\ Top.k = "cb" /\ AfterCb(state, inflight, ticks, Pop)
      /\ chunk' = chunk /\ done' = done /\ failed' = failed
  BY DEF CbReturns, At, AtBase
<1>2. Sound(state, buffer, chunk, inflight, stack, sunk, done, failed) /\ ticks \in Seq(Ticks)
  BY DEF IInv
<1>3. Sound(state, buffer, chunk, inflight, Pop, sunk, done, failed)
  BY <1>1, <1>2, TopFacts, SoundPop
<1>4. (state.writing => buffer = <<>>) /\ (buffer # <<>> => ~Holds(Pop, "cb"))
  BY <1>1, TopFacts
<1>5. /\ Sound(state', buffer', chunk, inflight', stack', sunk', done, failed)
      /\ ticks' \in Seq(Ticks) /\ Drain(state', chunk, done, ticks', stack')
  BY <1>1, <1>2, <1>3, <1>4, AfterCbKeeps
<1> QED BY <1>1, <1>5 DEF IInv

LEMMA ErrCbReturn ==
  ASSUME IInv, ErrCbReturns
  PROVE  IInv'
<1>1. /\ stack # <<>> /\ Top.k = "errCb" /\ stack' = Append(Pop, Frame("error", 0, FALSE))
      /\ state' = state /\ buffer' = buffer /\ chunk' = chunk /\ inflight' = inflight /\ ticks' = ticks
      /\ sunk' = sunk /\ done' = done /\ failed' = failed
  BY DEF ErrCbReturns, At, AtBase
<1>2. Sound(state, buffer, chunk, inflight, stack, sunk, done, failed)
  BY DEF IInv
<1>3. Sound(state, buffer, chunk, inflight, Pop, sunk, done, failed)
  BY <1>1, <1>2, TopFacts, SoundPop
<1>4. buffer = <<>> \/ ~Holds(Pop, "cb")
  BY <1>1, TopFacts
<1>5. Frame("error", 0, FALSE) \in Frames /\ Frame("error", 0, FALSE).k = "error"
  BY FrameFacts DEF UserFrames, ImplFrames
<1>6. Sound(state, buffer, chunk, inflight, stack', sunk, done, failed)
  BY <1>1, <1>3, <1>4, <1>5, SoundPush
<1>7. Holds(stack, "cb") => Holds(stack', "cb")
  <2>1. Holds(stack, "cb") => Holds(Pop, "cb")
    BY <1>1, TopFacts
  <2>2. Pop \in Seq(Frames)
    BY <1>1, TopFacts
  <2> QED BY <1>1, <1>5, <2>1, <2>2, PushFacts
<1> QED BY <1>1, <1>6, <1>7 DEF IInv, Drain

LEMMA OtherReturn ==
  ASSUME IInv, ListenerReturns \/ WriteReturns
  PROVE  IInv'
<1>1. /\ stack # <<>> /\ Top.k \notin {"proc", "cb"} /\ stack' = Pop
      /\ buffer' = buffer /\ chunk' = chunk /\ inflight' = inflight /\ ticks' = ticks
      /\ sunk' = sunk /\ done' = done /\ failed' = failed
  BY DEF ListenerReturns, WriteReturns, At, AtBase, UserFrames
<1>2. /\ Sound(state, buffer, chunk, inflight, stack, sunk, done, failed) /\ state \in States
      /\ (state.finishing => state.ending \/ state.ended)
  BY DEF IInv, Sound
<1>3. Top \in Frames /\ Top.end \in BOOLEAN
  BY <1>1, TopFacts DEF Frames
<1>4. /\ state' \in States /\ state'.bufferProcessing = state.bufferProcessing /\ state'.writing = state.writing
      /\ state'.writelen = state.writelen /\ state'.writecb = state.writecb /\ state'.length = state.length
      /\ state'.ending = state.ending /\ (state.ended => state'.ended)
      /\ state'.finishing = state.finishing /\ state'.needDrain = state.needDrain
  <2>1. CASE ListenerReturns
    <3>1. state' = [state EXCEPT !.finished = @ \/ Top.k \in {"finish", "endFinish"}, !.ended = @ \/ Top.end]
      BY <2>1 DEF ListenerReturns
    <3> QED BY <1>2, <1>3, <3>1 DEF States
  <2>2. CASE WriteReturns
    <3>1. state' = [state EXCEPT !.sync = FALSE, !.ended = @ \/ Top.end]
      BY <2>2 DEF WriteReturns
    <3> QED BY <1>2, <1>3, <3>1 DEF States
  <2> QED BY <2>1, <2>2
<1>5. Sound(state', buffer, chunk, inflight, stack, sunk, done, failed)
  BY <1>2, <1>4, SoundFlags
<1>6. Sound(state', buffer, chunk, inflight, stack', sunk, done, failed)
  BY <1>1, <1>5, TopFacts, SoundPop
<1>7. Holds(stack, "cb") => Holds(stack', "cb")
  BY <1>1, TopFacts
<1> QED BY <1>1, <1>4, <1>6, <1>7 DEF IInv, Drain
LEMMA ProcReturn ==
  ASSUME IInv, ProcReturns
  PROVE  IInv'
<1>1. /\ stack # <<>> /\ Top.k = "proc" /\ chunk' = chunk /\ ticks' = ticks /\ done' = done /\ failed' = failed
  BY DEF ProcReturns, At, AtBase
<1>2. /\ Sound(state, buffer, chunk, inflight, stack, sunk, done, failed) /\ ticks \in Seq(Ticks)
      /\ state \in States /\ stack \in Seq(Frames) /\ buffer \in Seq(Nat) /\ chunk \in Seq(Chunk) /\ sunk \in Seq(Nat)
      /\ (state.finishing => state.ending \/ state.ended)
      /\ Ledger(inflight, sunk, done, failed) /\ Lengths(state.length, chunk, done)
      /\ Drain(state, chunk, done, ticks, stack)
  BY DEF IInv, Sound
<1>3. /\ Top = stack[Len(stack)] /\ Pop = Below(stack) /\ Top.c \in Nat /\ Pop \in Seq(Frames)
      /\ \A kind : Holds(stack, kind) <=> Holds(Pop, kind) \/ Top.k = kind
  BY <1>1, TopFacts DEF Frames
<1>4. PICK p \in Nat : Loop(stack, state.bufferProcessing, p) /\ Queue(buffer, p, Len(chunk), sunk, failed)
  BY <1>2 DEF Sound, Placed
<1>5. state.bufferProcessing /\ p = Top.c + 1 /\ ~Holds(Pop, "proc")
  <2>1. state.bufferProcessing \in BOOLEAN
    BY <1>2 DEF States
  <2> QED BY <1>1, <1>2, <1>3, <1>4, <2>1, LoopPop
<1>6. PICK n \in Nat, w \in Nat : n = Len(buffer) /\ w = Len(chunk)
  BY <1>2, SequenceFacts
<1>7. p <= n
  BY <1>4, <1>6 DEF Queue
<1>8. buffer # <<>> /\ ~Holds(Pop, "cb") /\ ~Holds(stack, "cb")
  <2>1. n # 0
    BY <1>3, <1>5, <1>7
  <2>2. buffer # <<>>
    BY <1>2, <1>6, <2>1, SequenceFacts
  <2> QED BY <1>1, <1>3, <2>2, TopFacts
<1>9. CASE state.writing
  <2>1. /\ state' = [state EXCEPT !.sync = FALSE, !.bufferProcessing = FALSE]
        /\ buffer' = SubSeq(buffer, Top.c + 2, Len(buffer))
        /\ stack' = Pop /\ inflight' = inflight /\ sunk' = sunk
    BY <1>9 DEF ProcReturns
  <2>2. /\ state' \in States /\ state'.bufferProcessing = FALSE /\ state'.writing = state.writing
        /\ state'.writelen = state.writelen /\ state'.writecb = state.writecb /\ state'.length = state.length
        /\ state'.ending = state.ending /\ state'.ended = state.ended
        /\ state'.finishing = state.finishing /\ state'.needDrain = state.needDrain
    BY <1>2, <2>1 DEF States
  <2>3. buffer' = SubSeq(buffer, p + 1, n)
    <3>1. Top.c + 2 = p + 1
      BY <1>3, <1>5
    <3> QED BY <1>6, <2>1, <3>1
  <2>4. PICK m \in Nat : m = n - p
    BY <1>7
  <2>5. buffer' \in Seq(Nat) /\ Len(buffer') = m /\ \A i \in 1..m : buffer'[i] = buffer[p + i]
    <3>1. \A i \in (p + 1)..n : buffer[i] \in Nat
      <4>1. \A i \in 1..n : buffer[i] \in Nat
        BY <1>2, <1>6, SequenceFacts
      <4>2. \A i \in (p + 1)..n : i \in 1..n
        OBVIOUS
      <4> QED BY <4>1, <4>2
    <3>2. PICK a \in Nat : a = p + 1
      OBVIOUS
    <3>3. /\ SubSeq(buffer, a, n) \in Seq(Nat)
          /\ Len(SubSeq(buffer, a, n)) = IF a <= n THEN n - a + 1 ELSE 0
          /\ \A i \in 1..(n - a + 1) : SubSeq(buffer, a, n)[i] = buffer[a + i - 1]
      BY <3>1, <3>2, SubSeqProperties
    <3>4. Len(buffer') = m
      BY <1>7, <2>3, <2>4, <3>2, <3>3
    <3>5. \A i \in 1..m : i \in 1..(n - a + 1) /\ a + i - 1 = p + i
      BY <2>4, <3>2
    <3> QED BY <2>3, <3>2, <3>3, <3>4, <3>5
  <2>6. Queue(buffer', 0, w, sunk, failed)
    BY <1>2, <1>4, <1>6, <2>4, <2>5, QueueDrop
  <2>7. Loop(stack', FALSE, 0)
    BY <1>5, <2>1 DEF Loop, Holds
  <2>8. Placed(state'.bufferProcessing, stack', buffer', Len(chunk), sunk', failed)
    <3>1. 0 \in Nat /\ Loop(stack', state'.bufferProcessing, 0)
      BY <2>2, <2>7
    <3>2. Queue(buffer', 0, Len(chunk), sunk', failed)
      BY <1>6, <2>1, <2>6
    <3> QED BY <3>1, <3>2, Zenon DEF Placed
  <2>9. CbAlone(stack', buffer', state'.writing)
    BY <1>8, <2>1 DEF CbAlone, Holds
  <2>10. InFlight(state', inflight', chunk, sunk')
    BY <1>2, <2>1, <2>2 DEF Sound, InFlight
  <2>11. Sound(state', buffer', chunk, inflight', stack', sunk', done, failed)
    BY <1>2, <1>3, <2>1, <2>2, <2>5, <2>8, <2>9, <2>10 DEF Sound
  <2> QED BY <1>1, <1>2, <1>8, <2>2, <2>11 DEF IInv, Drain
<1>10. CASE ~state.writing
  <2> DEFINE s == [state EXCEPT !.sync = FALSE]
  <2>1. Process(s, inflight, Top.c + 1, Pop)
    BY <1>10 DEF ProcReturns
  <2>2. /\ s \in States /\ s.bufferProcessing /\ ~s.writing /\ s.length = state.length
        /\ s.ending = state.ending /\ s.ended = state.ended
        /\ s.finishing = state.finishing /\ s.needDrain = state.needDrain
    BY <1>2, <1>5, <1>10 DEF States
  <2> HIDE DEF s
  <2>3. inflight = {}
    BY <1>2, <1>10 DEF Sound, InFlight
  <2>4. Process(s, inflight, p, Pop) /\ Queue(buffer, p, Len(chunk), sunk, failed)
    BY <1>4, <1>5, <2>1
  <2>5. Lengths(s.length, chunk, done) /\ (s.finishing => s.ending \/ s.ended)
    BY <1>2, <2>2
  <2>6. /\ Sound(state', buffer', chunk, inflight', stack', sunk', done, failed)
        /\ state'.finishing = s.finishing /\ state'.needDrain = s.needDrain
    BY <1>2, <1>3, <1>5, <1>8, <2>2, <2>3, <2>4, <2>5, ProcessKeeps
  <2> QED BY <1>1, <1>2, <1>8, <2>2, <2>6 DEF IInv, Drain
<1> QED BY <1>9, <1>10

LEMMA TickRuns ==
  ASSUME IInv, RunTick
  PROVE  IInv'
<1>1. /\ stack = <<>> /\ ticks # <<>> /\ ticks' = Tail(ticks) /\ buffer' = buffer /\ chunk' = chunk
      /\ inflight' = inflight /\ sunk' = sunk /\ done' = done /\ failed' = failed
  BY DEF RunTick, AtBase
<1>2. /\ Sound(state, buffer, chunk, inflight, stack, sunk, done, failed) /\ ticks \in Seq(Ticks)
      /\ state \in States /\ (state.finishing => state.ending \/ state.ended)
      /\ Drain(state, chunk, done, ticks, stack)
  BY DEF IInv, Sound
<1>3. ~Holds(stack, "cb")
  BY <1>1 DEF Holds
<1>4. /\ ticks' \in Seq(Ticks)
      /\ Promised(ticks) => Promised(ticks') \/ Head(ticks) = "drain"
  <2>1. PICK n \in Nat : n = Len(ticks) /\ n # 0
    BY <1>1, <1>2, SequenceFacts
  <2>2. /\ Tail(ticks) \in Seq(Ticks) /\ Len(Tail(ticks)) = n - 1
        /\ \A i \in 1..(n - 1) : Tail(ticks)[i] = ticks[i + 1]
        /\ Head(ticks) = ticks[1]
    BY <1>1, <1>2, <2>1, HeadTailProperties
  <2>3. ASSUME NEW k \in 1..n, ticks[k] = "drain", k # 1 PROVE Promised(ticks')
    <3>1. k - 1 \in 1..(n - 1) /\ (k - 1) + 1 = k
      BY <2>3
    <3>2. Tail(ticks)[k - 1] = "drain"
      BY <2>2, <2>3, <3>1
    <3> QED BY <1>1, <2>2, <3>1, <3>2 DEF Promised
  <2> QED BY <1>1, <2>1, <2>2, <2>3 DEF Promised
<1>5. \/ /\ Head(ticks) = "cb" /\ state' = state /\ stack' = <<Frame("tick", 0, FALSE)>>
      \/ /\ Head(ticks) = "drain" /\ ~state.needDrain /\ state' = state /\ stack' = stack
      \/ /\ Head(ticks) = "drain" /\ state' = [state EXCEPT !.needDrain = FALSE]
         /\ stack' = <<Frame("drain", 0, FALSE)>>
  BY DEF RunTick
<1>6. ASSUME NEW k \in {"tick", "drain"}, stack' = <<Frame(k, 0, FALSE)>>
      PROVE  Sound(state, buffer, chunk, inflight, stack', sunk, done, failed)
  <2>1. Frame(k, 0, FALSE) \in Frames /\ Frame(k, 0, FALSE).k = k
    BY FrameFacts DEF UserFrames, ImplFrames
  <2>2. <<Frame(k, 0, FALSE)>> = Append(<<>>, Frame(k, 0, FALSE))
    OBVIOUS
  <2>3. stack' = Append(stack, Frame(k, 0, FALSE))
    BY <1>1, <1>6, <2>2
  <2> QED BY <1>2, <1>3, <2>1, <2>3, SoundPush
<1>7. CASE Head(ticks) = "cb" /\ state' = state /\ stack' = <<Frame("tick", 0, FALSE)>>
  <2>1. Sound(state', buffer, chunk, inflight, stack', sunk, done, failed)
    BY <1>6, <1>7
  <2> QED BY <1>1, <1>2, <1>3, <1>4, <1>7, <2>1 DEF IInv, Drain
<1>8. CASE Head(ticks) = "drain" /\ ~state.needDrain /\ state' = state /\ stack' = stack
  BY <1>1, <1>2, <1>4, <1>8 DEF IInv, Drain
<1>9. CASE /\ Head(ticks) = "drain" /\ state' = [state EXCEPT !.needDrain = FALSE]
           /\ stack' = <<Frame("drain", 0, FALSE)>>
  <2>1. Sound(state, buffer, chunk, inflight, stack', sunk, done, failed)
    BY <1>6, <1>9
  <2>2. /\ state' \in States /\ state'.bufferProcessing = state.bufferProcessing /\ state'.writing = state.writing
        /\ state'.writelen = state.writelen /\ state'.writecb = state.writecb /\ state'.length = state.length
        /\ state'.ending = state.ending /\ state'.ended = state.ended
        /\ state'.finishing = state.finishing /\ ~state'.needDrain
    BY <1>2, <1>9 DEF States
  <2>3. Sound(state', buffer, chunk, inflight, stack', sunk, done, failed)
    BY <1>2, <2>1, <2>2, SoundFlags
  <2> QED BY <1>1, <1>4, <2>2, <2>3 DEF IInv, Drain
<1> QED BY <1>5, <1>7, <1>8, <1>9
-----------------------------------------------------------------------------
LEMMA InitIInv ==
  ASSUME Init
  PROVE  IInv
<1>1. /\ buffer = <<>> /\ chunk = <<>> /\ inflight = {} /\ ticks = <<>> /\ stack = <<>> /\ sunk = <<>>
      /\ done = {} /\ failed = {}
  BY DEF Init
<1>2. /\ state \in States /\ state.length = 0 /\ ~state.writing /\ state.bufferProcessing = FALSE
      /\ ~state.needDrain /\ ~state.finishing
  BY DEF Init, States, NoChunk
<1>3. /\ buffer \in Seq(Nat) /\ chunk \in Seq(Chunk) /\ stack \in Seq(Frames) /\ sunk \in Seq(Nat)
      /\ ticks \in Seq(Ticks)
      /\ Len(buffer) = 0 /\ Len(chunk) = 0 /\ Len(sunk) = 0 /\ Len(stack) = 0
  BY <1>1
<1>4. 1..0 = {}
  OBVIOUS
<1>5. Placed(state.bufferProcessing, stack, buffer, Len(chunk), sunk, failed)
  <2>1. Queue(buffer, 0, 0, sunk, failed)
    <3>1. 0 <= 0 /\ 0 + 1 = 1
      OBVIOUS
    <3> QED BY <1>3, <1>4, <3>1 DEF Queue
  <2>2. Loop(stack, FALSE, 0)
    BY <1>3, <1>4 DEF Loop, Holds
  <2> QED BY <1>2, <1>3, <2>1, <2>2 DEF Placed
<1>6. CbAlone(stack, buffer, state.writing)
  BY <1>1 DEF CbAlone
<1>7. InFlight(state, inflight, chunk, sunk) /\ Ledger(inflight, sunk, done, failed)
  BY <1>1, <1>2, <1>3, <1>4 DEF InFlight, Ledger, Given
<1>8. Lengths(state.length, chunk, done)
  <2> DEFINE g == [c \in 0..0 |-> 0]
  <2>1. g \in [0..0 -> Int] /\ g[0] = 0
    OBVIOUS
  <2>2. Sums(g, 0, chunk, done)
    BY <1>4, <2>1 DEF Sums
  <2> HIDE DEF g
  <2> QED BY <1>2, <1>3, <2>1, <2>2 DEF Lengths
<1>9. Sound(state, buffer, chunk, inflight, stack, sunk, done, failed)
  BY <1>2, <1>3, <1>4, <1>5, <1>6, <1>7, <1>8 DEF Sound
<1> QED BY <1>2, <1>3, <1>9 DEF IInv, Drain

LEMMA NextIInv ==
  ASSUME Reentrant = FALSE, IInv, Attended, [Next]_vars
  PROVE  IInv'
<1>1. CASE write
  BY <1>1, Writes
<1>2. CASE writeAfterEnd
  BY <1>2, WriteAfterEnd
<1>3. CASE endChunk
  BY <1>3, Writes
<1>4. CASE end
  BY <1>4, Ends
<1>5. CASE \E c \in 1..MaxChunks : onwrite(c) \/ onwriteError(c)
  BY <1>5, Onwrite, OnwriteError
<1>6. CASE CbReturns
  BY <1>6, CbReturn
<1>7. CASE ErrCbReturns
  BY <1>7, ErrCbReturn
<1>8. CASE ListenerReturns \/ WriteReturns
  BY <1>8, OtherReturn
<1>9. CASE ProcReturns
  BY <1>9, ProcReturn
<1>10. CASE RunTick
  BY <1>10, TickRuns
<1>11. CASE UNCHANGED vars
  BY <1>11 DEF vars, IInv
<1> QED BY <1>1, <1>2, <1>3, <1>4, <1>5, <1>6, <1>7, <1>8, <1>9, <1>10, <1>11 DEF Next

LEMMA AfterCbAttends ==
  ASSUME NEW s, NEW fl, NEW tk \in Seq(Ticks), NEW below \in Seq(Frames), NEW dn,
         Sound(s, buffer, chunk, fl, below, sunk, dn, failed), Nested(below),
         AfterCb(s, fl, tk, below), ~state'.finishing
  PROVE  Nested(stack') /\ (buffer' # <<>> /\ ~state'.writing => Busy(stack'))
<1>0. /\ s \in States /\ s.bufferProcessing \in BOOLEAN /\ buffer \in Seq(Nat)
      /\ Placed(s.bufferProcessing, below, buffer, Len(chunk), sunk, failed)
  BY DEF Sound, States
<1>a. s.bufferProcessing <=> Holds(below, "proc")
  BY <1>0 DEF Placed, Loop
<1>1. ~Finishes(s)
  <2>1. [s EXCEPT !.finishing = TRUE].finishing
    BY <1>0 DEF States
  <2> QED BY <2>1 DEF AfterCb
<1>2. IF MayProcess(s)
      THEN Process([s EXCEPT !.bufferProcessing = TRUE], fl, 0, below)
      ELSE state' = s /\ stack' = below /\ buffer' = buffer
  BY <1>1 DEF AfterCb
<1>3. CASE MayProcess(s)
  <2>1. ~Holds(below, "proc") /\ buffer # <<>>
    BY <1>a, <1>3 DEF MayProcess
  <2>2. 0 < Len(buffer)
    BY <1>0, <2>1, SequenceFacts
  <2> DEFINE t == [s EXCEPT !.bufferProcessing = TRUE]
  <2>3. PICK x, d : state' = Writing(t, x, d)
    BY <1>2, <1>3, <2>2 DEF Process
  <2>4. stack' = Append(below, Frame("proc", 0, FALSE))
    BY <1>2, <1>3, <2>2 DEF Process
  <2>5. t \in States
    BY <1>0 DEF States
  <2> HIDE DEF t
  <2>6. state'.writing
    BY <2>3, <2>5 DEF Writing, States
  <2>7. Frame("proc", 0, FALSE) \in Frames
    BY FrameFacts DEF ImplFrames
  <2> QED BY <2>1, <2>4, <2>6, <2>7, NestedPush
<1>4. CASE ~MayProcess(s)
  <2>1. state' = s /\ stack' = below /\ buffer' = buffer
    BY <1>2, <1>4
  <2>2. ASSUME buffer # <<>> PROVE Busy(below)
    <3>1. Holds(below, "proc")
      BY <1>a, <1>4, <2>2 DEF MayProcess
    <3>2. below # <<>>
      BY <3>1 DEF Holds
    <3> QED BY <3>1, <3>2, NestedPop
  <2> QED BY <2>1, <2>2
<1> QED BY <1>3, <1>4

\* Whatever happens, chunks wait only for one being written or for onwrite, until one fails.
LEMMA NextAttended ==
  ASSUME Reentrant = FALSE, IInv, Attended, [Next]_vars
  PROVE  Attended'
<1> SUFFICES ASSUME failed' = {}, ~state'.finishing
             PROVE  Nested(stack') /\ (buffer' # <<>> /\ ~state'.writing => Busy(stack'))
  BY DEF Attended, Nested, Busy, Holds
<1>1. /\ Sound(state, buffer, chunk, inflight, stack, sunk, done, failed) /\ ticks \in Seq(Ticks)
      /\ state \in States /\ stack \in Seq(Frames) /\ buffer \in Seq(Nat)
      /\ state.writing \in BOOLEAN
  BY DEF IInv, Sound, States
<1>2. ASSUME failed = {}, ~state.finishing
      PROVE  Nested(stack) /\ (buffer # <<>> /\ ~state.writing => Busy(stack))
  BY <1>2 DEF Attended
<1>3. ASSUME failed' = failed, state'.finishing = state.finishing, buffer' = buffer,
             state'.writing = state.writing, stack = <<>>,
             NEW f \in Frames, stack' = <<f>>
      PROVE  Nested(stack') /\ (buffer' # <<>> /\ ~state'.writing => Busy(stack'))
  <2>1. ~Holds(stack, "proc") /\ ~Busy(stack)
    BY <1>3 DEF Holds, Busy
  <2>2. stack' = Append(stack, f)
    <3>1. <<f>> = Append(<<>>, f)
      OBVIOUS
    <3> QED BY <1>3, <3>1
  <2>3. failed = {} /\ ~state.finishing
    BY <1>3
  <2> QED BY <1>1, <1>2, <1>3, <2>1, <2>2, <2>3, NestedPush
<1>4. CASE write \/ endChunk
  <2>1. Settled /\ InUserCode /\ ~state.ended /\ failed' = failed
    BY <1>4 DEF write, endChunk, MayWrite, mayAccept, Settled
  <2>2. failed = {} /\ ~state.finishing /\ ~Holds(stack, "proc") /\ Nested(stack)
    BY <1>2, <2>1, WriteFinds
  <2>3. PICK s \in {state, [state EXCEPT !.ending = TRUE]}, d \in Chunk, byEnd \in BOOLEAN : Write(s, d, byEnd)
    <3>1. CASE write
      <4>1. PICK l \in Sizes, b \in Callbacks : Write(state, [len |-> l, cb |-> b], FALSE)
        BY <3>1 DEF write
      <4>2. [len |-> l, cb |-> b] \in Chunk
        BY UserAssumption DEF Chunk
      <4> QED BY <4>1, <4>2
    <3>2. CASE endChunk
      <4>1. PICK l \in Sizes : Write([state EXCEPT !.ending = TRUE], [len |-> l, cb |-> FALSE], TRUE)
        BY <3>2 DEF endChunk
      <4>2. [len |-> l, cb |-> FALSE] \in Chunk
        BY DEF Chunk
      <4> QED BY <4>1, <4>2
    <3> QED BY <1>4, <3>1, <3>2
  <2>4. s \in States
    BY <1>1, <2>3 DEF States
  <2> DEFINE t == Counted(s, d.len)
  <2>5. t \in States
    <3>1. d.len \in Nat
      BY <2>3, SizeAssumption DEF Chunk
    <3>2. s.length + d.len \in Nat
      BY <2>4, <3>1 DEF States
    <3> QED BY <2>4, <3>2 DEF Counted, States
  <2>6. \/ t.writing /\ state' = [t EXCEPT !.ended = byEnd] /\ stack' = stack
        \/ \E x : state' = Writing(t, x, d) /\ stack' = Append(stack, Frame("write", 0, byEnd))
    BY <2>3 DEF Write, MustQueue
  <2> HIDE DEF t
  <2>7. state'.writing
    BY <2>5, <2>6 DEF States, Writing
  <2>8. Frame("write", 0, byEnd) \in Frames
    BY FrameFacts DEF ImplFrames
  <2>9. Nested(stack')
    BY <1>1, <2>2, <2>6, <2>8, NestedPush
  <2> QED BY <2>7, <2>9
<1>5. CASE writeAfterEnd
  <2>1. PICK b \in Callbacks : stack' = <<Frame(IF b THEN "errCb" ELSE "error", 0, FALSE)>>
    BY <1>5 DEF writeAfterEnd
  <2>2. Frame("errCb", 0, FALSE) \in Frames /\ Frame("error", 0, FALSE) \in Frames
    BY FrameFacts DEF UserFrames, ImplFrames
  <2>3. PICK f \in Frames : stack' = <<f>>
    <3>1. CASE b
      BY <2>1, <2>2, <3>1
    <3>2. CASE ~b
      BY <2>1, <2>2, <3>2
    <3> QED BY <3>1, <3>2
  <2>4. failed' = failed /\ state' = state /\ buffer' = buffer /\ stack = <<>>
    BY <1>5 DEF writeAfterEnd, AtBase
  <2> QED BY <1>3, <2>3, <2>4
<1>6. CASE end
  <2>1. failed' = failed /\ buffer' = buffer
    BY <1>6 DEF end
  <2>2. ~NothingLeft
    <3>1. [state EXCEPT !.ending = TRUE, !.finishing = TRUE].finishing
      BY <1>1 DEF States
    <3> QED BY <1>6, <3>1 DEF end
  <2>3. state' = [state EXCEPT !.ending = TRUE, !.ended = TRUE] /\ stack' = stack
    BY <1>6, <2>2 DEF end
  <2>4. state'.finishing = state.finishing /\ state'.writing = state.writing
    BY <1>1, <2>3 DEF States
  <2> QED BY <1>2, <2>1, <2>3, <2>4
<1>7. ASSUME NEW c, onwrite(c) PROVE Nested(stack') /\ (buffer' # <<>> /\ ~state'.writing => Busy(stack'))
  <2> DEFINE s == Released(state)
             left == inflight \ {c}
             dn == done \cup {c}
  <2>1. MayComplete(c) /\ failed' = failed
    BY <1>7 DEF onwrite
  <2>2. ~s.writing /\ Sound(s, buffer, chunk, left, stack, sunk, dn, failed)
    BY <2>1, Releases
  <2>3. s.finishing = state.finishing
    BY <1>1 DEF Released, Reset, States
  <2>4. buffer # <<>> => ~Holds(stack, "cb")
    BY <2>1, Completes
  <2>5. Append(ticks, "cb") \in Seq(Ticks)
    <3>1. "cb" \in Ticks
      BY DEF Ticks
    <3> QED BY <1>1, <3>1, PromisedAppend
  <2>6. \/ AfterCb(s, left, ticks, stack)
        \/ AfterCb(s, left, Append(ticks, "cb"), stack)
        \/ state' = s /\ stack' = Append(stack, Frame("cb", 0, FALSE))
    BY <1>7 DEF onwrite
  <2> HIDE DEF s, left, dn
  <2>7. CASE state' = s /\ stack' = Append(stack, Frame("cb", 0, FALSE))
    <3>1. failed = {} /\ ~state.finishing
      BY <2>1, <2>3, <2>7
    <3>2. Frame("cb", 0, FALSE) \in Frames /\ Frame("cb", 0, FALSE).k = "cb"
      BY FrameFacts DEF UserFrames
    <3> QED BY <1>1, <1>2, <2>7, <3>1, <3>2, PushFacts, NestedPush DEF Busy
  <2>8. ASSUME NEW tk \in Seq(Ticks), AfterCb(s, left, tk, stack)
        PROVE  Nested(stack') /\ (buffer' # <<>> /\ ~state'.writing => Busy(stack'))
    <3>1. s.finishing => state'.finishing
      BY <1>1, <2>2, <2>4, <2>8, AfterCbKeeps
    <3>2. Nested(stack)
      BY <1>2, <2>1, <2>3, <3>1
    <3> QED BY <1>1, <2>2, <2>8, <3>2, AfterCbAttends
  <2> QED BY <1>1, <2>5, <2>6, <2>7, <2>8
<1>8. CASE \E c \in 1..MaxChunks : onwriteError(c)
  BY <1>8 DEF onwriteError
<1>9. CASE CbReturns
  <2>1. /\ stack # <<>> /\ Top.k = "cb" /\ AfterCb(state, inflight, ticks, Pop) /\ failed' = failed
    BY <1>9 DEF CbReturns, At, AtBase
  <2>2. Pop \in Seq(Frames) /\ Pop = Below(stack) /\ Sound(state, buffer, chunk, inflight, Pop, sunk, done, failed)
    BY <1>1, <2>1, TopFacts, SoundPop
  <2>3. (state.writing => buffer = <<>>) /\ (buffer # <<>> => ~Holds(Pop, "cb"))
    BY <2>1, TopFacts
  <2>4. state.finishing => state'.finishing
    BY <1>1, <2>1, <2>2, <2>3, AfterCbKeeps
  <2>5. Nested(Pop)
    BY <1>1, <1>2, <2>1, <2>2, <2>4, NestedPop
  <2> QED BY <1>1, <2>1, <2>2, <2>5, AfterCbAttends
<1>10. CASE ErrCbReturns
  <2>1. /\ stack # <<>> /\ Top.k = "errCb" /\ stack' = Append(Pop, Frame("error", 0, FALSE))
        /\ state' = state /\ buffer' = buffer /\ failed' = failed
    BY <1>10 DEF ErrCbReturns, At, AtBase
  <2>2. /\ Pop \in Seq(Frames) /\ Pop = Below(stack) /\ Top = stack[Len(stack)]
        /\ (Holds(stack, "cb") => Holds(Pop, "cb"))
    BY <2>1, TopFacts
  <2>3. Frame("error", 0, FALSE) \in Frames
    BY FrameFacts DEF UserFrames, ImplFrames
  <2>4. Nested(Pop) /\ ~Holds(Pop, "proc")
    BY <1>1, <1>2, <2>1, <2>2, NestedPop
  <2>5. Busy(stack) => Busy(stack')
    BY <2>1, <2>2, <2>3, PushFacts DEF Busy
  <2> QED BY <1>2, <2>1, <2>2, <2>3, <2>4, <2>5, NestedPush
<1>11. CASE ListenerReturns \/ WriteReturns
  <2>1. /\ stack # <<>> /\ Top.k \notin {"proc", "cb"} /\ stack' = Pop /\ buffer' = buffer /\ failed' = failed
    BY <1>11 DEF ListenerReturns, WriteReturns, At, AtBase, UserFrames
  <2>2. state'.finishing = state.finishing /\ state'.writing = state.writing
    BY <1>1, <1>11 DEF ListenerReturns, WriteReturns, States
  <2>3. /\ Pop = Below(stack) /\ Top = stack[Len(stack)] /\ (Holds(stack, "cb") => Holds(Pop, "cb"))
    BY <2>1, TopFacts
  <2>4. Nested(Pop)
    BY <1>1, <1>2, <2>1, <2>2, <2>3, NestedPop
  <2>5. Busy(stack) => Busy(stack')
    BY <2>1, <2>3 DEF Busy
  <2> QED BY <1>2, <2>1, <2>2, <2>4, <2>5
<1>12. CASE ProcReturns
  <2>1. stack # <<>> /\ Top.k = "proc" /\ failed' = failed
    BY <1>12 DEF ProcReturns, At, AtBase
  <2>2. Pop = Below(stack) /\ Top = stack[Len(stack)] /\ Pop \in Seq(Frames) /\ Top.c \in Nat
    BY <2>1, TopFacts DEF Frames
  <2>3. CASE state.writing
    <3>1. state' = [state EXCEPT !.sync = FALSE, !.bufferProcessing = FALSE] /\ stack' = Pop
      BY <1>12, <2>3 DEF ProcReturns
    <3>2. state'.writing = state.writing /\ state'.finishing = state.finishing
      BY <1>1, <3>1 DEF States
    <3> QED BY <1>1, <1>2, <2>1, <2>2, <2>3, <3>1, <3>2, NestedPop
  <2>4. CASE ~state.writing
    <3> DEFINE s == [state EXCEPT !.sync = FALSE]
    <3>1. Process(s, inflight, Top.c + 1, Pop)
      BY <1>12, <2>4 DEF ProcReturns
    <3>2. s \in States /\ s.finishing = state.finishing
      BY <1>1 DEF States
    <3> HIDE DEF s
    <3>3. CASE Top.c + 1 < Len(buffer)
      <4>1. PICK x, d : state' = Writing(s, x, d)
        BY <3>1, <3>3 DEF Process
      <4>2. stack' = Append(Pop, Frame("proc", Top.c + 1, FALSE))
        BY <3>1, <3>3 DEF Process
      <4>3. state'.writing /\ state'.finishing = state.finishing
        BY <3>2, <4>1 DEF Writing, States
      <4>4. Frame("proc", Top.c + 1, FALSE) \in Frames
        BY <2>2 DEF Frame, Frames, ImplFrames
      <4>5. Nested(Pop) /\ ~Holds(Pop, "proc")
        BY <1>1, <1>2, <2>1, <2>2, <4>3, NestedPop
      <4> QED BY <2>2, <4>2, <4>3, <4>4, <4>5, NestedPush
    <3>4. CASE ~(Top.c + 1 < Len(buffer))
      <4>1. state' = [s EXCEPT !.bufferProcessing = FALSE] /\ stack' = Pop /\ buffer' = <<>>
        BY <3>1, <3>4 DEF Process
      <4>2. state'.finishing = state.finishing
        BY <3>2, <4>1 DEF States
      <4> QED BY <1>1, <1>2, <2>1, <2>2, <4>1, <4>2, NestedPop
    <3> QED BY <3>3, <3>4
  <2> QED BY <2>3, <2>4
<1>13. CASE RunTick
  <2>1. failed' = failed /\ buffer' = buffer /\ stack = <<>>
    BY <1>13 DEF RunTick, AtBase
  <2>2. Frame("tick", 0, FALSE) \in Frames /\ Frame("drain", 0, FALSE) \in Frames
    BY FrameFacts DEF UserFrames, ImplFrames
  <2>3. state'.finishing = state.finishing /\ state'.writing = state.writing
    BY <1>1, <1>13 DEF RunTick, States
  <2>4. stack' = stack \/ \E f \in Frames : stack' = <<f>>
    BY <1>13, <2>2 DEF RunTick
  <2> QED BY <1>2, <1>3, <2>1, <2>3, <2>4
<1>14. CASE UNCHANGED vars
  BY <1>2, <1>14 DEF vars
<1> QED BY <1>4, <1>5, <1>6, <1>7, <1>8, <1>9, <1>10, <1>11, <1>12, <1>13, <1>14 DEF Next

LEMMA Invariance ==
  ASSUME Reentrant = FALSE
  PROVE  Spec => [](IInv /\ Attended)
<1>1. Init => IInv /\ Attended
  <2>1. Init => Attended
    BY DEF Init, Attended, Nested
  <2> QED BY <2>1, InitIInv
<1>2. IInv /\ Attended /\ [Next]_vars => IInv' /\ Attended'
  BY NextIInv, NextAttended
<1> QED BY <1>1, <1>2, PTL DEF Spec

(***************************************************************************)
(* Reentrant = FALSE leaves out two things that do break the order (see    *)
(* the README): a write callback that onwrite runs and that writes while   *)
(* chunks wait or one is being written, and writes while end() is half way *)
(* through.  User code off the event loop, in listeners, in deferred       *)
(* callbacks and after errors writes whenever it likes.                    *)
(***************************************************************************)

\* Chunks reach _write once, one at a time and in the order of the write() calls, but for
\* those that a chunk written after an error overtakes; onwrite finds the callback and the
\* length of the chunk it is about.
THEOREM InWrittenOrder ==
  ASSUME Reentrant = FALSE
  PROVE  Spec => []WrittenInOrder
<1>1. IInv => WrittenInOrder
  <2> SUFFICES ASSUME IInv PROVE InOrder /\ OneAtATime
    BY DEF WrittenInOrder
  <2>1. Sound(state, buffer, chunk, inflight, stack, sunk, done, failed)
    BY DEF IInv
  <2>2. InOrder
    <3>1. \A j, k \in 1..Len(sunk) : j < k => sunk[j] # sunk[k] /\ (sunk[j] < sunk[k] \/ Excused(sunk, failed, j))
      BY <2>1 DEF Sound, Placed, Queue
    <3> QED BY <3>1 DEF InOrder, Excused
  <2>3. CASE state.writing
    <3>1. /\ inflight = {Newest(sunk)} /\ state.writelen = chunk[Newest(sunk)].len
          /\ state.writecb = writecb(Newest(sunk), chunk[Newest(sunk)])
      BY <2>1, <2>3 DEF Sound, InFlight
    <3>2. Cardinality(inflight) = 1
      BY <3>1, FS_Singleton
    <3> QED BY <2>2, <2>3, <3>1, <3>2 DEF OneAtATime
  <2>4. CASE ~state.writing
    <3>1. inflight = {}
      BY <2>1, <2>4 DEF Sound, InFlight
    <3>2. Cardinality(inflight) = 0
      BY <3>1, FS_EmptySet
    <3> QED BY <2>2, <3>1, <3>2 DEF OneAtATime
  <2> QED BY <2>3, <2>4
<1> QED BY <1>1, Invariance, PTL

\* The part of Accounted that holds for empty chunks too.
LEMMA AccountedButFinish ==
  ASSUME IInv
  PROVE  TypeOK /\ LengthExact /\ DrainPromised
<1>1. Sound(state, buffer, chunk, inflight, stack, sunk, done, failed)
  BY DEF IInv
<1>2. TypeOK
  <2>1. inflight \subseteq Chunks /\ done \subseteq Chunks /\ failed \subseteq Chunks
    BY <1>1, Counts DEF Chunks
  <2> QED BY <1>1, <2>1 DEF IInv, Sound, TypeOK, States, Chunk, Frames, Ticks
<1>3. LengthExact
  <2>1. PICK n \in Nat : n = Len(chunk)
    BY <1>1, Counts
  <2>2. PICK g : Sums(g, n, chunk, done) /\ g[n] = state.length
    BY <1>1, <2>1 DEF Sound, Lengths
  <2> QED BY <2>1, <2>2, SumsAreUnwritten DEF LengthExact
<1>4. ASSUME AtBase, state.needDrain, inflight = {}, buffer = <<>>, failed = {}
      PROVE  state.finishing \/ \E k \in 1..Len(ticks) : ticks[k] = "drain"
  <2>1. done = Given(sunk)
    BY <1>1, <1>4 DEF Sound, Ledger
  <2>2. PICK p \in Nat : Queue(buffer, p, Len(chunk), sunk, failed)
    BY <1>1 DEF Sound, Placed
  <2>3. Len(buffer) = 0 /\ (p + 1)..0 = {}
    BY <1>4
  <2>5. 1..Len(chunk) \subseteq done
    BY <2>1, <2>2, <2>3 DEF Queue, Given
  <2>6. ~Holds(stack, "cb")
    BY <1>4 DEF AtBase, Holds
  <2> QED BY <1>4, <2>5, <2>6 DEF IInv, Drain, Promised
<1> QED BY <1>2, <1>3, <1>4 DEF DrainPromised
-----------------------------------------------------------------------------
(***************************************************************************)
(* 'finish' also follows the last chunk if no chunk is empty: onwrite      *)
(* takes a length of 0 for an empty queue, and an empty chunk adds nothing *)
(* to it.                                                                  *)
(***************************************************************************)
Finish(s, ch, dn) == s.finishing => 1..Len(ch) \subseteq dn

LEMMA FinishStep ==
  ASSUME Reentrant = FALSE, 0 \notin Sizes, IInv, Attended, Finish(state, chunk, done), [Next]_vars
  PROVE  Finish(state', chunk', done')
<1>1. /\ Sound(state, buffer, chunk, inflight, stack, sunk, done, failed) /\ ticks \in Seq(Ticks)
      /\ state \in States /\ (state.finishing => state.ending \/ state.ended)
  BY DEF IInv, Sound
<1>2. ASSUME NEW t, t.finishing => state.finishing \/ 1..Len(chunk) \subseteq done',
             chunk' = chunk, done \subseteq done'
      PROVE  Finish(t, chunk', done')
  BY <1>2 DEF Finish
<1>3. CASE write \/ endChunk
  <2>1. Settled /\ InUserCode /\ ~state.ended
    BY <1>3 DEF write, endChunk, MayWrite, mayAccept, Settled
  <2>2. ~state.finishing /\ (buffer # <<>> /\ ~state.writing => failed # {})
    BY <2>1, WriteFinds
  <2>3. CASE write
    <3>1. PICK l \in Sizes, b \in Callbacks : Write(state, [len |-> l, cb |-> b], FALSE)
      BY <2>3 DEF write
    <3>2. [len |-> l, cb |-> b] \in Chunk
      BY UserAssumption DEF Chunk
    <3>3. state'.finishing = state.finishing
      BY <1>1, <2>1, <2>2, <3>1, <3>2, WriteKeeps
    <3> QED BY <2>2, <3>3 DEF Finish
  <2>4. CASE endChunk
    <3> DEFINE s == [state EXCEPT !.ending = TRUE]
    <3>1. PICK l \in Sizes : Write(s, [len |-> l, cb |-> FALSE], TRUE)
      BY <2>4 DEF endChunk
    <3>2. [len |-> l, cb |-> FALSE] \in Chunk
      BY DEF Chunk
    <3>3. /\ s \in States /\ s.bufferProcessing = state.bufferProcessing /\ s.writing = state.writing
          /\ s.writelen = state.writelen /\ s.writecb = state.writecb /\ s.length = state.length /\ s.ending
          /\ s.finishing = state.finishing
      BY <1>1 DEF States
    <3> HIDE DEF s
    <3>4. Sound(s, buffer, chunk, inflight, stack, sunk, done, failed)
      BY <1>1, <3>3, SoundFlags
    <3>5. state'.finishing = s.finishing
      BY <1>1, <2>1, <2>2, <3>1, <3>2, <3>3, <3>4, WriteKeeps
    <3> QED BY <2>2, <3>3, <3>5 DEF Finish
  <2> QED BY <1>3, <2>3, <2>4
<1>4. CASE end
  <2>1. chunk' = chunk /\ done' = done
    BY <1>4 DEF end
  <2>2. state'.finishing => state.finishing \/ NothingLeft
    BY <1>1, <1>4 DEF end, States
  <2>3. NothingLeft => 1..Len(chunk) \subseteq done
    BY <1>1, LengthFacts DEF NothingLeft
  <2> QED BY <1>2, <2>1, <2>2, <2>3
<1>5. ASSUME NEW c, onwrite(c) PROVE Finish(state', chunk', done')
  <2> DEFINE s == Released(state)
             left == inflight \ {c}
             dn == done \cup {c}
  <2>1. MayComplete(c) /\ done' = dn /\ chunk' = chunk /\ done \subseteq done'
    BY <1>5 DEF onwrite
  <2>2. ~s.writing /\ Sound(s, buffer, chunk, left, stack, sunk, dn, failed)
    BY <2>1, Releases
  <2>3. s.finishing = state.finishing
    BY <1>1 DEF Released, Reset, States
  <2>4. buffer # <<>> => ~Holds(stack, "cb")
    BY <2>1, Completes
  <2>5. Append(ticks, "cb") \in Seq(Ticks)
    <3>1. "cb" \in Ticks
      BY DEF Ticks
    <3> QED BY <1>1, <3>1, PromisedAppend
  <2>6. \/ AfterCb(s, left, ticks, stack)
        \/ AfterCb(s, left, Append(ticks, "cb"), stack)
        \/ state' = s
    BY <1>5 DEF onwrite
  <2> HIDE DEF s, left, dn
  <2>7. state'.finishing => s.finishing \/ s.length = 0
    BY <1>1, <2>2, <2>4, <2>5, <2>6, AfterCbKeeps
  <2>8. s.length = 0 => 1..Len(chunk) \subseteq dn
    BY <2>2, LengthFacts
  <2> QED BY <1>2, <2>1, <2>3, <2>7, <2>8
<1>6. CASE CbReturns
  <2>1. /\ stack # <<>> /\ Top.k = "cb" /\ AfterCb(state, inflight, ticks, Pop)
        /\ chunk' = chunk /\ done' = done
    BY <1>6 DEF CbReturns, At, AtBase
  <2>2. Sound(state, buffer, chunk, inflight, Pop, sunk, done, failed)
    BY <1>1, <2>1, TopFacts, SoundPop
  <2>3. (state.writing => buffer = <<>>) /\ (buffer # <<>> => ~Holds(Pop, "cb"))
    BY <2>1, TopFacts
  <2>4. state'.finishing => state.finishing \/ state.length = 0
    BY <1>1, <2>1, <2>2, <2>3, AfterCbKeeps
  <2>5. state.length = 0 => 1..Len(chunk) \subseteq done
    BY <1>1, LengthFacts
  <2> QED BY <1>2, <2>1, <2>4, <2>5
<1>7. ASSUME \/ writeAfterEnd \/ (\E c \in 1..MaxChunks : onwriteError(c)) \/ ErrCbReturns \/ ListenerReturns
             \/ WriteReturns \/ ProcReturns \/ RunTick \/ UNCHANGED vars
      PROVE  Finish(state', chunk', done')
  <2>1. chunk' = chunk /\ done' = done
    BY <1>7 DEF writeAfterEnd, onwriteError, ErrCbReturns, ListenerReturns, WriteReturns, ProcReturns, RunTick, vars
  <2>2. CASE ProcReturns
    <3>1. CASE state.writing
      <4>1. state' = [state EXCEPT !.sync = FALSE, !.bufferProcessing = FALSE]
        BY <2>2, <3>1 DEF ProcReturns
      <4>2. state'.finishing = state.finishing
        BY <1>1, <4>1 DEF States
      <4> QED BY <1>2, <2>1, <4>2
    <3>2. CASE ~state.writing
      <4> DEFINE s == [state EXCEPT !.sync = FALSE]
      <4>1. Process(s, inflight, Top.c + 1, Pop)
        BY <2>2, <3>2 DEF ProcReturns
      <4>2. s.finishing = state.finishing /\ s \in States
        BY <1>1 DEF States
      <4> HIDE DEF s
      <4>3. CASE Top.c + 1 < Len(buffer)
        <5>1. PICK x, d : state' = Writing(s, x, d)
          BY <4>1, <4>3 DEF Process
        <5>2. state'.finishing = s.finishing
          BY <4>2, <5>1 DEF Writing, States
        <5> QED BY <1>2, <2>1, <4>2, <5>2
      <4>4. CASE ~(Top.c + 1 < Len(buffer))
        <5>1. state' = [s EXCEPT !.bufferProcessing = FALSE]
          BY <4>1, <4>4 DEF Process
        <5>2. state'.finishing = s.finishing
          BY <4>2, <5>1 DEF States
        <5> QED BY <1>2, <2>1, <4>2, <5>2
      <4> QED BY <4>3, <4>4
    <3> QED BY <3>1, <3>2
  <2>3. CASE ~ProcReturns
    <3>1. state'.finishing = state.finishing
      BY <1>1, <1>7, <2>3 DEF writeAfterEnd, onwriteError, Reset, ErrCbReturns, ListenerReturns, WriteReturns,
                              RunTick, vars, States
    <3> QED BY <1>2, <2>1, <3>1
  <2> QED BY <2>2, <2>3
<1> QED BY <1>3, <1>4, <1>5, <1>6, <1>7 DEF Next

\* The length is that of the chunks not yet written, 'finish' comes after the last of them
\* and 'drain' is on its way to a writer that waits for it.
THEOREM LengthAccounted ==
  ASSUME Reentrant = FALSE, 0 \notin Sizes
  PROVE  Spec => []Accounted
<1>1. Init => Finish(state, chunk, done)
  BY DEF Init, Finish
<1>2. IInv /\ Attended /\ Finish(state, chunk, done) /\ [Next]_vars => Finish(state, chunk, done)'
  <2> SUFFICES ASSUME IInv, Attended, Finish(state, chunk, done), [Next]_vars PROVE Finish(state', chunk', done')
    BY DEF Finish
  <2> QED BY FinishStep
<1>3. IInv /\ Finish(state, chunk, done) => Accounted
  BY AccountedButFinish DEF Accounted, FinishLast, Finish, Chunks
<1>4. Spec => [](IInv /\ Attended)
  BY Invariance
<1> QED BY <1>1, <1>2, <1>3, <1>4, PTL DEF Spec
=============================================================================
