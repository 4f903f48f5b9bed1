--------------------------- MODULE GypInputProofs ---------------------------
(***************************************************************************)
(* Loading build files, for any files, dependencies and command line, any  *)
(* order of the workers' answers and any workers that crash: the           *)
(* bookkeeping of ParallelState is sound, and both ways of loading         *)
(* implement GypClosure.                                                   *)
(*                                                                         *)
(* The invariant follows each scheduled file: it waits in `dependencies`,  *)
(* is with a worker, or in an answer, in one of the three only, until it   *)
(* is in the data; what is wanted and not loaded is always somewhere.      *)
(*                                                                         *)
(* Sorting what was loaded: FlattenToList lists dependencies first and     *)
(* leaves out nodes exactly if there is a cycle, for any graph.            *)
(***************************************************************************)
EXTENDS GypLoad, DependencyGraph, SequenceTheorems, FiniteSetTheorems, TLAPS

FilesOf(q) == {c.file : c \in ToSet(q)}
Distinct(s) == \A i, j \in DOMAIN s : s[i] = s[j] => i = j
Apart(q) == \A i, j \in DOMAIN q : q[i].file = q[j].file => i = j

Call == [file : Files, seen : SUBSET Files]
Answer == [file : Files, ok : BOOLEAN, deps : Seq(Files)]

Types ==
  /\ LoadInputOK
  /\ roots \in Seq(Files) /\ data \subseteq Files /\ stack \in Seq(Seq(Files))
  /\ pending \in Nat /\ scheduled \subseteq Files /\ dependencies \in Seq(Files) /\ error \in BOOLEAN
  /\ calls \in Seq(Call) /\ results \in Seq(Answer)
  /\ main \in {"next", "loop", "wait", "woken", "done", "failed", "exited"}
  /\ loads \in [Files -> Nat] /\ lost \in Nat /\ earlier \subseteq Files

\* The parallel loader is at rest between two files of the command line.
AtRest ==
  /\ calls = <<>> /\ results = <<>> /\ dependencies = <<>>
  /\ ~error /\ pending = 0 /\ lost = 0

Modes ==
  /\ main \in {"next", "done", "failed"} => AtRest
  /\ parallel => main # "failed" /\ stack = <<>>
  /\ ~parallel => main \in {"next", "done", "failed"}

\* A scheduled file is in one place only, and once there.
Tokens ==
  /\ Distinct(dependencies) /\ Apart(calls) /\ Apart(results)
  /\ ToSet(dependencies) \cap FilesOf(calls) = {}
  /\ ToSet(dependencies) \cap FilesOf(results) = {}
  /\ FilesOf(calls) \cap FilesOf(results) = {}
  /\ ToSet(dependencies) \cup FilesOf(calls) \cup FilesOf(results) \subseteq scheduled \ (data \ earlier)

\* A worker has seen what was loaded for earlier files of the command line; the rest of
\* the data was scheduled since.
Seen ==
  /\ earlier \subseteq data
  /\ parallel => data \subseteq earlier \cup scheduled
  /\ \A c \in ToSet(calls) : earlier \subseteq c.seen /\ c.seen \subseteq data

\* What an answer says of its file.
Answers ==
  \A r \in ToSet(results) :
    IF r.ok THEN r.deps = deps[r.file] ELSE r.file \in broken \cup earlier

\* A file that was read is in the data or on its way there.
Reads ==
  \A f \in Files : loads[f] = 0 \/ (loads[f] = 1 /\ (f \in data \/ \E r \in ToSet(results) : r.ok /\ r.file = f))

Bounds ==
  /\ pending >= Len(calls) + Len(results) + lost
  /\ parallel /\ ~error => pending = Len(calls) + Len(results) + lost

Causes ==
  /\ error => (broken \cup earlier) \cap scheduled # {}
  /\ main = "exited" => error

Wanted == ToSet(asked) \cup UNION {ToSet(deps[f]) : f \in data}
InLists(st) == UNION {ToSet(ds) : ds \in ToSet(st)}
OnStack == InLists(stack)

\* Only files that are wanted are waited for.
OnlyWanted == ToSet(roots) \cup scheduled \cup OnStack \subseteq Wanted

Underway == ToSet(dependencies) \cup FilesOf(calls) \cup FilesOf(results)

\* Nothing that is wanted is forgotten, unless loading fails or a worker crashes.
NothingForgotten ==
  main \notin {"failed", "exited"} /\ ~error /\ lost = 0 =>
    /\ Wanted \subseteq data \cup ToSet(roots) \cup OnStack \cup Underway
    /\ scheduled \subseteq data \cup Underway

IInv ==
  /\ Types /\ Modes /\ Tokens /\ Seen /\ Answers /\ Reads /\ Bounds /\ Causes
  /\ OnlyWanted /\ NothingForgotten

-----------------------------------------------------------------------------
\* Sequences as sets: what Append, Tail, Front and RemoveAt do to the elements.
LEMMA SequenceFacts ==
  ASSUME NEW S, NEW s \in Seq(S)
  PROVE  /\ Len(s) \in Nat /\ DOMAIN s = 1..Len(s)
         /\ \A i \in DOMAIN s : s[i] \in S
         /\ ToSet(s) \subseteq S
         /\ s = <<>> <=> Len(s) = 0
         /\ s = <<>> <=> ToSet(s) = {}
<1>1. Len(s) \in Nat /\ DOMAIN s = 1..Len(s) /\ \A i \in DOMAIN s : s[i] \in S
  BY LenProperties, ElementOfSeq
<1>2. s = <<>> <=> Len(s) = 0
  BY EmptySeq
<1>3. ToSet(s) \subseteq S
  BY <1>1 DEF ToSet
<1>4. Len(s) # 0 => 1 \in DOMAIN s
  BY <1>1
<1>5. Len(s) = 0 => DOMAIN s = {}
  BY <1>1
<1>6. ToSet(s) = {} <=> DOMAIN s = {}
  BY DEF ToSet
<1> QED BY <1>1, <1>2, <1>3, <1>4, <1>5, <1>6

LEMMA AppendElements ==
  ASSUME NEW S, NEW s \in Seq(S), NEW x \in S
  PROVE  /\ Append(s, x) \in Seq(S) /\ Len(Append(s, x)) = Len(s) + 1
         /\ ToSet(Append(s, x)) = ToSet(s) \cup {x}
<1>1. PICK n \in Nat : n = Len(s) /\ DOMAIN s = 1..n
  BY SequenceFacts
<1>2. /\ Append(s, x) \in Seq(S) /\ Len(Append(s, x)) = n + 1
      /\ \A i \in 1..n : Append(s, x)[i] = s[i]
      /\ Append(s, x)[n + 1] = x
  BY <1>1, AppendProperties
<1>3. DOMAIN Append(s, x) = 1..(n + 1)
  BY <1>2, SequenceFacts
<1>4. \A i : i \in 1..(n + 1) <=> i \in 1..n \/ i = n + 1
  OBVIOUS
<1>5. ToSet(Append(s, x)) = ToSet(s) \cup {x}
  BY <1>1, <1>2, <1>3, <1>4 DEF ToSet
<1> QED BY <1>1, <1>2, <1>5

\* RemoveAt moves what is behind place i one place forward.
LEMMA RemoveAtElements ==
  ASSUME NEW S, NEW s \in Seq(S), NEW i \in DOMAIN s
  PROVE  /\ RemoveAt(s, i) \in Seq(S) /\ Len(RemoveAt(s, i)) = Len(s) - 1
         /\ \A k \in 1..(Len(s) - 1) : RemoveAt(s, i)[k] = s[IF k < i THEN k ELSE k + 1]
<1>1. PICK n \in Nat : n = Len(s) /\ DOMAIN s = 1..n
  BY SequenceFacts
<1> DEFINE a == SubSeq(s, 1, i - 1)
           b == SubSeq(s, i + 1, n)
<1>2. i \in 1..n
  BY <1>1
<1>3. \A k \in 1..n : s[k] \in S
  BY <1>1, SequenceFacts
<1>4. a \in Seq(S) /\ Len(a) = i - 1 /\ \A k \in 1..(i - 1) : a[k] = s[k]
  <2>1. \A k \in 1..(i - 1) : s[k] \in S
    BY <1>2, <1>3
  <2>2. /\ a \in Seq(S) /\ Len(a) = IF 1 <= i - 1 THEN i - 1 - 1 + 1 ELSE 0
        /\ \A k \in 1..(i - 1 - 1 + 1) : a[k] = s[1 + k - 1]
    BY <1>2, <2>1, SubSeqProperties
  <2> HIDE DEF a
  <2>3. \A k \in 1..(i - 1) : 1 + k - 1 = k /\ k \in 1..(i - 1 - 1 + 1)
    BY <1>2
  <2> QED BY <1>2, <2>2, <2>3
<1>5. b \in Seq(S) /\ Len(b) = n - i /\ \A k \in 1..(n - i) : b[k] = s[i + k]
  <2>1. \A k \in (i + 1)..n : s[k] \in S
    BY <1>2, <1>3
  <2>2. PICK m \in Int : m = i + 1 /\ n \in Int
    BY <1>2
  <2>3. /\ b \in Seq(S) /\ Len(b) = IF m <= n THEN n - m + 1 ELSE 0
        /\ \A k \in 1..(n - m + 1) : b[k] = s[m + k - 1]
    <3> SUFFICES /\ SubSeq(s, m, n) \in Seq(S) /\ Len(SubSeq(s, m, n)) = IF m <= n THEN n - m + 1 ELSE 0
                 /\ \A k \in 1..(n - m + 1) : SubSeq(s, m, n)[k] = s[m + k - 1]
      BY <2>2
    <3>1. \A k \in m..n : s[k] \in S
      BY <2>1, <2>2
    <3> QED BY <3>1, SubSeqProperties
  <2> HIDE DEF b
  <2>4. n - m + 1 = n - i /\ \A k \in Int : m + k - 1 = i + k
    <3>1. i \in Int /\ m \in Int /\ n \in Int /\ m = i + 1
      BY <1>2, <2>2
    <3> QED BY <3>1
  <2>5. Len(b) = n - i
    BY <1>2, <2>2, <2>3
  <2>6. \A k \in 1..(n - i) : b[k] = s[i + k]
    <3> TAKE k \in 1..(n - i)
    <3>1. k \in 1..(n - m + 1) /\ m + k - 1 = i + k
      BY <2>4
    <3> QED BY <2>3, <3>1
  <2> QED BY <2>3, <2>5, <2>6
<1>6. RemoveAt(s, i) = a \o b
  BY <1>1 DEF RemoveAt
<1> HIDE DEF a, b
<1>7. /\ a \o b \in Seq(S) /\ Len(a \o b) = n - 1
      /\ \A k \in 1..(n - 1) : (a \o b)[k] = IF k <= i - 1 THEN a[k] ELSE b[k - (i - 1)]
  <2>1. /\ a \o b \in Seq(S) /\ Len(a \o b) = (i - 1) + (n - i)
        /\ \A k \in 1..((i - 1) + (n - i)) : (a \o b)[k] = IF k <= i - 1 THEN a[k] ELSE b[k - (i - 1)]
    BY <1>4, <1>5, ConcatProperties
  <2>2. (i - 1) + (n - i) = n - 1
    BY <1>2
  <2> QED BY <2>1, <2>2
<1>8. ASSUME NEW k \in 1..(n - 1) PROVE (a \o b)[k] = s[IF k < i THEN k ELSE k + 1]
  <2>1. CASE k < i
    BY <1>2, <1>4, <1>7, <2>1
  <2>2. CASE ~(k < i)
    <3>1. i \in 1..n /\ k \in Int /\ ~(k <= i - 1)
      BY <1>2, <2>2
    <3>2. k - (i - 1) \in 1..(n - i) /\ i + (k - (i - 1)) = k + 1
      BY <3>1
    <3>3. (a \o b)[k] = b[k - (i - 1)]
      BY <1>7, <3>1
    <3> QED BY <1>5, <2>2, <3>2, <3>3
  <2> QED BY <2>1, <2>2
<1> QED BY <1>1, <1>6, <1>7, <1>8

\* Removing a call or an answer takes its file away, if no other is about the same file.
LEMMA RemoveAtFiles ==
  ASSUME NEW S, NEW s \in Seq(S), NEW i \in DOMAIN s, Apart(s)
  PROVE  /\ Apart(RemoveAt(s, i))
         /\ ToSet(RemoveAt(s, i)) \subseteq ToSet(s)
         /\ FilesOf(RemoveAt(s, i)) = FilesOf(s) \ {s[i].file}
<1>1. PICK n \in Nat : n = Len(s) /\ DOMAIN s = 1..n
  BY SequenceFacts
<1> DEFINE t == RemoveAt(s, i)
           at(k) == IF k < i THEN k ELSE k + 1
<1>2. DOMAIN t = 1..(n - 1) /\ \A k \in 1..(n - 1) : t[k] = s[at(k)]
  BY <1>1, RemoveAtElements, SequenceFacts
<1>3. \A k \in 1..(n - 1) : at(k) \in 1..n /\ at(k) # i
  BY <1>1
<1>4. \A j, k \in 1..(n - 1) : at(j) = at(k) => j = k
  BY <1>1
<1>5. \A m \in 1..n : m # i => \E k \in 1..(n - 1) : at(k) = m
  <2> SUFFICES ASSUME NEW m \in 1..n, m # i PROVE \E k \in 1..(n - 1) : at(k) = m
    OBVIOUS
  <2>1. CASE m < i
    BY <1>1, <2>1
  <2>2. CASE ~(m < i)
    <3>1. m - 1 \in 1..(n - 1) /\ at(m - 1) = m
      BY <1>1, <2>2
    <3> QED BY <3>1
  <2> QED BY <2>1, <2>2
<1> HIDE DEF t, at
<1>6. Apart(t)
  BY <1>1, <1>2, <1>3, <1>4 DEF Apart
<1>7. ToSet(t) \subseteq ToSet(s)
  BY <1>1, <1>2, <1>3 DEF ToSet
<1>8. FilesOf(t) = FilesOf(s) \ {s[i].file}
  <2>1. \A c \in ToSet(t) : c.file \in FilesOf(s) /\ c.file # s[i].file
    <3> SUFFICES ASSUME NEW k \in 1..(n - 1)
                 PROVE  s[at(k)].file \in FilesOf(s) /\ s[at(k)].file # s[i].file
      BY <1>2 DEF ToSet
    <3> QED BY <1>1, <1>3 DEF FilesOf, ToSet, Apart
  <2>2. \A m \in 1..n : s[m].file # s[i].file => s[m].file \in FilesOf(t)
    BY <1>2, <1>5 DEF FilesOf, ToSet
  <2> QED BY <1>1, <2>1, <2>2 DEF FilesOf, ToSet
<1> QED BY <1>6, <1>7, <1>8 DEF t

-----------------------------------------------------------------------------
\* A set of natural numbers that is not empty has a least element.
LEMMA LeastElement ==
  ASSUME NEW T, T \subseteq Nat, T # {}
  PROVE  \E m \in T : \A k \in T : m <= k
<1> DEFINE R == OpToRel(<, Nat)
<1>1. IsWellFoundedOn(R, Nat)
  BY NatLessThanWellFounded
<1>2. \A x, y \in Nat : y < x => <<y, x>> \in R
  BY DEF OpToRel
<1> HIDE DEF R
<1>3. PICK m \in T : \A k \in T : ~ (<<k, m>> \in R)
  BY <1>1, WFMin
<1>4. \A k \in T : ~(k < m)
  BY <1>2, <1>3
<1> QED BY <1>4

\* Rank numbers the elements of a set of places 1, 2, ... in their order.
LEMMA RankFacts ==
  ASSUME NEW n \in Nat, NEW P, P \subseteq 1..n
  PROVE  /\ Cardinality(P) \in Nat
         /\ \A i \in P : Rank(i, P) \in 1..Cardinality(P)
         /\ \A i, j \in P : Rank(i, P) = Rank(j, P) => i = j
         /\ \A k \in 1..Cardinality(P) : \E i \in P : Rank(i, P) = k
<1> DEFINE upTo(i) == {j \in P : j <= i}
<1>0. IsFiniteSet(1..n)
  BY FS_Interval
<1>1. IsFiniteSet(P) /\ Cardinality(P) \in Nat
  BY <1>0, FS_Subset, FS_CardinalityType
<1>2. \A i \in P : IsFiniteSet(upTo(i)) /\ Cardinality(upTo(i)) \in Nat /\ Cardinality(upTo(i)) <= Cardinality(P)
  BY <1>1, FS_Subset, FS_CardinalityType
<1>3. \A i \in P : i \in upTo(i)
  OBVIOUS
<1>4. \A i \in P : Rank(i, P) \in 1..Cardinality(P)
  <2> SUFFICES ASSUME NEW i \in P PROVE Cardinality(upTo(i)) \in 1..Cardinality(P)
    BY DEF Rank
  <2>1. upTo(i) # {}
    BY <1>3
  <2> HIDE DEF upTo
  <2>2. Cardinality(upTo(i)) # 0
    BY <1>2, <2>1, FS_EmptySet
  <2> QED BY <1>1, <1>2, <2>2
<1>5. \A i, j \in P : i < j => Rank(i, P) < Rank(j, P)
  <2> SUFFICES ASSUME NEW i \in P, NEW j \in P, i < j
               PROVE  Cardinality(upTo(i)) < Cardinality(upTo(j))
    BY DEF Rank
  <2>1. upTo(i) \subseteq upTo(j) /\ j \in upTo(j) /\ j \notin upTo(i)
    <3>1. i \in Nat /\ j \in Nat /\ j <= j /\ ~(j <= i)
      OBVIOUS
    <3>2. \A k \in P : k <= i => k <= j
      <4>1. \A k \in P : k \in Nat
        OBVIOUS
      <4> QED BY <3>1, <4>1
    <3> QED BY <3>1, <3>2
  <2>2. IsFiniteSet(upTo(j)) /\ Cardinality(upTo(i)) \in Nat /\ Cardinality(upTo(j)) \in Nat
    BY <1>2
  <2> HIDE DEF upTo
  <2>3. /\ Cardinality(upTo(i)) <= Cardinality(upTo(j))
        /\ Cardinality(upTo(j)) = Cardinality(upTo(i)) => upTo(j) = upTo(i)
    BY <2>1, <2>2, FS_Subset
  <2> QED BY <2>1, <2>2, <2>3
<1>6. \A i, j \in P : Rank(i, P) = Rank(j, P) => i = j
  <2> SUFFICES ASSUME NEW i \in P, NEW j \in P, Rank(i, P) = Rank(j, P), i # j PROVE FALSE
    OBVIOUS
  <2>1. i < j \/ j < i
    OBVIOUS
  <2> QED BY <1>1, <1>4, <1>5, <2>1
<1>7. \A k \in 1..Cardinality(P) : \E i \in P : Rank(i, P) = k
  <2> DEFINE card == Cardinality(P)
             f == [i \in P |-> Rank(i, P)]
  <2>1. f \in Injection(P, 1..card)
    BY <1>4, <1>6 DEF Injection, IsInjective
  <2>2. IsFiniteSet(1..card) /\ Cardinality(1..card) = card
    BY <1>1, FS_Interval
  <2>3. f \in Surjection(P, 1..card)
    BY <2>1, <2>2, FS_Injection
  <2> QED BY <2>3 DEF Surjection
<1> QED BY <1>1, <1>4, <1>6, <1>7

\* The loop over an answer's dependencies adds each that is new, once.
LEMMA NewDependenciesFacts ==
  ASSUME NEW ds \in Seq(Files), NEW old
  PROVE  /\ NewDependencies(ds, old) \in Seq(Files)
         /\ Distinct(NewDependencies(ds, old))
         /\ ToSet(NewDependencies(ds, old)) = ToSet(ds) \ old
<1> DEFINE P == FirstPlaces(ds, old)
           card == Cardinality(P)
           place(k) == CHOOSE i \in P : Rank(i, P) = k
           new == NewDependencies(ds, old)
<1>1. PICK n \in Nat : DOMAIN ds = 1..n /\ \A i \in 1..n : ds[i] \in Files
  BY SequenceFacts
<1>2. P \subseteq 1..n
  BY <1>1 DEF FirstPlaces
<1>3. \A i \in P : ds[i] \notin old /\ \A j \in 1..(i - 1) : ds[j] # ds[i]
  BY DEF FirstPlaces
<1>4. new = [k \in 1..card |-> ds[place(k)]]
  BY DEF NewDependencies
<1> HIDE DEF P, new
<1>5. card \in Nat /\ \A k \in 1..card : place(k) \in P /\ Rank(place(k), P) = k
  BY <1>2, RankFacts
<1>6. \A i \in P : Rank(i, P) \in 1..card /\ place(Rank(i, P)) = i
  <2> SUFFICES ASSUME NEW i \in P PROVE Rank(i, P) \in 1..card /\ place(Rank(i, P)) = i
    OBVIOUS
  <2>1. Rank(i, P) \in 1..card
    BY <1>2, RankFacts
  <2>2. place(Rank(i, P)) \in P /\ Rank(place(Rank(i, P)), P) = Rank(i, P)
    BY <1>5, <2>1
  <2> QED BY <1>2, <2>1, <2>2, RankFacts
<1> HIDE DEF place, card
<1>7. DOMAIN new = 1..card /\ \A k \in 1..card : new[k] = ds[place(k)]
  BY <1>4
<1>8. new \in Seq(Files)
  <2>1. new \in [1..card -> Files]
    BY <1>1, <1>2, <1>4, <1>5
  <2> QED BY <1>5, <2>1, SeqDef
<1>9. \A i, j \in P : ds[i] = ds[j] => i = j
  <2> SUFFICES ASSUME NEW i \in P, NEW j \in P, ds[i] = ds[j], i < j PROVE FALSE
    BY <1>2
  <2> QED BY <1>2, <1>3
<1>10. Distinct(new)
  BY <1>5, <1>7, <1>9 DEF Distinct
<1>11. ToSet(new) \subseteq ToSet(ds) \ old
  <2> SUFFICES ASSUME NEW k \in 1..card PROVE new[k] \in ToSet(ds) /\ new[k] \notin old
    BY <1>7 DEF ToSet
  <2>1. place(k) \in P /\ place(k) \in DOMAIN ds /\ new[k] = ds[place(k)]
    BY <1>1, <1>2, <1>5, <1>7
  <2> QED BY <1>3, <2>1 DEF ToSet
<1>12. ASSUME NEW x \in ToSet(ds) \ old PROVE x \in ToSet(new)
  <2> DEFINE T == {i \in 1..n : ds[i] = x}
  <2>1. T \subseteq Nat /\ T # {}
    BY <1>1, <1>12 DEF ToSet
  <2>2. PICK m \in T : \A k \in T : m <= k
    BY <2>1, LeastElement
  <2>3. m \in 1..n /\ ds[m] = x /\ \A j \in 1..(m - 1) : j \in 1..n /\ j \notin T
    BY <2>2
  <2>4. m \in P
    BY <1>1, <1>12, <2>3 DEF P, FirstPlaces
  <2>5. new[Rank(m, P)] = x /\ Rank(m, P) \in DOMAIN new
    BY <1>6, <1>7, <2>3, <2>4
  <2> QED BY <2>5 DEF ToSet
<1> QED BY <1>8, <1>10, <1>11, <1>12 DEF new

\* A queue without its head, and a list without its end.
LEMMA TailElements ==
  ASSUME NEW S, NEW s \in Seq(S), s # <<>>
  PROVE  /\ Head(s) \in S /\ 1 \in DOMAIN s /\ Head(s) = s[1]
         /\ Tail(s) = RemoveAt(s, 1) /\ Tail(s) \in Seq(S) /\ Len(Tail(s)) = Len(s) - 1
         /\ ToSet(s) = {Head(s)} \cup ToSet(Tail(s))
<1>1. PICK n \in Nat : n = Len(s) /\ n >= 1 /\ DOMAIN s = 1..n
  BY SequenceFacts
<1>2. Head(s) \in S /\ Head(s) = s[1] /\ 1 \in DOMAIN s
  BY <1>1, HeadTailProperties
<1>3. Tail(s) \in Seq(S) /\ Len(Tail(s)) = n - 1 /\ \A k \in 1..(n - 1) : Tail(s)[k] = s[k + 1]
  BY <1>1, HeadTailProperties
<1>4. Tail(s) = RemoveAt(s, 1)
  <2>1. /\ RemoveAt(s, 1) \in Seq(S) /\ Len(RemoveAt(s, 1)) = n - 1
        /\ \A k \in 1..(n - 1) : RemoveAt(s, 1)[k] = s[IF k < 1 THEN k ELSE k + 1]
    BY <1>1, <1>2, RemoveAtElements
  <2>2. \A k \in 1..(n - 1) : Tail(s)[k] = RemoveAt(s, 1)[k]
    BY <1>3, <2>1
  <2> QED BY <1>3, <2>1, <2>2, SeqEqual
<1>5. DOMAIN Tail(s) = 1..(n - 1)
  BY <1>3, SequenceFacts
<1>6. \A k : k \in 1..n <=> k = 1 \/ \E j \in 1..(n - 1) : k = j + 1
  <2>1. ASSUME NEW k \in 1..n, k # 1 PROVE \E j \in 1..(n - 1) : k = j + 1
    <3>1. k - 1 \in 1..(n - 1) /\ k = (k - 1) + 1
      BY <1>1, <2>1
    <3> QED BY <3>1
  <2>2. \A j \in 1..(n - 1) : j + 1 \in 1..n
    BY <1>1
  <2>3. 1 \in 1..n
    BY <1>1
  <2> QED BY <2>1, <2>2, <2>3
<1>7. ToSet(s) = {Head(s)} \cup ToSet(Tail(s))
  <2>1. ToSet(s) = {s[k] : k \in 1..n} /\ ToSet(Tail(s)) = {Tail(s)[k] : k \in 1..(n - 1)}
    BY <1>1, <1>5 DEF ToSet
  <2>2. \A k \in 1..n : s[k] = Head(s) \/ \E j \in 1..(n - 1) : s[k] = Tail(s)[j]
    BY <1>2, <1>3, <1>6
  <2>3. \A j \in 1..(n - 1) : \E k \in 1..n : s[k] = Tail(s)[j]
    BY <1>3, <1>6
  <2>4. \E k \in 1..n : s[k] = Head(s)
    BY <1>1, <1>2
  <2> QED BY <2>1, <2>2, <2>3, <2>4
<1> QED BY <1>1, <1>2, <1>3, <1>4, <1>7

LEMMA FrontElements ==
  ASSUME NEW S, NEW s \in Seq(S), s # <<>>
  PROVE  /\ Last(s) \in S /\ Front(s) \in Seq(S)
         /\ ToSet(s) = ToSet(Front(s)) \cup {Last(s)}
         /\ Distinct(s) => Distinct(Front(s)) /\ ToSet(Front(s)) = ToSet(s) \ {Last(s)}
<1>1. PICK n \in Nat, m \in Nat : n = Len(s) /\ m = n - 1 /\ n = m + 1 /\ DOMAIN s = 1..n
  <2>1. Len(s) \in Nat /\ Len(s) - 1 \in Nat /\ Len(s) = (Len(s) - 1) + 1 /\ DOMAIN s = 1..Len(s)
    BY SequenceFacts
  <2> QED BY <2>1
<1>2. \A k \in 1..n : s[k] \in S
  BY <1>1, SequenceFacts
<1>3. Last(s) = s[n] /\ Last(s) \in S
  BY <1>1, <1>2 DEF Last
<1>4. Front(s) \in Seq(S) /\ DOMAIN Front(s) = 1..m /\ \A k \in 1..m : Front(s)[k] = s[k]
  <2>1. Front(s) = SubSeq(s, 1, m)
    BY <1>1 DEF Front
  <2>2. \A k \in 1..m : s[k] \in S
    BY <1>1, <1>2
  <2>3. /\ Front(s) \in Seq(S) /\ Len(Front(s)) = IF 1 <= m THEN m - 1 + 1 ELSE 0
        /\ \A k \in 1..(m - 1 + 1) : Front(s)[k] = s[1 + k - 1]
    BY <2>1, <2>2, SubSeqProperties
  <2>4. Len(Front(s)) = m /\ \A k \in 1..m : k \in 1..(m - 1 + 1) /\ 1 + k - 1 = k
    BY <2>3
  <2> QED BY <2>3, <2>4, SequenceFacts
<1>5. \A k : k \in 1..n <=> k \in 1..m \/ k = n
  BY <1>1
<1>6. ToSet(s) = ToSet(Front(s)) \cup {Last(s)}
  BY <1>1, <1>3, <1>4, <1>5 DEF ToSet
<1>7. \A k \in 1..m : k # n
  BY <1>1
<1>8. Distinct(s) => Distinct(Front(s)) /\ Last(s) \notin ToSet(Front(s))
  BY <1>1, <1>3, <1>4, <1>5, <1>7 DEF Distinct, ToSet
<1> QED BY <1>3, <1>4, <1>6, <1>8

LEMMA AppendFiles ==
  ASSUME NEW S, NEW q \in Seq(S), NEW c \in S
  PROVE  /\ FilesOf(Append(q, c)) = FilesOf(q) \cup {c.file}
         /\ Apart(q) /\ c.file \notin FilesOf(q) => Apart(Append(q, c))
<1>1. PICK n \in Nat : n = Len(q) /\ DOMAIN q = 1..n
  BY SequenceFacts
<1>2. /\ Append(q, c) \in Seq(S) /\ Len(Append(q, c)) = n + 1
      /\ \A i \in 1..n : Append(q, c)[i] = q[i]
      /\ Append(q, c)[n + 1] = c
  BY <1>1, AppendProperties
<1>3. DOMAIN Append(q, c) = 1..(n + 1)
  BY <1>2, SequenceFacts
<1>4. \A i : i \in 1..(n + 1) <=> i \in 1..n \/ i = n + 1
  OBVIOUS
<1>5. FilesOf(Append(q, c)) = FilesOf(q) \cup {c.file}
  BY AppendElements DEF FilesOf
<1>6. \A i \in 1..n : q[i].file \in FilesOf(q)
  BY <1>1 DEF FilesOf, ToSet
<1>7. ASSUME Apart(q), c.file \notin FilesOf(q) PROVE Apart(Append(q, c))
  BY <1>1, <1>2, <1>3, <1>4, <1>6, <1>7 DEF Apart
<1> QED BY <1>5, <1>7

LEMMA ConcatElements ==
  ASSUME NEW s \in Seq(Files), NEW t \in Seq(Files)
  PROVE  /\ s \o t \in Seq(Files) /\ ToSet(s \o t) = ToSet(s) \cup ToSet(t)
         /\ Distinct(s) /\ Distinct(t) /\ ToSet(s) \cap ToSet(t) = {} => Distinct(s \o t)
<1>1. PICK m \in Nat, n \in Nat : m = Len(s) /\ DOMAIN s = 1..m /\ n = Len(t) /\ DOMAIN t = 1..n
  BY SequenceFacts
<1>2. /\ s \o t \in Seq(Files) /\ Len(s \o t) = m + n
      /\ \A k \in 1..(m + n) : (s \o t)[k] = IF k <= m THEN s[k] ELSE t[k - m]
  BY <1>1, ConcatProperties
<1>3. DOMAIN (s \o t) = 1..(m + n)
  BY <1>2, SequenceFacts
<1>4. \A k \in 1..(m + n) : \/ k \in 1..m /\ (s \o t)[k] = s[k]
                            \/ k - m \in 1..n /\ (s \o t)[k] = t[k - m]
  BY <1>2
<1>5. \A k \in 1..m : k \in 1..(m + n) /\ (s \o t)[k] = s[k]
  BY <1>2
<1>6. \A k \in 1..n : k + m \in 1..(m + n) /\ (s \o t)[k + m] = t[k]
  BY <1>2
<1>7. ToSet(s \o t) = ToSet(s) \cup ToSet(t)
  <2>1. ToSet(s \o t) \subseteq ToSet(s) \cup ToSet(t)
    BY <1>1, <1>3, <1>4 DEF ToSet
  <2>2. ToSet(s) \subseteq ToSet(s \o t)
    BY <1>1, <1>3, <1>5 DEF ToSet
  <2>3. ToSet(t) \subseteq ToSet(s \o t)
    <3> SUFFICES ASSUME NEW k \in 1..n PROVE t[k] \in ToSet(s \o t)
      BY <1>1 DEF ToSet
    <3>1. PICK j \in 1..(m + n) : (s \o t)[j] = t[k]
      BY <1>6
    <3> QED BY <1>3, <3>1 DEF ToSet
  <2> QED BY <2>1, <2>2, <2>3
<1>8. ASSUME Distinct(s), Distinct(t), ToSet(s) \cap ToSet(t) = {} PROVE Distinct(s \o t)
  <2> SUFFICES ASSUME NEW j \in 1..(m + n), NEW k \in 1..(m + n), (s \o t)[j] = (s \o t)[k]
               PROVE  j = k
    BY <1>3 DEF Distinct
  <2>1. \A a \in 1..m, b \in 1..n : s[a] # t[b]
    BY <1>1, <1>8 DEF ToSet
  <2>2. CASE j \in 1..m /\ (s \o t)[j] = s[j] /\ k \in 1..m /\ (s \o t)[k] = s[k]
    BY <1>1, <1>8, <2>2 DEF Distinct
  <2>3. CASE j - m \in 1..n /\ (s \o t)[j] = t[j - m] /\ k - m \in 1..n /\ (s \o t)[k] = t[k - m]
    <3>1. j - m = k - m
      BY <1>1, <1>8, <2>3 DEF Distinct
    <3> QED BY <3>1
  <2> QED BY <1>4, <2>1, <2>2, <2>3
<1> QED BY <1>2, <1>7, <1>8

\* What the calls on the stack have still to load.
LEMMA StackElements ==
  ASSUME NEW st \in Seq(Seq(Files))
  PROVE  /\ InLists(<<>>) = {}
         /\ InLists(st) \subseteq Files
         /\ \A ds \in Seq(Files) : /\ Append(st, ds) \in Seq(Seq(Files))
                                   /\ InLists(Append(st, ds)) = InLists(st) \cup ToSet(ds)
         /\ st # <<>> => /\ Last(st) \in Seq(Files)
                         /\ Front(st) \in Seq(Seq(Files))
                         /\ InLists(st) = InLists(Front(st)) \cup ToSet(Last(st))
<1>1. ToSet(<<>>) = {}
  BY DEF ToSet
<1>2. InLists(<<>>) = {}
  BY <1>1 DEF InLists
<1>3. ToSet(st) \subseteq Seq(Files) /\ \A ds \in Seq(Files) : ToSet(ds) \subseteq Files
  BY SequenceFacts
<1>4. InLists(st) \subseteq Files
  BY <1>3 DEF InLists
<1>5. ASSUME NEW ds \in Seq(Files)
      PROVE  Append(st, ds) \in Seq(Seq(Files)) /\ InLists(Append(st, ds)) = InLists(st) \cup ToSet(ds)
  <2>1. Append(st, ds) \in Seq(Seq(Files)) /\ ToSet(Append(st, ds)) = ToSet(st) \cup {ds}
    BY AppendElements
  <2> QED BY <2>1 DEF InLists
<1>6. ASSUME st # <<>>
      PROVE  /\ Last(st) \in Seq(Files) /\ Front(st) \in Seq(Seq(Files))
             /\ InLists(st) = InLists(Front(st)) \cup ToSet(Last(st))
  <2>1. Last(st) \in Seq(Files) /\ Front(st) \in Seq(Seq(Files)) /\ ToSet(st) = ToSet(Front(st)) \cup {Last(st)}
    BY <1>6, FrontElements
  <2> QED BY <2>1 DEF InLists
<1> QED BY <1>2, <1>4, <1>5, <1>6

-----------------------------------------------------------------------------
\* Where nothing is under way, the places a scheduled file may be in are empty.
LEMMA RestFacts ==
  ASSUME AtRest
  PROVE  ToSet(dependencies) = {} /\ ToSet(calls) = {} /\ ToSet(results) = {} /\ Underway = {}
<1>1. ToSet(<<>>) = {}
  BY DEF ToSet
<1>2. ToSet(dependencies) = {} /\ ToSet(calls) = {} /\ ToSet(results) = {}
  BY <1>1 DEF AtRest
<1> QED BY <1>2 DEF Underway, FilesOf

LEMMA InitIInv == LoadInputOK /\ LoadInit => IInv
<1> SUFFICES ASSUME LoadInputOK, LoadInit PROVE IInv
  OBVIOUS
<1>1. AtRest /\ Modes
  BY DEF LoadInit, Modes, AtRest
<1>2. ToSet(dependencies) = {} /\ ToSet(calls) = {} /\ ToSet(results) = {} /\ Underway = {}
  BY <1>1, RestFacts
<1>3. Types
  <2>1. <<>> \in Seq(Files) /\ <<>> \in Seq(Seq(Files)) /\ <<>> \in Seq(Call) /\ <<>> \in Seq(Answer)
    BY EmptySeq
  <2> QED BY <2>1 DEF LoadInit, LoadInputOK, Types
<1>4. Tokens
  <2>1. Distinct(<<>>) /\ Apart(<<>>)
    BY DEF Distinct, Apart
  <2> QED BY <1>2, <2>1 DEF LoadInit, Tokens, FilesOf
<1>5. Seen /\ Answers
  BY <1>2 DEF LoadInit, Seen, Answers
<1>6. Reads /\ Causes
  BY DEF LoadInit, Reads, Causes
<1>7. Bounds
  BY <1>1 DEF LoadInit, Bounds
<1>8. OnStack = {} /\ ToSet(roots) = ToSet(asked)
  BY EmptySeq, StackElements DEF LoadInit, OnStack
<1>9. OnlyWanted /\ NothingForgotten
  BY <1>8 DEF LoadInit, OnlyWanted, NothingForgotten, Wanted
<1> QED BY <1>1, <1>3, <1>4, <1>5, <1>6, <1>7, <1>9 DEF IInv

\* The main thread moves on and changes nothing else.
LEMMA MainMoves ==
  ASSUME IInv, UNCHANGED <<loadInput, roots, data, stack, parState, pool, history>>,
         main \notin {"failed", "exited"},
         main' \in {"next", "loop", "wait", "woken", "done", "failed", "exited"},
         Modes', main' = "exited" => error
  PROVE  IInv'
<1> USE DEF IInv
<1>1. /\ UNCHANGED <<deps, broken, parallel, asked>>
      /\ UNCHANGED <<pending, scheduled, dependencies, error, calls, results, loads, lost, earlier>>
      /\ UNCHANGED <<roots, data, stack>>
  BY DEF loadInput, parState, pool, history
<1>2. Types'
  BY <1>1 DEF Types, LoadInputOK
<1>3. Tokens' /\ Seen' /\ Answers' /\ Reads'
  BY <1>1 DEF Tokens, Seen, Answers, Reads, FilesOf
<1>4. Bounds' /\ Causes'
  BY <1>1 DEF Bounds, Causes
<1>5. Wanted' = Wanted /\ OnStack' = OnStack /\ Underway' = Underway
  BY <1>1 DEF Wanted, OnStack, Underway, FilesOf
<1>6. OnlyWanted' /\ NothingForgotten'
  BY <1>1, <1>5 DEF OnlyWanted, NothingForgotten
<1> QED BY <1>2, <1>3, <1>4, <1>6

LEMMA WaitsKeep ==
  ASSUME IInv, WaitForResult \/ WaitReturns \/ LeaveLoop \/ LoadDone
  PROVE  IInv'
<1>1. UNCHANGED <<loadInput, roots, data, stack, parState, pool, history>>
  BY DEF WaitForResult, WaitReturns, LeaveLoop, LoadDone
<1>2. UNCHANGED <<parallel, stack, pending, dependencies, error, calls, results, lost>>
  BY <1>1 DEF loadInput, parState, pool, history
<1>3. main \notin {"failed", "exited"} /\ main' \in {"next", "loop", "wait", "woken", "done", "failed", "exited"}
  BY DEF WaitForResult, WaitReturns, LeaveLoop, LoadDone
<1>4. main' = "exited" => error
  BY DEF WaitForResult, WaitReturns, LeaveLoop, LoadDone
<1>5. AtRest' <=> AtRest
  BY <1>2 DEF AtRest
<1>6. Modes'
  <2>1. CASE WaitForResult \/ WaitReturns
    BY <1>2, <1>5, <2>1 DEF IInv, Modes, WaitForResult, WaitReturns
  <2>2. CASE LoadDone
    BY <1>2, <1>5, <2>2 DEF IInv, Modes, LoadDone
  <2>3. CASE LeaveLoop /\ error
    BY <1>2, <2>3 DEF IInv, Modes, LeaveLoop
  <2>4. CASE LeaveLoop /\ ~error
    <3>1. main = "loop" /\ main' = "next" /\ dependencies = <<>> /\ pending = 0
      BY <2>4 DEF LeaveLoop, LoopOver
    <3>2. Len(calls) \in Nat /\ Len(results) \in Nat /\ lost \in Nat
      BY SequenceFacts DEF IInv, Types
    <3>3. Len(calls) = 0 /\ Len(results) = 0 /\ lost = 0
      BY <3>1, <3>2 DEF IInv, Bounds
    <3>4. calls = <<>> /\ results = <<>>
      BY <3>3, SequenceFacts DEF IInv, Types
    <3>5. AtRest
      BY <2>4, <3>1, <3>3, <3>4 DEF AtRest
    <3> QED BY <1>2, <1>5, <3>1, <3>5 DEF IInv, Modes
  <2> QED BY <2>1, <2>2, <2>3, <2>4
<1> QED BY <1>1, <1>3, <1>4, <1>6, MainMoves

-----------------------------------------------------------------------------
\* A new ParallelState starts with one file of the command line.
LEMMA StartParallelKeeps ==
  ASSUME IInv, StartParallel
  PROVE  IInv'
<1> USE DEF IInv
<1>1. /\ parallel /\ main = "next" /\ main' = "loop" /\ roots # <<>> /\ roots' = Tail(roots)
      /\ dependencies' = <<Head(roots)>> /\ scheduled' = {Head(roots)} /\ pending' = 0 /\ error' = FALSE
      /\ earlier' = data
      /\ UNCHANGED <<deps, broken, parallel, asked, data, stack, calls, results, loads, lost>>
  BY DEF StartParallel, loadInput, pool
<1>2. roots \in Seq(Files) /\ AtRest /\ stack = <<>>
  BY <1>1 DEF Types, Modes
<1>3. Head(roots) \in Files /\ roots' \in Seq(Files) /\ ToSet(roots) = {Head(roots)} \cup ToSet(roots')
  BY <1>1, <1>2, TailElements
<1>4. dependencies' \in Seq(Files) /\ ToSet(dependencies') = {Head(roots)} /\ Distinct(dependencies')
  <2>1. <<Head(roots)>> \in Seq(Files) /\ ToSet(<<Head(roots)>>) = {Head(roots)}
    BY <1>3 DEF ToSet
  <2> QED BY <1>1, <2>1 DEF Distinct
<1>5. ToSet(calls) = {} /\ ToSet(results) = {} /\ Underway = {} /\ calls = <<>> /\ results = <<>>
  BY <1>2, RestFacts DEF AtRest
<1>6. ToSet(calls') = {} /\ ToSet(results') = {} /\ FilesOf(calls') = {} /\ FilesOf(results') = {}
  BY <1>1, <1>5 DEF FilesOf
<1>7. Types'
  BY <1>1, <1>3, <1>4 DEF Types, LoadInputOK
<1>8. Modes'
  BY <1>1 DEF Modes
<1>9. Tokens'
  BY <1>1, <1>4, <1>6 DEF Tokens
<1>10. Seen' /\ Answers'
  BY <1>1, <1>6 DEF Seen, Answers
<1>11. Reads'
  BY <1>1 DEF Reads
<1>12. Bounds' /\ Causes'
  BY <1>1, <1>2 DEF Bounds, Causes, AtRest
<1>13. Wanted' = Wanted /\ OnStack' = OnStack /\ Underway' = {Head(roots)}
  BY <1>1, <1>4, <1>6 DEF Wanted, OnStack, Underway
<1>14. OnlyWanted'
  BY <1>1, <1>3, <1>13 DEF OnlyWanted
<1>15. NothingForgotten'
  <2>1. Wanted \subseteq data \cup ToSet(roots) \cup OnStack
    BY <1>1, <1>2, <1>5 DEF NothingForgotten, AtRest
  <2> QED BY <1>1, <1>3, <1>13, <2>1 DEF NothingForgotten
<1> QED BY <1>7, <1>8, <1>9, <1>10, <1>11, <1>12, <1>14, <1>15

\* The main thread takes a file from the list and gives it to the pool, with the data.
LEMMA ScheduleKeeps ==
  ASSUME IInv, Schedule
  PROVE  IInv'
<1> USE DEF IInv
<1> DEFINE f == Last(dependencies)
           c == [file |-> f, seen |-> data]
<1>1. /\ main = "loop" /\ ~error /\ dependencies # <<>> /\ dependencies' = Front(dependencies)
      /\ pending' = pending + 1 /\ calls' = Append(calls, c)
      /\ UNCHANGED <<deps, broken, parallel, asked, roots, data, stack, scheduled, error, results, main>>
      /\ UNCHANGED <<loads, lost, earlier>>
  BY DEF Schedule, Counted, loadInput, history
<1>2. /\ dependencies \in Seq(Files) /\ calls \in Seq(Call) /\ data \subseteq Files /\ pending \in Nat
      /\ Len(calls) \in Nat /\ Len(results) \in Nat /\ lost \in Nat
  BY SequenceFacts DEF Types
<1>3. /\ f \in Files /\ dependencies' \in Seq(Files) /\ Distinct(dependencies')
      /\ ToSet(dependencies') = ToSet(dependencies) \ {f} /\ f \in ToSet(dependencies)
  <2>1. Distinct(dependencies)
    BY DEF Tokens
  <2>2. /\ f \in Files /\ Front(dependencies) \in Seq(Files) /\ Distinct(Front(dependencies))
        /\ ToSet(Front(dependencies)) = ToSet(dependencies) \ {f}
        /\ ToSet(dependencies) = ToSet(Front(dependencies)) \cup {f}
    BY <1>1, <1>2, <2>1, FrontElements
  <2> QED BY <1>1, <2>2
<1>4. c \in Call /\ c.file = f /\ c.seen = data
  BY <1>2, <1>3 DEF Call
<1> HIDE DEF c, f
<1>5. /\ calls' \in Seq(Call) /\ Len(calls') = Len(calls) + 1 /\ ToSet(calls') = ToSet(calls) \cup {c}
      /\ FilesOf(calls') = FilesOf(calls) \cup {f}
  BY <1>1, <1>2, <1>4, AppendElements, AppendFiles
<1>6. f \notin FilesOf(calls) /\ f \notin FilesOf(results)
  BY <1>3 DEF Tokens
<1>7. Apart(calls')
  BY <1>1, <1>2, <1>4, <1>6, AppendFiles DEF Tokens
<1>8. Types'
  BY <1>1, <1>2, <1>3, <1>5 DEF Types, LoadInputOK
<1>9. Modes'
  BY <1>1 DEF Modes
<1>10. results' = results /\ FilesOf(results') = FilesOf(results)
  BY <1>1
<1>11. Tokens'
  BY <1>1, <1>3, <1>5, <1>6, <1>7, <1>10 DEF Tokens
<1>12. Seen' /\ Answers'
  BY <1>1, <1>4, <1>5 DEF Seen, Answers
<1>13. Reads'
  BY <1>1 DEF Reads
<1>14. Bounds' /\ Causes'
  <2>1. pending >= Len(calls) + Len(results) + lost => pending' >= Len(calls') + Len(results') + lost'
    BY <1>1, <1>2, <1>5
  <2>2. pending = Len(calls) + Len(results) + lost => pending' = Len(calls') + Len(results') + lost'
    BY <1>1, <1>2, <1>5
  <2> QED BY <1>1, <2>1, <2>2 DEF Bounds, Causes
<1>15. Wanted' = Wanted /\ OnStack' = OnStack /\ Underway' = Underway
  BY <1>1, <1>3, <1>5, <1>10 DEF Wanted, OnStack, Underway
<1>16. OnlyWanted' /\ NothingForgotten'
  BY <1>1, <1>15 DEF OnlyWanted, NothingForgotten
<1> QED BY <1>8, <1>9, <1>11, <1>12, <1>13, <1>14, <1>16

\* A call leaves the pool: what both an answer and a crash do.
LEMMA CallLeaves ==
  ASSUME IInv, NEW i \in DOMAIN calls
  PROVE  /\ calls \in Seq(Call) /\ calls[i] \in Call /\ calls[i] \in ToSet(calls) /\ calls[i].file \in FilesOf(calls)
         /\ RemoveAt(calls, i) \in Seq(Call) /\ Len(calls) \in Nat /\ Len(RemoveAt(calls, i)) = Len(calls) - 1
         /\ Apart(RemoveAt(calls, i)) /\ ToSet(RemoveAt(calls, i)) \subseteq ToSet(calls)
         /\ FilesOf(RemoveAt(calls, i)) = FilesOf(calls) \ {calls[i].file}
         /\ main \notin {"next", "done", "failed"}
<1>1. calls \in Seq(Call) /\ Apart(calls)
  BY DEF IInv, Types, Tokens
<1>2. calls[i] \in Call /\ Len(calls) \in Nat
  BY <1>1, SequenceFacts
<1>3. calls[i] \in ToSet(calls) /\ calls[i].file \in FilesOf(calls)
  BY DEF ToSet, FilesOf
<1>4. main \notin {"next", "done", "failed"}
  BY <1>3, RestFacts DEF IInv, Modes
<1> QED BY <1>1, <1>2, <1>3, <1>4, RemoveAtElements, RemoveAtFiles

\* A worker answers a call: it has read the file, or says nothing about it.
LEMMA AnswerKeeps ==
  ASSUME IInv, CallLoadTargetBuildFile
  PROVE  IInv'
<1> USE DEF IInv
<1>1. PICK i \in DOMAIN calls :
        /\ calls' = RemoveAt(calls, i)
        /\ IF GivesNothing(calls[i])
           THEN results' = Append(results, NotOk(calls[i].file)) /\ UNCHANGED loads
           ELSE results' = Append(results, Ok(calls[i].file, deps[calls[i].file])) /\ Read(calls[i].file)
        /\ UNCHANGED <<loadInput, roots, data, stack, parState, main, lost, earlier>>
  BY DEF CallLoadTargetBuildFile
<1> DEFINE f == calls[i].file
           r == IF GivesNothing(calls[i]) THEN NotOk(f) ELSE Ok(f, deps[f])
<1>2. /\ UNCHANGED <<deps, broken, parallel, asked, roots, data, stack, main, lost, earlier>>
      /\ UNCHANGED <<pending, scheduled, dependencies, error>>
  BY <1>1 DEF loadInput, parState
<1>3. /\ calls[i] \in Call /\ calls[i] \in ToSet(calls) /\ f \in FilesOf(calls) /\ f \in Files
      /\ calls' \in Seq(Call) /\ Len(calls) \in Nat /\ Len(calls') = Len(calls) - 1
      /\ Apart(calls') /\ ToSet(calls') \subseteq ToSet(calls) /\ FilesOf(calls') = FilesOf(calls) \ {f}
      /\ main \notin {"next", "done", "failed"}
  BY <1>1, CallLeaves DEF Call
<1>4. results' = Append(results, r)
  BY <1>1
<1>5. r \in Answer /\ r.file = f /\ (r.ok <=> ~GivesNothing(calls[i])) /\ (r.ok => r.deps = deps[f])
  BY <1>3 DEF Types, LoadInputOK, Answer, Ok, NotOk
<1>6. results \in Seq(Answer) /\ Len(results) \in Nat /\ f \notin FilesOf(results) /\ f \in scheduled \ (data \ earlier)
  BY <1>3, SequenceFacts DEF Types, Tokens
<1> HIDE DEF r
<1>7. /\ results' \in Seq(Answer) /\ Len(results') = Len(results) + 1 /\ ToSet(results') = ToSet(results) \cup {r}
      /\ FilesOf(results') = FilesOf(results) \cup {f}
  BY <1>4, <1>5, <1>6, AppendElements, AppendFiles
<1>8. Apart(results')
  BY <1>4, <1>5, <1>6, AppendFiles DEF Tokens
<1>9. \A g \in Files : loads'[g] = IF r.ok /\ g = f THEN loads[g] + 1 ELSE loads[g]
  BY <1>1, <1>3, <1>5 DEF Types, Read
<1>10. loads' \in [Files -> Nat]
  <2>1. loads \in [Files -> Nat]
    BY DEF Types
  <2>2. CASE GivesNothing(calls[i])
    BY <1>1, <2>1, <2>2
  <2>3. CASE ~GivesNothing(calls[i])
    BY <1>1, <1>3, <2>1, <2>3 DEF Read
  <2> QED BY <2>2, <2>3
<1> HIDE DEF f
<1>11. r.ok => loads[f] = 0
  <2> SUFFICES ASSUME r.ok, loads[f] # 0 PROVE FALSE
    OBVIOUS
  <2>1. f \in data \/ \E q \in ToSet(results) : q.file = f
    BY <1>3 DEF Reads
  <2>2. f \in data
    BY <1>6, <2>1 DEF FilesOf
  <2>3. f \in earlier
    BY <1>6, <2>2
  <2>4. calls[i].file = f /\ earlier \subseteq calls[i].seen
    BY <1>3 DEF f, Seen
  <2>5. GivesNothing(calls[i])
    BY <2>3, <2>4 DEF GivesNothing
  <2> QED BY <1>5, <2>5
<1>12. ~r.ok => f \in broken \cup earlier
  <2> SUFFICES ASSUME ~r.ok PROVE f \in broken \cup earlier
    OBVIOUS
  <2>1. f \in calls[i].seen \/ f \in broken
    BY <1>5 DEF GivesNothing, f
  <2>2. calls[i].seen \subseteq data
    BY <1>3 DEF Seen
  <2> QED BY <1>6, <2>1, <2>2
<1>13. Types'
  BY <1>2, <1>3, <1>7, <1>10 DEF Types, LoadInputOK
<1>14. Modes'
  BY <1>2, <1>3 DEF Modes
<1>15. dependencies' = dependencies /\ Distinct(dependencies')
  BY <1>2 DEF Tokens
<1>16. Tokens'
  BY <1>2, <1>3, <1>6, <1>7, <1>8, <1>15 DEF Tokens
<1>17. Seen'
  BY <1>2, <1>3 DEF Seen
<1>18. Answers'
  BY <1>2, <1>5, <1>7, <1>12 DEF Answers
<1>19. Reads'
  <2> SUFFICES ASSUME NEW g \in Files
               PROVE  loads'[g] = 0 \/ (loads'[g] = 1 /\ (g \in data \/ \E q \in ToSet(results') : q.ok /\ q.file = g))
    BY <1>2 DEF Reads
  <2>1. CASE r.ok /\ g = f
    BY <1>5, <1>7, <1>9, <1>11, <2>1
  <2>2. CASE ~(r.ok /\ g = f)
    BY <1>7, <1>9, <2>2 DEF Reads
  <2> QED BY <2>1, <2>2
<1>20. Bounds' /\ Causes'
  <2>1. Len(calls') + Len(results') + lost' = Len(calls) + Len(results) + lost
    BY <1>2, <1>3, <1>6, <1>7 DEF Types
  <2> QED BY <1>2, <2>1 DEF Bounds, Causes
<1>21. Wanted' = Wanted /\ OnStack' = OnStack /\ Underway' = Underway
  BY <1>2, <1>3, <1>7 DEF Wanted, OnStack, Underway
<1>22. OnlyWanted' /\ NothingForgotten'
  BY <1>2, <1>21 DEF OnlyWanted, NothingForgotten
<1> QED BY <1>13, <1>14, <1>16, <1>17, <1>18, <1>19, <1>20, <1>22

\* A killed worker's call is gone, and pending still counts it.
LEMMA CrashKeeps ==
  ASSUME IInv, WorkerCrashes
  PROVE  IInv'
<1> USE DEF IInv
<1>1. PICK i \in DOMAIN calls : calls' = RemoveAt(calls, i)
  BY DEF WorkerCrashes
<1>2. /\ UNCHANGED <<deps, broken, parallel, asked, roots, data, stack, main, loads, earlier, results>>
      /\ UNCHANGED <<pending, scheduled, dependencies, error>> /\ lost' = lost + 1
  BY DEF WorkerCrashes, loadInput, parState
<1>3. /\ calls' \in Seq(Call) /\ Len(calls) \in Nat /\ Len(calls') = Len(calls) - 1
      /\ Apart(calls') /\ ToSet(calls') \subseteq ToSet(calls) /\ FilesOf(calls') \subseteq FilesOf(calls)
      /\ main \notin {"next", "done", "failed"}
  BY <1>1, CallLeaves
<1>4. Len(results) \in Nat /\ lost \in Nat /\ lost' # 0
  BY <1>2, SequenceFacts DEF Types
<1>5. Types'
  BY <1>2, <1>3, <1>4 DEF Types, LoadInputOK
<1>6. Modes'
  BY <1>2, <1>3 DEF Modes
<1>7. Tokens'
  <2>1. dependencies' = dependencies /\ results' = results /\ FilesOf(results') = FilesOf(results)
    BY <1>2
  <2>2. Distinct(dependencies') /\ Apart(results')
    BY <2>1 DEF Tokens
  <2> QED BY <1>2, <1>3, <2>1, <2>2 DEF Tokens
<1>8. Seen' /\ Answers'
  BY <1>2, <1>3 DEF Seen, Answers
<1>9. Reads'
  BY <1>2 DEF Reads
<1>10. Bounds' /\ Causes'
  <2>1. Len(calls') + Len(results') + lost' = Len(calls) + Len(results) + lost
    BY <1>2, <1>3, <1>4
  <2> QED BY <1>2, <2>1 DEF Bounds, Causes
<1>11. Wanted' = Wanted /\ OnStack' = OnStack
  BY <1>2 DEF Wanted, OnStack
<1>12. OnlyWanted' /\ NothingForgotten'
  BY <1>2, <1>4, <1>11 DEF OnlyWanted, NothingForgotten
<1> QED BY <1>5, <1>6, <1>7, <1>8, <1>9, <1>10, <1>12

\* The callback takes an answer: it adds the file to the data and schedules what is new,
\* or notes the error.
LEMMA CallbackKeeps ==
  ASSUME IInv, LoadTargetBuildFileCallback
  PROVE  IInv'
<1> USE DEF IInv
<1> DEFINE r == Head(results)
           new == NewDependencies(r.deps, scheduled)
<1>1. /\ main \in {"wait", "woken"} /\ main' = "woken" /\ results # <<>> /\ results' = Tail(results)
      /\ UNCHANGED <<deps, broken, parallel, asked, roots, stack, calls, loads, lost, earlier>>
  BY DEF LoadTargetBuildFileCallback, Notify, loadInput, history
<1>2. IF r.ok
      THEN /\ data' = data \cup {r.file} /\ scheduled' = scheduled \cup ToSet(new)
           /\ dependencies' = dependencies \o new /\ pending' = pending - 1 /\ UNCHANGED error
      ELSE error' = TRUE /\ UNCHANGED <<data, scheduled, dependencies, pending>>
  BY DEF LoadTargetBuildFileCallback
<1>3. results \in Seq(Answer) /\ Apart(results)
  BY DEF Types, Tokens
<1>4. /\ r \in Answer /\ 1 \in DOMAIN results /\ r = results[1] /\ ToSet(results) = {r} \cup ToSet(results')
      /\ results' = RemoveAt(results, 1) /\ results' \in Seq(Answer) /\ Len(results') = Len(results) - 1
  BY <1>1, <1>3, TailElements
<1>5. Apart(results') /\ FilesOf(results') = FilesOf(results) \ {r.file}
  BY <1>3, <1>4, RemoveAtFiles
<1>6. /\ r \in ToSet(results) /\ r.file \in FilesOf(results) /\ r.file \in Files /\ r.deps \in Seq(Files)
      /\ r.file \in scheduled \ (data \ earlier)
  BY <1>4 DEF FilesOf, Answer, Tokens
<1>7. new \in Seq(Files) /\ Distinct(new) /\ ToSet(new) = ToSet(r.deps) \ scheduled
  BY <1>6, NewDependenciesFacts
<1>8. /\ Len(results) \in Nat /\ Len(results) >= 1 /\ Len(calls) \in Nat /\ lost \in Nat /\ pending \in Nat
      /\ dependencies \in Seq(Files) /\ data \subseteq Files /\ scheduled \subseteq Files
  BY <1>1, SequenceFacts DEF Types
<1> HIDE DEF r, new
<1>9. calls' = calls /\ ToSet(calls') = ToSet(calls) /\ FilesOf(calls') = FilesOf(calls)
  BY <1>1
<1>10. Modes'
  BY <1>1 DEF Modes
<1>11. CASE r.ok
  <2>1. /\ data' = data \cup {r.file} /\ scheduled' = scheduled \cup ToSet(new)
        /\ dependencies' = dependencies \o new /\ pending' = pending - 1 /\ error' = error
    BY <1>2, <1>11
  <2>2. r.deps = deps[r.file]
    BY <1>6, <1>11 DEF Answers
  <2>3. ToSet(dependencies) \subseteq scheduled /\ ToSet(new) \cap scheduled = {} /\ ToSet(new) \subseteq Files
    BY <1>7, <1>8, SequenceFacts DEF Tokens
  <2>4. /\ dependencies' \in Seq(Files) /\ ToSet(dependencies') = ToSet(dependencies) \cup ToSet(new)
        /\ Distinct(dependencies')
    <3>1. Distinct(dependencies) /\ ToSet(dependencies) \cap ToSet(new) = {}
      BY <2>3 DEF Tokens
    <3> QED BY <1>7, <1>8, <2>1, <3>1, ConcatElements
  <2>5. Types'
    <3>1. pending' \in Nat
      BY <1>8, <2>1 DEF Bounds
    <3> QED BY <1>1, <1>4, <1>6, <1>8, <2>1, <2>3, <2>4, <3>1 DEF Types, LoadInputOK
  <2>6. data \subseteq earlier \cup scheduled /\ scheduled \subseteq scheduled'
    BY <1>1, <2>1 DEF Modes, Seen
  <2>7. Tokens'
    <3>1. UNCHANGED earlier
      BY <1>1
    <3>2. ToSet(new) \cap FilesOf(calls) = {} /\ ToSet(new) \cap FilesOf(results) = {} /\ ToSet(new) \cap (data \ earlier) = {}
      BY <2>3, <2>6 DEF Tokens
    <3>3. /\ ToSet(dependencies') \cap FilesOf(calls') = {} /\ ToSet(dependencies') \cap FilesOf(results') = {}
          /\ FilesOf(calls') \cap FilesOf(results') = {}
      BY <1>5, <1>9, <2>4, <3>2 DEF Tokens
    <3>4. r.file \notin ToSet(dependencies') /\ r.file \notin FilesOf(calls')
      BY <1>6, <1>9, <2>3, <2>4 DEF Tokens
    <3>5. ToSet(dependencies') \cup FilesOf(calls') \cup FilesOf(results') \subseteq scheduled' \ (data' \ earlier)
      BY <1>5, <1>9, <2>1, <2>4, <2>6, <3>2, <3>4 DEF Tokens
    <3> QED BY <1>5, <1>9, <2>4, <3>1, <3>3, <3>5 DEF Tokens
  <2>8. Seen'
    BY <1>1, <1>6, <1>9, <2>1, <2>6 DEF Seen
  <2>9. Answers'
    BY <1>1, <1>4 DEF Answers
  <2>10. Reads'
    BY <1>1, <1>4, <2>1 DEF Reads
  <2>11. Bounds'
    <3>1. pending >= Len(calls) + Len(results) + lost => pending' >= Len(calls') + Len(results') + lost'
      BY <1>1, <1>4, <1>8, <2>1
    <3>2. pending = Len(calls) + Len(results) + lost => pending' = Len(calls') + Len(results') + lost'
      BY <1>1, <1>4, <1>8, <2>1
    <3> QED BY <1>1, <2>1, <3>1, <3>2 DEF Bounds
  <2>12. Causes'
    BY <1>1, <2>1, <2>6 DEF Causes
  <2>13. Wanted' = Wanted \cup ToSet(r.deps) /\ OnStack' = OnStack
    BY <1>1, <2>1, <2>2 DEF Wanted, OnStack
  <2>14. OnlyWanted'
    BY <1>1, <1>7, <2>1, <2>13 DEF OnlyWanted
  <2>15. NothingForgotten'
    <3> SUFFICES ASSUME ~error, lost = 0
                 PROVE  /\ Wanted' \subseteq data' \cup ToSet(roots) \cup OnStack \cup Underway'
                        /\ scheduled' \subseteq data' \cup Underway'
      BY <1>1, <2>1, <2>13 DEF NothingForgotten
    <3>1. /\ Wanted \subseteq data \cup ToSet(roots) \cup OnStack \cup Underway
          /\ scheduled \subseteq data \cup Underway
      BY <1>1 DEF NothingForgotten
    <3>2. Underway \cup ToSet(new) \subseteq Underway' \cup {r.file}
      BY <1>5, <1>9, <2>4 DEF Underway
    <3> QED BY <1>7, <2>1, <2>13, <3>1, <3>2
  <2> QED BY <1>10, <2>5, <2>7, <2>8, <2>9, <2>10, <2>11, <2>12, <2>14, <2>15
<1>12. CASE ~r.ok
  <2>1. error' = TRUE /\ UNCHANGED <<data, scheduled, dependencies, pending>>
    BY <1>2, <1>12
  <2>2. r.file \in broken \cup earlier
    BY <1>6, <1>12 DEF Answers
  <2>3. Types'
    BY <1>1, <1>4, <2>1 DEF Types, LoadInputOK
  <2>4. Tokens'
    <3>1. Distinct(dependencies') /\ ToSet(dependencies') = ToSet(dependencies) /\ UNCHANGED earlier
      BY <1>1, <2>1 DEF Tokens
    <3> QED BY <1>5, <1>9, <2>1, <3>1 DEF Tokens
  <2>5. Seen'
    BY <1>1, <2>1 DEF Seen
  <2>6. Answers'
    BY <1>1, <1>4 DEF Answers
  <2>7. Reads'
    BY <1>1, <1>4, <1>12, <2>1 DEF Reads
  <2>8. Bounds'
    <3>1. pending' >= Len(calls') + Len(results') + lost'
      BY <1>1, <1>4, <1>8, <2>1 DEF Bounds
    <3> QED BY <2>1, <3>1 DEF Bounds
  <2>9. Causes'
    BY <1>1, <1>6, <2>1, <2>2 DEF Causes
  <2>10. Wanted' = Wanted /\ OnStack' = OnStack
    BY <1>1, <2>1 DEF Wanted, OnStack
  <2>11. OnlyWanted' /\ NothingForgotten'
    BY <1>1, <2>1, <2>10 DEF OnlyWanted, NothingForgotten
  <2> QED BY <1>10, <2>3, <2>4, <2>5, <2>6, <2>7, <2>8, <2>9, <2>11
<1> QED BY <1>11, <1>12

-----------------------------------------------------------------------------
\* One call of LoadTargetBuildFile, of a file that is wanted.
LEMMA LoadOneKeeps ==
  ASSUME IInv, ~parallel, main = "next", NEW f \in Wanted, NEW callers \in Seq(Seq(Files)),
         LoadTargetBuildFile(f, callers), roots' \in Seq(Files), ToSet(roots') \subseteq ToSet(roots),
         InLists(callers) \subseteq OnStack,
         ToSet(roots) \cup OnStack \subseteq ToSet(roots') \cup InLists(callers) \cup {f},
         UNCHANGED <<loadInput, parState, pool, lost, earlier>>
  PROVE  IInv'
<1> USE DEF IInv
<1>1. /\ UNCHANGED <<deps, broken, parallel, asked, pending, scheduled, dependencies, error>>
      /\ UNCHANGED <<calls, results, lost, earlier>>
  BY DEF loadInput, parState, pool
<1>2. /\ AtRest /\ ToSet(dependencies) = {} /\ ToSet(calls) = {} /\ ToSet(results) = {} /\ Underway = {}
      /\ FilesOf(calls) = {} /\ FilesOf(results) = {}
  BY RestFacts DEF Modes, FilesOf
<1>3. f \in Files /\ deps[f] \in Seq(Files) /\ ToSet(deps[f]) \subseteq Files
  <2>1. ToSet(asked) \subseteq Files /\ data \subseteq Files /\ \A g \in Files : deps[g] \in Seq(Files)
    BY SequenceFacts DEF Types, LoadInputOK
  <2>2. \A g \in Files : ToSet(deps[g]) \subseteq Files
    BY <2>1, SequenceFacts
  <2>3. Wanted \subseteq Files
    BY <2>1, <2>2 DEF Wanted
  <2> QED BY <2>1, <2>2, <2>3
<1>4. \/ data' = data /\ stack' = callers /\ main' = "next" /\ loads' = loads /\ f \in data
      \/ data' = data \cup {f} /\ stack' = <<>> /\ main' = "failed" /\ loads' = loads
      \/ /\ data' = data \cup {f} /\ stack' = Append(callers, deps[f]) /\ main' = "next"
         /\ loads' = [loads EXCEPT ![f] = @ + 1] /\ f \notin data
  BY DEF LoadTargetBuildFile, Read
<1>5. <<>> \in Seq(Seq(Files)) /\ InLists(<<>>) = {} /\ Append(callers, deps[f]) \in Seq(Seq(Files))
      /\ InLists(Append(callers, deps[f])) = InLists(callers) \cup ToSet(deps[f])
  BY <1>3, EmptySeq, StackElements
<1>6. Types'
  <2>1. data' \subseteq Files /\ stack' \in Seq(Seq(Files)) /\ main' \in {"next", "failed"}
    BY <1>3, <1>4, <1>5 DEF Types
  <2>2. loads' \in [Files -> Nat]
    <3>1. loads \in [Files -> Nat]
      BY DEF Types
    <3> QED BY <1>3, <1>4, <3>1
  <2> QED BY <1>1, <2>1, <2>2 DEF Types, LoadInputOK
<1>7. Modes'
  BY <1>1, <1>2, <1>4 DEF Modes, AtRest
<1>8. Tokens'
  <2>1. Distinct(dependencies') /\ Apart(calls') /\ Apart(results')
    BY <1>1 DEF Tokens
  <2>2. ToSet(dependencies') = {} /\ FilesOf(calls') = {} /\ FilesOf(results') = {}
    BY <1>1, <1>2
  <2> QED BY <2>1, <2>2 DEF Tokens
<1>9. Seen' /\ Answers'
  BY <1>1, <1>2, <1>4 DEF Seen, Answers
<1>10. Reads'
  <2>1. \A g \in Files : loads[g] = 0 \/ (loads[g] = 1 /\ g \in data)
    BY <1>2 DEF Reads
  <2>2. CASE loads' = loads
    BY <1>1, <1>4, <2>1, <2>2 DEF Reads
  <2>3. CASE loads' = [loads EXCEPT ![f] = @ + 1] /\ f \notin data /\ data' = data \cup {f}
    <3>1. loads \in [Files -> Nat] /\ loads[f] = 0
      BY <1>3, <2>1, <2>3 DEF Types
    <3>2. \A g \in Files : loads'[g] = IF g = f THEN 1 ELSE loads[g]
      BY <2>3, <3>1
    <3> QED BY <2>1, <2>3, <3>2 DEF Reads
  <2> QED BY <1>4, <2>2, <2>3
<1>11. Bounds' /\ Causes'
  BY <1>1, <1>4 DEF Bounds, Causes
<1>12. Wanted' = Wanted \cup (IF data' = data THEN {} ELSE ToSet(deps[f]))
  <2>1. CASE data' = data
    BY <1>1, <2>1 DEF Wanted
  <2>2. CASE data' = data \cup {f} /\ data' # data
    BY <1>1, <2>2 DEF Wanted
  <2> QED BY <1>4, <2>1, <2>2
<1>13. OnStack' \subseteq InLists(callers) \cup (IF data' = data THEN {} ELSE ToSet(deps[f]))
  <2>1. CASE f \in data
    BY <1>4, <1>5, <2>1 DEF OnStack
  <2>2. CASE f \notin data
    BY <1>4, <1>5, <2>2 DEF OnStack
  <2> QED BY <2>1, <2>2
<1>14. OnlyWanted'
  BY <1>1, <1>12, <1>13 DEF OnlyWanted
<1>15. NothingForgotten'
  <2> SUFFICES ASSUME main' # "failed"
               PROVE  /\ Wanted' \subseteq data' \cup ToSet(roots') \cup OnStack'
                      /\ scheduled \subseteq data'
    BY <1>1 DEF NothingForgotten
  <2>1. Wanted \subseteq data \cup ToSet(roots) \cup OnStack /\ scheduled \subseteq data
    BY <1>2 DEF NothingForgotten, AtRest
  <2>2. OnStack' = InLists(callers) \cup (IF data' = data THEN {} ELSE ToSet(deps[f])) /\ data' = data \cup {f}
    BY <1>4, <1>5 DEF OnStack
  <2> QED BY <1>12, <2>1, <2>2
<1> QED BY <1>6, <1>7, <1>8, <1>9, <1>10, <1>11, <1>14, <1>15

\* Load goes on with the next file of the command line.
LEMMA NextRootKeeps ==
  ASSUME IInv, NextRoot
  PROVE  IInv'
<1>1. /\ ~parallel /\ main = "next" /\ stack = <<>> /\ roots # <<>> /\ roots' = Tail(roots)
      /\ LoadTargetBuildFile(Head(roots), <<>>)
      /\ UNCHANGED <<loadInput, parState, pool, lost, earlier>>
  BY DEF NextRoot
<1>2. roots \in Seq(Files) /\ ToSet(roots) \subseteq Wanted
  BY DEF IInv, Types, OnlyWanted
<1>3. Tail(roots) \in Seq(Files) /\ ToSet(roots) = {Head(roots)} \cup ToSet(Tail(roots))
  BY <1>1, <1>2, TailElements
<1>4. <<>> \in Seq(Seq(Files)) /\ InLists(<<>>) = {}
  BY EmptySeq, StackElements
<1>5. OnStack = {}
  BY <1>1, <1>4 DEF OnStack
<1> QED BY <1>1, <1>2, <1>3, <1>4, <1>5, LoadOneKeeps

\* The innermost call goes on with its next dependency, or returns.
LEMMA NextDependencyKeeps ==
  ASSUME IInv, NextDependency
  PROVE  IInv'
<1> DEFINE top == Last(stack)
<1>1. /\ ~parallel /\ main = "next" /\ stack # <<>>
      /\ IF top = <<>>
         THEN stack' = Front(stack) /\ UNCHANGED <<data, main, loads>>
         ELSE LoadTargetBuildFile(Head(top), Append(Front(stack), Tail(top)))
      /\ UNCHANGED <<loadInput, roots, parState, pool, lost, earlier>>
  BY DEF NextDependency
<1>2. stack \in Seq(Seq(Files)) /\ roots \in Seq(Files) /\ OnStack \subseteq Wanted
  BY DEF IInv, Types, OnlyWanted
<1>3. top \in Seq(Files) /\ Front(stack) \in Seq(Seq(Files)) /\ OnStack = InLists(Front(stack)) \cup ToSet(top)
  BY <1>1, <1>2, StackElements DEF OnStack
<1> HIDE DEF top
<1>4. CASE top = <<>>
  <2>1. /\ UNCHANGED <<deps, broken, parallel, asked, pending, scheduled, dependencies, error>>
        /\ UNCHANGED <<calls, results, lost, earlier, data, main, loads, roots>> /\ stack' = Front(stack)
    BY <1>1, <1>4 DEF loadInput, parState, pool
  <2>2. OnStack' = OnStack
    BY <1>3, <1>4, <2>1, SequenceFacts DEF OnStack
  <2>3. Types'
    BY <1>3, <2>1 DEF IInv, Types, LoadInputOK
  <2>4. Modes'
    BY <1>1, <2>1 DEF IInv, Modes, AtRest
  <2>5. Tokens' /\ Seen' /\ Answers' /\ Reads'
    BY <2>1 DEF IInv, Tokens, Seen, Answers, Reads, FilesOf
  <2>6. Bounds' /\ Causes'
    BY <2>1 DEF IInv, Bounds, Causes
  <2>7. Wanted' = Wanted /\ Underway' = Underway
    BY <2>1 DEF Wanted, Underway, FilesOf
  <2>8. OnlyWanted' /\ NothingForgotten'
    BY <2>1, <2>2, <2>7 DEF IInv, OnlyWanted, NothingForgotten
  <2> QED BY <2>3, <2>4, <2>5, <2>6, <2>8 DEF IInv
<1>5. CASE top # <<>>
  <2> DEFINE callers == Append(Front(stack), Tail(top))
  <2>1. Tail(top) \in Seq(Files) /\ ToSet(top) = {Head(top)} \cup ToSet(Tail(top))
    BY <1>3, <1>5, TailElements
  <2>2. callers \in Seq(Seq(Files)) /\ InLists(callers) = InLists(Front(stack)) \cup ToSet(Tail(top))
    BY <1>3, <2>1, StackElements
  <2>3. LoadTargetBuildFile(Head(top), callers) /\ roots' = roots
    BY <1>1, <1>5
  <2> HIDE DEF callers
  <2>4. Head(top) \in Wanted /\ InLists(callers) \subseteq OnStack /\ OnStack \subseteq InLists(callers) \cup {Head(top)}
    BY <1>2, <1>3, <2>1, <2>2
  <2> QED BY <1>1, <1>2, <2>2, <2>3, <2>4, LoadOneKeeps
<1> QED BY <1>4, <1>5

-----------------------------------------------------------------------------
\* Every step keeps the invariant.
LEMMA NextIInv == IInv /\ [LoadNext]_loadVars => IInv'
<1> SUFFICES ASSUME IInv, [LoadNext]_loadVars PROVE IInv'
  OBVIOUS
<1>1. CASE NextRoot
  BY <1>1, NextRootKeeps
<1>2. CASE NextDependency
  BY <1>2, NextDependencyKeeps
<1>3. CASE StartParallel
  BY <1>3, StartParallelKeeps
<1>4. CASE Schedule
  BY <1>4, ScheduleKeeps
<1>5. CASE WaitForResult \/ WaitReturns \/ LeaveLoop \/ LoadDone
  BY <1>5, WaitsKeep
<1>6. CASE CallLoadTargetBuildFile
  BY <1>6, AnswerKeeps
<1>7. CASE LoadTargetBuildFileCallback
  BY <1>7, CallbackKeeps
<1>8. CASE WorkerCrashes
  BY <1>8, CrashKeeps
<1>9. CASE UNCHANGED loadVars
  <2>1. /\ UNCHANGED <<deps, broken, parallel, asked, pending, scheduled, dependencies, error>>
        /\ UNCHANGED <<calls, results, lost, earlier, data, main, loads, roots, stack>>
    BY <1>9 DEF loadVars, loadInput, parState, pool, history
  <2>2. Types' /\ Modes'
    BY <2>1 DEF IInv, Types, LoadInputOK, Modes, AtRest
  <2>3. Tokens' /\ Seen' /\ Answers' /\ Reads'
    BY <2>1 DEF IInv, Tokens, Seen, Answers, Reads, FilesOf
  <2>4. Bounds' /\ Causes'
    BY <2>1 DEF IInv, Bounds, Causes
  <2>5. Wanted' = Wanted /\ Underway' = Underway /\ OnStack' = OnStack
    BY <2>1 DEF Wanted, Underway, FilesOf, OnStack
  <2>6. OnlyWanted' /\ NothingForgotten'
    BY <2>1, <2>5 DEF IInv, OnlyWanted, NothingForgotten
  <2> QED BY <2>2, <2>3, <2>4, <2>6 DEF IInv
<1> QED BY <1>1, <1>2, <1>3, <1>4, <1>5, <1>6, <1>7, <1>8, <1>9 DEF LoadNext, MainLoads, PoolLoads

\* Load and LoadTargetBuildFileParallel, for any build files and command line: no file is
\* read twice, pending counts the answers that are due, those of crashed workers with them,
\* and loading exits only if a file cannot be loaded or was loaded for an earlier one.
THEOREM SchedulingCorrect == LoadSpec => []SchedulingSound
<1>1. IInv => SchedulingSound
  <2> SUFFICES ASSUME IInv PROVE SchedulingSound
    OBVIOUS
  <2>1. LoadTypeOK
    <3>1. ToSet(roots) \subseteq Files /\ ToSet(dependencies) \subseteq scheduled
      BY SequenceFacts DEF IInv, Types, Tokens
    <3>2. \A i \in DOMAIN stack : stack[i] \in Seq(Files)
      BY SequenceFacts DEF IInv, Types
    <3>3. \A i \in DOMAIN stack : ToSet(stack[i]) \subseteq Files
      BY <3>2, SequenceFacts
    <3> QED BY <3>1, <3>3 DEF IInv, Types, LoadTypeOK
  <2>2. ReadOnce
    BY DEF IInv, Reads, ReadOnce
  <2>3. PendingExact /\ ErrorExplained
    BY DEF IInv, Bounds, Causes, PendingExact, ErrorExplained
  <2> QED BY <2>1, <2>2, <2>3 DEF SchedulingSound
<1> QED BY InitIInv, NextIInv, <1>1, PTL DEF LoadSpec

\* What GypClosure calls wanted is what the invariant does.
LEMMA SameWanted ==
  ASSUME Types
  PROVE  Closure!Wanted = Wanted
<1>1. \A f \in data : [g \in Files |-> ToSet(deps[g])][f] = ToSet(deps[f])
  BY DEF Types
<1> QED BY <1>1 DEF Closure!Wanted, Wanted

\* Every step loads one wanted file, succeeds, fails or changes nothing GypClosure sees.
LEMMA StepIsClosureStep ==
  ASSUME IInv, [LoadNext]_loadVars
  PROVE  [Closure!Next]_(Closure!vars)
<1>1. /\ UNCHANGED <<deps, broken, parallel, asked>>
  BY DEF LoadNext, MainLoads, PoolLoads, NextRoot, NextDependency, StartParallel, Schedule, WaitForResult,
         WaitReturns, LeaveLoop, LoadDone, CallLoadTargetBuildFile, LoadTargetBuildFileCallback, WorkerCrashes,
         loadVars, loadInput
<1>2. Closure!Wanted = Wanted
  BY SameWanted DEF IInv
<1>3. \/ data' = data /\ main' = main
      \/ data' = data /\ main \in {"next", "loop", "wait", "woken"} /\ main' \in {"next", "loop", "wait", "woken"}
      \/ LoadDone
      \/ LeaveLoop /\ error
      \/ NextRoot \/ NextDependency \/ LoadTargetBuildFileCallback
  BY DEF LoadNext, MainLoads, PoolLoads, StartParallel, Schedule, WaitForResult, WaitReturns, LeaveLoop,
         CallLoadTargetBuildFile, WorkerCrashes, loadVars
<1>4. CASE data' = data /\ main' = main
  BY <1>1, <1>4 DEF Closure!vars
<1>5. CASE data' = data /\ main \in {"next", "loop", "wait", "woken"} /\ main' \in {"next", "loop", "wait", "woken"}
  BY <1>1, <1>5 DEF Closure!vars
<1>6. CASE LoadDone
  <2>1. main = "next" /\ main' = "done" /\ roots = <<>> /\ stack = <<>> /\ data' = data
    BY <1>6 DEF LoadDone
  <2>2. AtRest /\ Underway = {}
    BY <2>1, RestFacts DEF IInv, Modes
  <2>3. ToSet(roots) = {} /\ OnStack = {}
    BY <2>1, EmptySeq, StackElements, SequenceFacts DEF IInv, Types, OnStack
  <2>4. Wanted \subseteq data
    BY <2>1, <2>2, <2>3 DEF IInv, NothingForgotten, AtRest
  <2>5. Closure!Succeed
    BY <1>1, <1>2, <2>1, <2>4 DEF Closure!Succeed
  <2> QED BY <2>5 DEF Closure!Next
<1>7. CASE LeaveLoop /\ error
  <2>1. main = "loop" /\ main' = "exited" /\ data' = data
    BY <1>7 DEF LeaveLoop
  <2>2. Closure!Fail
    BY <1>1, <2>1 DEF Closure!Fail
  <2> QED BY <2>2 DEF Closure!Next
<1>8. ASSUME main = "next", NEW f \in Wanted, NEW callers, LoadTargetBuildFile(f, callers)
      PROVE  [Closure!Next]_(Closure!vars)
  <2>1. CASE data' = data /\ main' = main
    BY <1>1, <2>1 DEF Closure!vars
  <2>2. CASE f \notin data /\ data' = data \cup {f} /\ main' = main
    <3>1. Closure!LoadFile
      BY <1>1, <1>2, <1>8, <2>2 DEF Closure!LoadFile
    <3> QED BY <3>1 DEF Closure!Next
  <2>3. CASE data' = data \cup {f} /\ main' = "failed"
    <3>1. Closure!Fail
      BY <1>1, <1>2, <1>8, <2>3 DEF Closure!Fail
    <3> QED BY <3>1 DEF Closure!Next
  <2> QED BY <1>8, <2>1, <2>2, <2>3 DEF LoadTargetBuildFile
<1>9. CASE NextRoot
  <2>1. main = "next" /\ LoadTargetBuildFile(Head(roots), <<>>) /\ roots # <<>>
    BY <1>9 DEF NextRoot
  <2>2. Head(roots) \in Wanted
    BY <2>1, TailElements DEF IInv, Types, OnlyWanted
  <2> QED BY <1>8, <2>1, <2>2
<1>10. CASE NextDependency
  <2>1. CASE Last(stack) = <<>>
    BY <1>1, <1>10, <2>1 DEF NextDependency, Closure!vars
  <2>2. CASE Last(stack) # <<>>
    <3>1. main = "next" /\ stack # <<>> /\ LoadTargetBuildFile(Head(Last(stack)), Append(Front(stack), Tail(Last(stack))))
      BY <1>10, <2>2 DEF NextDependency
    <3>2. Last(stack) \in Seq(Files) /\ ToSet(Last(stack)) \subseteq Wanted
      BY <3>1, StackElements DEF IInv, Types, OnlyWanted, OnStack
    <3>3. Head(Last(stack)) \in Wanted
      BY <2>2, <3>2, TailElements
    <3> QED BY <1>8, <3>1, <3>3
  <2> QED BY <2>1, <2>2
<1>11. CASE LoadTargetBuildFileCallback
  <2>1. /\ main \in {"wait", "woken"} /\ main' = "woken" /\ results # <<>>
        /\ data' = data \/ data' = data \cup {Head(results).file}
    BY <1>11 DEF LoadTargetBuildFileCallback, Notify
  <2>2. Head(results).file \in Wanted
    <3>1. Head(results) \in ToSet(results)
      BY <2>1, TailElements DEF IInv, Types
    <3> QED BY <3>1 DEF IInv, Tokens, FilesOf, OnlyWanted
  <2>3. CASE data' = data
    BY <1>1, <2>1, <2>3 DEF Closure!vars
  <2>4. CASE data' # data
    <3>1. Head(results).file \notin data /\ data' = data \cup {Head(results).file}
      BY <2>1, <2>4
    <3>2. Closure!LoadFile
      BY <1>1, <1>2, <2>1, <2>2, <3>1 DEF Closure!LoadFile
    <3> QED BY <3>2 DEF Closure!Next
  <2> QED BY <2>3, <2>4
<1> QED BY <1>3, <1>4, <1>5, <1>6, <1>7, <1>9, <1>10, <1>11

\* Both ways of loading implement GypClosure: files are loaded one by one, each because it
\* was asked for or a loaded file depends on it, and success means that none is missing.
THEOREM LoadingImplementsClosure == LoadSpec => LoadsClosure
<1>1. LoadInputOK /\ LoadInit => Closure!Init
  BY DEF LoadInit, Closure!Init
<1> QED BY InitIInv, NextIInv, <1>1, StepIsClosureStep, PTL DEF LoadSpec, LoadsClosure, Closure!Spec

-----------------------------------------------------------------------------
(***************************************************************************)
(* Sorting targets and build files, for any graph.  The set holds exactly  *)
(* the nodes that are not listed and whose dependencies are.  No node of a *)
(* cycle is ever listed: the first would need another one before it.       *)
(***************************************************************************)
Listed == Elements(flat_list)

GraphTypeOK ==
  /\ IsFiniteSet(DOMAIN graph) /\ \A n \in DOMAIN graph : graph[n] \subseteq DOMAIN graph
  /\ flat_list \in Seq(DOMAIN graph)
  /\ in_degree_zeros \subseteq DOMAIN graph

\* The set holds the nodes that may come next, all of them and no other.
ZerosReady == in_degree_zeros = {n \in DOMAIN graph \ Listed : Ready(n, flat_list)}

\* The list has no room for a node twice, which also counts its nodes.
NoneTwice ==
  /\ \A i, j \in DOMAIN flat_list : flat_list[i] = flat_list[j] => i = j
  /\ IsFiniteSet(Listed) /\ Cardinality(Listed) = Len(flat_list)

DependenciesFirst ==
  \A i \in DOMAIN flat_list : \A d \in graph[flat_list[i]] : \E j \in 1..(i - 1) : flat_list[j] = d

NoneOfACycle == \A nodes \in SUBSET DOMAIN graph : Cyclic(nodes) => nodes \intersect Listed = {}

GraphInv == GraphTypeOK /\ ZerosReady /\ NoneTwice /\ DependenciesFirst /\ NoneOfACycle

(* What is appended to a list is one more of its elements. *)
LEMMA ElementsAppend ==
  ASSUME NEW T, NEW s \in Seq(T), NEW e \in T
  PROVE  Elements(Append(s, e)) = Elements(s) \union {e}
<1>1. /\ DOMAIN s = 1..Len(s) /\ Len(s) \in Nat
      /\ DOMAIN Append(s, e) = 1..(Len(s) + 1)
      /\ \A i \in 1..Len(s) : Append(s, e)[i] = s[i]
      /\ Append(s, e)[Len(s) + 1] = e
  BY AppendProperties, LenProperties
<1>2. ASSUME NEW x \in Elements(Append(s, e))  PROVE x \in Elements(s) \union {e}
  <2>1. PICK i \in 1..(Len(s) + 1) : x = Append(s, e)[i]
    BY <1>1 DEF Elements
  <2>2. i \in 1..Len(s) \/ i = Len(s) + 1
    BY <1>1
  <2> QED
    BY <1>1, <2>1, <2>2 DEF Elements
<1>3. ASSUME NEW x \in Elements(s) \union {e}  PROVE x \in Elements(Append(s, e))
  <2>1. \E i \in 1..(Len(s) + 1) : x = Append(s, e)[i]
    <3>1. CASE x = e
      BY <1>1, <3>1
    <3>2. CASE x \in Elements(s)
      <4>1. PICK i \in 1..Len(s) : x = s[i]
        BY <1>1, <3>2 DEF Elements
      <4>2. i \in 1..(Len(s) + 1) /\ Append(s, e)[i] = x
        BY <1>1, <4>1
      <4> QED BY <4>2
    <3> QED BY <3>1, <3>2
  <2> QED
    BY <1>1, <2>1 DEF Elements
<1> QED
  BY <1>2, <1>3

(* What comes first in the list is listed. *)
LEMMA ListedFirst ==
  ASSUME GraphTypeOK, DependenciesFirst, NEW n \in Listed
  PROVE  graph[n] \subseteq Listed
<1>1. DOMAIN flat_list = 1..Len(flat_list) /\ Len(flat_list) \in Nat
  BY LenProperties DEF GraphTypeOK
<1>2. PICK i \in DOMAIN flat_list : n = flat_list[i]
  BY DEF Listed, Elements
<1>3. ASSUME NEW d \in graph[n]  PROVE d \in Listed
  <2>1. PICK j \in 1..(i - 1) : flat_list[j] = d
    BY <1>2 DEF DependenciesFirst
  <2>2. j \in DOMAIN flat_list
    BY <1>1
  <2> QED
    BY <2>1, <2>2 DEF Listed, Elements
<1> QED
  BY <1>3

(* Before the first graph there is nothing to sort. *)
LEMMA GraphInit == NoGraph => GraphInv
<1> SUFFICES ASSUME NoGraph PROVE GraphInv
  OBVIOUS
<1>1. DOMAIN graph = {} /\ DOMAIN flat_list = {} /\ Len(flat_list) = 0 /\ in_degree_zeros = {} /\ flat_list = <<>>
  BY DEF NoGraph
<1>2. Listed = {}
  BY <1>1 DEF Listed, Elements
<1>3. flat_list \in Seq(DOMAIN graph)
  BY <1>1
<1> QED
  BY <1>1, <1>2, <1>3, FS_EmptySet DEF GraphInv, GraphTypeOK, ZerosReady, NoneTwice, DependenciesFirst, NoneOfACycle

(* At the start the nodes that may come next are those without dependencies. *)
LEMMA NewGraphKeeps == NewGraph => GraphInv'
<1> SUFFICES ASSUME NewGraph PROVE GraphInv'
  OBVIOUS
<1>1. /\ flat_list' = <<>> /\ IsFiniteSet(DOMAIN graph')
      /\ \A n \in DOMAIN graph' : graph'[n] \subseteq DOMAIN graph'
      /\ in_degree_zeros' = {n \in DOMAIN graph' : graph'[n] = {}}
  BY DEF NewGraph, StartFlatten
<1>2. DOMAIN flat_list' = {} /\ Len(flat_list') = 0 /\ flat_list' \in Seq(DOMAIN graph')
  BY <1>1
<1>3. Elements(flat_list') = {} /\ Listed' = {}
  BY <1>2 DEF Listed, Elements
<1>4. GraphTypeOK'
  BY <1>1, <1>2 DEF GraphTypeOK
<1>5. ZerosReady'
  BY <1>1, <1>3 DEF ZerosReady, Ready
<1>6. NoneTwice' /\ DependenciesFirst' /\ NoneOfACycle'
  BY <1>2, <1>3, FS_EmptySet DEF NoneTwice, DependenciesFirst, NoneOfACycle
<1> QED
  BY <1>4, <1>5, <1>6 DEF GraphInv

(* A node whose dependencies are listed is appended; those that waited for it
   only are the new ones that may come next. *)
LEMMA PopKeeps == ASSUME GraphInv, NEW node \in in_degree_zeros, Pop(node)  PROVE GraphInv'
<1> DEFINE D == DOMAIN graph
           n == Len(flat_list)
<1>1. /\ graph' = graph /\ flat_list' = Append(flat_list, node) /\ n \in Nat
      /\ flat_list \in Seq(D) /\ node \in D /\ DOMAIN flat_list = 1..n
  BY LenProperties DEF Pop, GraphInv, GraphTypeOK
<1>2. /\ flat_list' \in Seq(D) /\ Len(flat_list') = n + 1 /\ DOMAIN flat_list' = 1..(n + 1)
      /\ \A i \in 1..n : flat_list'[i] = flat_list[i]
      /\ flat_list'[n + 1] = node
  BY <1>1, AppendProperties, LenProperties
<1>3. Listed' = Listed \union {node}
  BY <1>1, ElementsAppend DEF Listed
<1>4. node \notin Listed /\ graph[node] \subseteq Listed
  BY DEF GraphInv, ZerosReady, Ready, Listed
<1>5. GraphTypeOK'
  <2>1. in_degree_zeros' \subseteq D
    BY DEF Pop, GraphInv, GraphTypeOK
  <2> QED
    BY <1>1, <1>2, <2>1 DEF GraphInv, GraphTypeOK
<1>6. ZerosReady'
  <2>1. in_degree_zeros' = (in_degree_zeros \ {node}) \union {d \in D : node \in graph[d] /\ graph[d] \subseteq Listed'}
    BY <1>1 DEF Pop, Ready, Listed
  <2>2. in_degree_zeros = {d \in D \ Listed : graph[d] \subseteq Listed}
    BY DEF GraphInv, ZerosReady, Ready, Listed
  <2>3. ASSUME NEW d \in D, node \in graph[d]  PROVE d \notin Listed'
    <3>1. d \notin Listed
      BY <1>4, <2>3, ListedFirst DEF GraphInv
    <3>2. d # node
      BY <1>4, <2>3
    <3> QED BY <1>3, <3>1, <3>2
  <2>4. in_degree_zeros' = {d \in D \ Listed' : graph[d] \subseteq Listed'}
    BY <1>3, <2>1, <2>2, <2>3
  <2> QED
    BY <1>1, <2>4 DEF ZerosReady, Ready, Listed
<1>7. NoneTwice'
  <2>1. ASSUME NEW i \in 1..(n + 1), NEW j \in 1..(n + 1), flat_list'[i] = flat_list'[j]  PROVE i = j
    <3>1. \A k \in 1..n : flat_list[k] # node
      BY <1>1, <1>4 DEF Listed, Elements
    <3>2. \A k, l \in 1..n : flat_list[k] = flat_list[l] => k = l
      BY <1>1 DEF GraphInv, NoneTwice
    <3> HIDE DEF n
    <3> QED
      BY <1>1, <1>2, <2>1, <3>1, <3>2
  <2>2. IsFiniteSet(Listed') /\ Cardinality(Listed') = n + 1
    BY <1>3, <1>4, FS_AddElement DEF GraphInv, NoneTwice
  <2> QED
    BY <1>2, <2>1, <2>2 DEF NoneTwice
<1>8. DependenciesFirst'
  <2> SUFFICES ASSUME NEW i \in 1..(n + 1), NEW d \in graph[flat_list'[i]]
               PROVE  \E j \in 1..(i - 1) : flat_list'[j] = d
    BY <1>1, <1>2 DEF DependenciesFirst
  <2>1. CASE i \in 1..n
    <3>1. PICK j \in 1..(i - 1) : flat_list[j] = d
      BY <1>1, <1>2, <2>1 DEF GraphInv, DependenciesFirst
    <3>2. j \in 1..n
      BY <1>1, <2>1
    <3> QED
      BY <1>2, <3>1, <3>2
  <2>2. CASE i = n + 1
    <3>1. d \in Listed
      BY <1>2, <1>4, <2>2
    <3>2. PICK j \in 1..n : flat_list[j] = d
      BY <1>1, <3>1 DEF Listed, Elements
    <3>3. j \in 1..(i - 1)
      BY <1>1, <2>2
    <3> QED
      BY <1>2, <3>2, <3>3
  <2> QED
    BY <1>1, <2>1, <2>2
<1>9. NoneOfACycle'
  <2> SUFFICES ASSUME NEW nodes \in SUBSET D, \A x \in nodes : graph[x] \intersect nodes # {}
               PROVE  nodes \intersect Listed' = {}
    BY <1>1 DEF NoneOfACycle, Cyclic
  <2>1. nodes \intersect Listed = {}
    BY DEF GraphInv, NoneOfACycle, Cyclic
  <2> QED
    BY <1>3, <1>4, <2>1
<1> QED
  BY <1>5, <1>6, <1>7, <1>8, <1>9 DEF GraphInv

(* A graph that was flattened is all in the list, or has a cycle. *)
LEMMA GraphInvSorted == GraphInv => SortedForGenerators
<1> SUFFICES ASSUME GraphInv PROVE SortedForGenerators
  OBVIOUS
<1>1. FlatSorted
  BY DEF GraphInv, NoneTwice, DependenciesFirst, FlatSorted
<1>2. ASSUME Flattened, Circular  PROVE \E nodes \in SUBSET DOMAIN graph : nodes # {} /\ Cyclic(nodes)
  <2> DEFINE left == DOMAIN graph \ Listed
  <2>1. left # {}
    <3>1. Listed \subseteq DOMAIN graph
      BY LenProperties, ElementOfSeq DEF GraphInv, GraphTypeOK, Listed, Elements
    <3>2. Cardinality(Listed) # Cardinality(DOMAIN graph)
      BY <1>2 DEF Circular, GraphInv, NoneTwice
    <3> QED
      BY <3>1, <3>2
  <2>2. \A m \in left : ~(graph[m] \subseteq Listed)
    BY <1>2 DEF Flattened, GraphInv, ZerosReady, Ready, Listed
  <2>3. ASSUME NEW m \in left  PROVE graph[m] \intersect left # {}
    BY <2>2 DEF GraphInv, GraphTypeOK
  <2> QED
    BY <2>1, <2>3 DEF Cyclic
<1>3. ASSUME NEW nodes \in SUBSET DOMAIN graph, nodes # {}, Cyclic(nodes)  PROVE Circular
  <2>1. nodes \intersect Listed = {}
    BY <1>3 DEF GraphInv, NoneOfACycle
  <2>2. Listed \subseteq DOMAIN graph
    BY LenProperties, ElementOfSeq DEF GraphInv, GraphTypeOK, Listed, Elements
  <2>3. Listed # DOMAIN graph
    BY <1>3, <2>1
  <2>4. Cardinality(Listed) # Cardinality(DOMAIN graph)
    BY <2>2, <2>3, FS_Subset DEF GraphInv, GraphTypeOK
  <2> QED
    BY <2>4 DEF Circular, GraphInv, NoneTwice
<1> QED
  BY <1>1, <1>2, <1>3 DEF SortedForGenerators, CyclesRefused

(* FlattenToList sorts any graph, whatever pop() takes from the set: what comes
   out is sorted, and a graph is refused if and only if it has a cycle. *)
THEOREM GraphSorted == GraphSpec => []SortedForGenerators
<1>1. GraphInv /\ [GraphNext]_graphVars => GraphInv'
  <2> SUFFICES ASSUME GraphInv, [GraphNext]_graphVars PROVE GraphInv'
    OBVIOUS
  <2>1. CASE NewGraph
    BY <2>1, NewGraphKeeps
  <2>2. ASSUME NEW n \in in_degree_zeros, Pop(n)  PROVE GraphInv'
    BY <2>2, PopKeeps
  <2>3. CASE UNCHANGED graphVars
    BY <2>3 DEF graphVars, GraphInv, GraphTypeOK, ZerosReady, NoneTwice, DependenciesFirst, NoneOfACycle,
                Listed, Elements, Ready, Cyclic
  <2> QED
    BY <2>1, <2>2, <2>3 DEF GraphNext
<1> QED
  BY GraphInit, <1>1, GraphInvSorted, PTL DEF GraphSpec
=============================================================================
