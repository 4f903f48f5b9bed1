---------------------------- MODULE TimersProofs ----------------------------
(***************************************************************************)
(* The idle lists of lib/timers.js stay sound for any number of objects,   *)
(* any durations and whatever the callbacks do in the middle of ontimeout. *)
(*                                                                         *)
(* The invariant has two parts.  ListsInv speaks of the lists, the table   *)
(* and the watchers, as a predicate of the state they are in, so that      *)
(* leaving and joining a list are one lemma each.  ItemInv speaks of one   *)
(* object at a time: what is true of it while it stands in a list, and of  *)
(* the Timer it may have of its own.                                       *)
(***************************************************************************)
EXTENDS Timers, SequenceTheorems, WellFoundedInduction, TLAPS

\* Every item stands in one place at most.
Once(q) ==
  \A l, m \in ListIds : \A j \in 1..Len(q[l]), k \in 1..Len(q[m]) :
    q[l][j] = q[m][k] => l = m /\ j = k

\* The most idle item of every list comes first.
Ordered(q, it) ==
  \A l \in ListIds : \A j, k \in 1..Len(q[l]) :
    j < k => it[q[l][j]].idleStart <= it[q[l][k]].idleStart

\* Items stand in lists of their duration.
Fitting(q, w, it) ==
  \A l \in ListIds, i \in Items : Q!Holds(q, l, i) => it[i].idleTimeout = w[l].msecs

\* The table leads to open lists of the duration it is asked for.
Table(ls, w) == \A d \in Durations : ls[d] # 0 => w[ls[d]].open /\ w[ls[d]].msecs = d

\* A list that was closed is empty and has no watcher.
ClosedEmpty(q, w) == \A l \in ListIds : ~w[l].open => q[l] = <<>> /\ w[l].due = Stopped

\* A list in the table that is empty is being walked, or was left half way.
EmptyWalked(q, ls, w, fr) ==
  \A d \in Durations : ls[d] # 0 /\ q[ls[d]] = <<>> =>
    /\ w[ls[d]].due = Stopped
    /\ fr.l = ls[d] \/ w[ls[d]].left \/ fr.at = "dead"

\* TimelyWatcher, for every item of the list and not only for the first.
Timely(q, w, it, fr) ==
  \A l \in ListIds, i \in Items :
    Q!Holds(q, l, i) /\ fr.l # l /\ fr.at # "dead" /\ ~w[l].left =>
      w[l].due # Stopped /\ w[l].due <= it[i].idleStart + w[l].msecs + Skew

WatcherType == [msecs : Durations \cup {0}, due : Nat \cup {Stopped}, open : BOOLEAN, left : BOOLEAN]

ListTypes(q, ls, w) ==
  /\ q \in [ListIds -> Seq(Items)]
  /\ ls \in [Durations -> ListIds \cup {0}]
  /\ w \in [ListIds -> WatcherType]
  /\ \A l \in ListIds : w[l].open => w[l].msecs \in Durations

ListsInv(q, ls, w, it, fr) ==
  /\ ListTypes(q, ls, w) /\ Once(q) /\ Ordered(q, it) /\ Fitting(q, w, it)
  /\ Table(ls, w) /\ ClosedEmpty(q, w) /\ EmptyWalked(q, ls, w, fr) /\ Timely(q, w, it, fr)

\* What is true of an item that stands in a list.
Ready(i) ==
  /\ item[i].made /\ item[i].idleNext
  /\ lastActive[i] = item[i].idleStart
  /\ i \in Timeouts => item[i].onTimeout /\ fired[i] = 0 /\ ~handle[i].made

ReadyInv == \A i \in Items : Q!Linked(queue, i) => Ready(i)

\* A Timer that will fire was not closed, and not before its time by the clock it counts
\* from.
Timed(h) == h.due # Stopped => h.open /\ h.due + h.lag >= h.when

\* A Timer of one's own that will fire has a function to call, unless unref came
\* late; that of a Timeout has fired for no call yet.
OwnInv ==
  /\ \A i \in Owners :
       /\ ~handle[i].made => handle[i].due = Stopped /\ ~handle[i].fn /\ ~handle[i].late
       /\ handle[i].due # Stopped /\ ~handle[i].late => handle[i].fn
       /\ Timed(handle[i])
  /\ \A i \in Timeouts :
       /\ handle[i].repeat = 0
       /\ ~item[i].made => ~handle[i].made /\ fired[i] = 0
       /\ ~item[i].onTimeout => ~handle[i].fn
       /\ handle[i].due # Stopped /\ ~handle[i].late => fired[i] = 0

\* Where the thread is: in ontimeout of a list that was not restarted meanwhile,
\* with a reading of the clock that is behind it.
FrameInv ==
  /\ frame \in [at : {"loop", "list", "item", "own", "dead"}, l : ListIds \cup {0}, t : Nat,
                i : Items \cup Owners \cup {Nobody}]
  /\ frame.l # 0 <=> frame.at \in {"list", "item"}
  /\ frame.at = "loop" => frame = InLoop
  /\ frame.l # 0 => /\ watcher[frame.l].due = Stopped
                    /\ loopTime <= frame.t + Skew /\ frame.t <= now
  /\ frame.at = "dead" => frame.i \in Owners \cup {Nobody}

ItemType == [idleTimeout : Durations \cup {-1}, idleNext : BOOLEAN, idleStart : Nat, when : Nat,
             onTimeout : BOOLEAN, made : BOOLEAN]
HandleType == [due : Nat \cup {Stopped}, repeat : Durations \cup {0},
               open : BOOLEAN, closing : BOOLEAN, ref : BOOLEAN, fn : BOOLEAN, made : BOOLEAN,
               when : Nat, lag : Int, late : BOOLEAN]

ClockInv == now \in 0..MaxTime /\ loopTime \in 0..(MaxTime + Skew) /\ loopTime <= now + Skew

ObjectTypes ==
  /\ item \in [Items -> ItemType] /\ \A i \in Items : item[i].idleStart <= now
  /\ handle \in [Owners -> HandleType]
  /\ lastActive \in [Items -> Nat \cup {Never}] /\ fired \in [Timeouts -> Nat]

\* Sockets are there from the start.
MadeInv == \A i \in Sockets : item[i].made

IInv ==
  /\ program \in Programs /\ ClockInv /\ ObjectTypes /\ MadeInv
  /\ ListsInv(queue, lists, watcher, item, frame)
  /\ ReadyInv /\ OwnInv /\ FrameInv /\ FiresOnce

-----------------------------------------------------------------------------
\* A nonempty set of natural numbers has a least element: FreeList offers one.
LEMMA LeastElement ==
  ASSUME NEW T, T \subseteq Nat, T # {}
  PROVE  \E m \in T : \A k \in T : m <= k
<1> DEFINE R == OpToRel(<, Nat)
<1>1. IsWellFoundedOn(R, Nat)
  BY NatLessThanWellFounded
<1>2. \A x, y \in Nat : y < x => <<y, x>> \in R
  BY DEF OpToRel
<1> HIDE DEF R
<1>3. PICK m \in T : \A k \in T : ~ (<<k, m>> \in R)
  BY <1>1, WFMin
<1>4. \A k \in T : ~(k < m)
  BY <1>2, <1>3
<1> QED BY <1>4

\* A list with an item at its end, and without the one at its head.
LEMMA ListFacts ==
  ASSUME NEW s \in Seq(Items)
  PROVE  /\ Len(s) \in Nat
         /\ \A k \in 1..Len(s) : s[k] \in Items
         /\ s = <<>> <=> Len(s) = 0
         /\ \A i \in Items : /\ Append(s, i) \in Seq(Items)
                             /\ Len(Append(s, i)) = Len(s) + 1
                             /\ Append(s, i)[Len(s) + 1] = i
                             /\ \A k \in 1..Len(s) : Append(s, i)[k] = s[k]
         /\ s # <<>> => /\ Head(s) = s[1]
                        /\ Tail(s) \in Seq(Items)
                        /\ Len(Tail(s)) = Len(s) - 1
                        /\ \A k \in 1..(Len(s) - 1) : Tail(s)[k] = s[k + 1]
<1>1. Len(s) \in Nat /\ \A k \in 1..Len(s) : s[k] \in Items
  BY LenProperties, ElementOfSeq
<1>2. s = <<>> <=> Len(s) = 0
  BY EmptySeq
<1>3. ASSUME NEW i \in Items
      PROVE  /\ Append(s, i) \in Seq(Items)
             /\ Len(Append(s, i)) = Len(s) + 1
             /\ Append(s, i)[Len(s) + 1] = i
             /\ \A k \in 1..Len(s) : Append(s, i)[k] = s[k]
  BY AppendProperties
<1>4. ASSUME s # <<>>
      PROVE  /\ Head(s) = s[1]
             /\ Tail(s) \in Seq(Items)
             /\ Len(Tail(s)) = Len(s) - 1
             /\ \A k \in 1..(Len(s) - 1) : Tail(s)[k] = s[k + 1]
  BY <1>1, <1>4, HeadTailProperties
<1> QED BY <1>1, <1>2, <1>3, <1>4

\* A function on 1..n is a sequence of length n.
LEMMA FunctionIsSequence ==
  ASSUME NEW n \in Nat, NEW f \in [1..n -> Items]
  PROVE  f \in Seq(Items) /\ Len(f) = n
<1>1. f \in Seq(Items)
  BY SeqDef
<1>2. Len(f) \in Nat /\ 1..Len(f) = 1..n
  BY <1>1, LenProperties
<1>3. n = 0 => Len(f) = 0
  BY <1>2
<1> QED BY <1>1, <1>2, <1>3

-----------------------------------------------------------------------------
\* A list r is what is left of s without i: the places of r are places of s, in
\* the same order.
Chosen(g, r, s, i) ==
  /\ g \in [1..Len(r) -> 1..Len(s)]
  /\ \A k \in 1..Len(r) : r[k] = s[g[k]] /\ r[k] # i
  /\ \A j, k \in 1..Len(r) : j < k => g[j] < g[k]
  /\ \A m \in 1..Len(s) : s[m] # i => \E k \in 1..Len(r) : g[k] = m

Rest(r, s, i) == r \in Seq(Items) /\ \E g : Chosen(g, r, s, i)

LEMMA WithoutRest ==
  ASSUME NEW q \in [ListIds -> Seq(Items)], Once(q), NEW i \in Items, NEW l \in ListIds
  PROVE  Rest(Q!Without(q, i)[l], q[l], i)
<1> DEFINE s == q[l]
<1>0. PICK n \in Nat : n = Len(s)
  BY ListFacts
<1>1. \A k \in 1..n : s[k] \in Items
  BY <1>0, ListFacts
<1>2. CASE ~Q!Holds(q, l, i)
  <2>1. Q!Without(q, i)[l] = s
    BY <1>2 DEF Q!Without
  <2>2. \A k \in 1..n : s[k] # i
    BY <1>0, <1>2 DEF Q!Holds
  <2> DEFINE g == [k \in 1..n |-> k]
  <2>3. g \in [1..n -> 1..n]
    OBVIOUS
  <2>4. /\ \A k \in 1..n : s[k] = s[g[k]] /\ s[k] # i
        /\ \A j, k \in 1..n : j < k => g[j] < g[k]
        /\ \A m \in 1..n : s[m] # i => \E k \in 1..n : g[k] = m
    BY <2>2
  <2> HIDE DEF g
  <2>5. s \in Seq(Items)
    OBVIOUS
  <2> HIDE DEF s
  <2>6. Chosen(g, s, s, i)
    BY <1>0, <2>3, <2>4 DEF Chosen
  <2>7. Rest(s, s, i)
    BY <2>5, <2>6 DEF Rest
  <2> QED BY <2>1, <2>7 DEF s
<1>3. CASE Q!Holds(q, l, i)
  <2> DEFINE at == CHOOSE k \in 1..Len(s) : s[k] = i
             r == [k \in 1..(Len(s) - 1) |-> IF k < at THEN s[k] ELSE s[k + 1]]
             g == [k \in 1..(n - 1) |-> IF k < at THEN k ELSE k + 1]
  <2>1. at \in 1..n /\ s[at] = i
    BY <1>0, <1>3 DEF Q!Holds
  <2>2. Q!Without(q, i)[l] = r
    BY <1>3 DEF Q!Without
  <2>3. \A k \in 1..n : s[k] = i => k = at
    BY <1>0, <2>1 DEF Once
  <2> HIDE DEF at
  <2>4. PICK p \in Nat : p = n - 1
    BY <2>1
  <2>5. g \in [1..p -> 1..n]
    BY <2>1, <2>4
  <2>6. r = [k \in 1..p |-> IF k < at THEN s[k] ELSE s[k + 1]]
    BY <1>0, <2>4
  <2>7. \A k \in 1..p : k \in 1..n /\ k + 1 \in 1..n
    BY <2>4
  <2>8. r \in [1..p -> Items]
    BY <1>1, <2>6, <2>7
  <2>9. \A k \in 1..p : /\ r[k] = s[g[k]]
                        /\ g[k] = IF k < at THEN k ELSE k + 1
    BY <2>4, <2>6
  <2> HIDE DEF g
  <2>10. \A j, k \in 1..p : j < k => g[j] < g[k]
    BY <1>0, <2>1, <2>4, <2>9
  <2>11. \A m \in 1..n : s[m] # i => \E k \in 1..p : g[k] = m
    <3> SUFFICES ASSUME NEW m \in 1..n, s[m] # i
                 PROVE  \E k \in 1..p : g[k] = m
      OBVIOUS
    <3>1. m # at
      BY <2>1
    <3>2. CASE m < at
      <4>1. m \in 1..p
        BY <1>0, <2>1, <2>4, <3>2
      <4> QED BY <2>9, <3>2, <4>1
    <3>3. CASE at < m
      <4>1. m - 1 \in 1..p /\ ~(m - 1 < at) /\ (m - 1) + 1 = m
        BY <1>0, <2>1, <2>4, <3>3
      <4> QED BY <2>9, <4>1
    <3> QED BY <1>0, <2>1, <3>1, <3>2, <3>3
  <2>12. \A k \in 1..p : g[k] # at /\ g[k] \in 1..n
    <3> SUFFICES ASSUME NEW k \in 1..p PROVE g[k] # at /\ g[k] \in 1..n
      OBVIOUS
    <3>1. g[k] = IF k < at THEN k ELSE k + 1
      BY <2>9
    <3>2. g[k] \in 1..n
      BY <2>5
    <3> QED BY <2>1, <3>1, <3>2
  <2> HIDE DEF r
  <2>13. r \in Seq(Items) /\ Len(r) = p
    BY <2>8, FunctionIsSequence
  <2>14. \A k \in 1..p : r[k] # i
    BY <2>3, <2>9, <2>12
  <2> HIDE DEF s
  <2>15. Chosen(g, r, s, i)
    BY <1>0, <2>5, <2>9, <2>10, <2>11, <2>13, <2>14 DEF Chosen
  <2>16. Rest(r, s, i)
    BY <2>13, <2>15 DEF Rest
  <2> QED BY <2>2, <2>16 DEF s
<1> QED BY <1>2, <1>3

\* The lists without i: an item may be dropped from one list or from none.
LEMMA WithoutKeeps ==
  ASSUME NEW q \in [ListIds -> Seq(Items)], Once(q), NEW i \in Items
  PROVE  /\ Q!Without(q, i) \in [ListIds -> Seq(Items)]
         /\ Once(Q!Without(q, i))
         /\ \A l \in ListIds : \A x \in Items :
              Q!Holds(Q!Without(q, i), l, x) <=> Q!Holds(q, l, x) /\ x # i
         /\ \A it : Ordered(q, it) => Ordered(Q!Without(q, i), it)
<1> DEFINE r == Q!Without(q, i)
<1>1. r = [l \in ListIds |-> r[l]]
  BY DEF Q!Without
<1>2. \A l \in ListIds : Rest(r[l], q[l], i)
  BY WithoutRest
<1>3. r \in [ListIds -> Seq(Items)]
  BY <1>1, <1>2 DEF Rest
<1> HIDE DEF r
<1>4. \A l \in ListIds : Len(r[l]) \in Nat /\ Len(q[l]) \in Nat
  BY <1>3, ListFacts
<1>5. Once(r)
  <2> SUFFICES ASSUME NEW l \in ListIds, NEW m \in ListIds,
                      NEW j \in 1..Len(r[l]), NEW k \in 1..Len(r[m]), r[l][j] = r[m][k]
               PROVE  l = m /\ j = k
    BY DEF Once
  <2>1. PICK g : Chosen(g, r[l], q[l], i)
    BY <1>2 DEF Rest
  <2>2. PICK h : Chosen(h, r[m], q[m], i)
    BY <1>2 DEF Rest
  <2>a. g[j] \in 1..Len(q[l]) /\ h[k] \in 1..Len(q[m]) /\ q[l][g[j]] = q[m][h[k]]
    BY <2>1, <2>2 DEF Chosen
  <2>3. l = m /\ g[j] = h[k]
    BY <2>a DEF Once
  <2>4. r[l][j] = q[l][g[j]] /\ r[l][k] = q[l][g[k]] /\ g[j] \in 1..Len(q[l]) /\ g[k] \in 1..Len(q[l])
    BY <2>1, <2>3 DEF Chosen
  <2>b. q[l][g[j]] = q[l][g[k]]
    BY <2>3, <2>4
  <2>5. g[j] = g[k]
    <3>1. \A x, y \in 1..Len(q[l]) : q[l][x] = q[l][y] => x = y
      BY Zenon DEF Once
    <3> QED BY <2>4, <2>b, <3>1
  <2>6. ~(j < k) /\ ~(k < j)
    BY <1>4, <2>1, <2>3, <2>4, <2>5 DEF Chosen
  <2> QED BY <1>4, <2>3, <2>6
<1>6. ASSUME NEW l \in ListIds, NEW x \in Items
      PROVE  Q!Holds(r, l, x) <=> Q!Holds(q, l, x) /\ x # i
  <2>1. PICK g : Chosen(g, r[l], q[l], i)
    BY <1>2 DEF Rest
  <2>2. ASSUME Q!Holds(r, l, x) PROVE Q!Holds(q, l, x) /\ x # i
    BY <2>1, <2>2 DEF Chosen, Q!Holds
  <2>3. ASSUME Q!Holds(q, l, x), x # i PROVE Q!Holds(r, l, x)
    <3>1. PICK m \in 1..Len(q[l]) : q[l][m] = x
      BY <2>3 DEF Q!Holds
    <3>2. PICK k \in 1..Len(r[l]) : g[k] = m
      BY <2>1, <2>3, <3>1 DEF Chosen
    <3> QED BY <2>1, <3>1, <3>2 DEF Chosen, Q!Holds
  <2> QED BY <2>2, <2>3
<1>7. ASSUME NEW it, Ordered(q, it)
      PROVE  Ordered(r, it)
  <2> SUFFICES ASSUME NEW l \in ListIds, NEW j \in 1..Len(r[l]), NEW k \in 1..Len(r[l]), j < k
               PROVE  it[r[l][j]].idleStart <= it[r[l][k]].idleStart
    BY DEF Ordered
  <2>1. PICK g : Chosen(g, r[l], q[l], i)
    BY <1>2 DEF Rest
  <2>2. g[j] \in 1..Len(q[l]) /\ g[k] \in 1..Len(q[l]) /\ g[j] < g[k]
    BY <2>1 DEF Chosen
  <2> QED BY <1>7, <2>1, <2>2 DEF Chosen, Ordered
<1> QED BY <1>3, <1>5, <1>6, <1>7 DEF r

\* Item i is as idle as the least idle one, the others are as idle as they were.
LeastIdle(i, it, new) ==
  /\ \A x \in Items : x # i => new[x].idleStart = it[x].idleStart
  /\ \A x \in Items : new[x].idleStart <= new[i].idleStart

\* Item i at the end of list t: it stands there and nowhere else, and behind every
\* item that became idle no later.
LEMMA AppendKeeps ==
  ASSUME NEW q \in [ListIds -> Seq(Items)], Once(q), NEW i \in Items, NEW t \in ListIds
  PROVE  /\ Q!AppendTo(q, t, i) \in [ListIds -> Seq(Items)]
         /\ Once(Q!AppendTo(q, t, i))
         /\ \A l \in ListIds : \A x \in Items :
              Q!Holds(Q!AppendTo(q, t, i), l, x) <=> (Q!Holds(q, l, x) /\ x # i) \/ (l = t /\ x = i)
         /\ \A it, new : Ordered(q, it) /\ LeastIdle(i, it, new) => Ordered(Q!AppendTo(q, t, i), new)
<1> DEFINE r == Q!Without(q, i)
           u == Q!AppendTo(q, t, i)
<1>1. /\ r \in [ListIds -> Seq(Items)] /\ Once(r)
      /\ \A l \in ListIds : \A x \in Items : Q!Holds(r, l, x) <=> Q!Holds(q, l, x) /\ x # i
      /\ \A it : Ordered(q, it) => Ordered(r, it)
  BY WithoutKeeps
<1>2. u = [r EXCEPT ![t] = Append(r[t], i)]
  BY DEF Q!AppendTo
<1> HIDE DEF r, u
<1>3. PICK n \in Nat : n = Len(r[t])
  BY <1>1, ListFacts
<1>4. /\ u[t] \in Seq(Items) /\ Len(u[t]) = n + 1 /\ u[t][n + 1] = i
      /\ \A k \in 1..n : u[t][k] = r[t][k]
      /\ \A l \in ListIds : l # t => u[l] = r[l]
  BY <1>1, <1>2, <1>3, ListFacts
<1>5. u \in [ListIds -> Seq(Items)]
  BY <1>1, <1>2, <1>4
<1>6. \A l \in ListIds : \A k \in 1..Len(r[l]) : r[l][k] \in Items /\ r[l][k] # i
  <2> SUFFICES ASSUME NEW l \in ListIds, NEW k \in 1..Len(r[l]) PROVE r[l][k] \in Items /\ r[l][k] # i
    OBVIOUS
  <2>1. r[l][k] \in Items
    BY <1>1, ListFacts
  <2>2. Q!Holds(r, l, r[l][k])
    BY DEF Q!Holds
  <2> QED BY <1>1, <2>1, <2>2
\* A place of u is one of r, or the new one.
<1>7. ASSUME NEW l \in ListIds, NEW k \in 1..Len(u[l])
      PROVE  \/ k \in 1..Len(r[l]) /\ u[l][k] = r[l][k] /\ u[l][k] # i
             \/ l = t /\ k = n + 1 /\ u[l][k] = i
  <2>1. CASE l # t
    BY <1>4, <1>6, <2>1
  <2>2. CASE l = t
    <3>1. k \in 1..(n + 1)
      BY <1>4, <2>2
    <3>2. CASE k = n + 1
      BY <1>4, <2>2, <3>2
    <3>3. CASE k \in 1..n
      <4>1. u[l][k] = r[l][k] /\ k \in 1..Len(r[l])
        BY <1>3, <1>4, <2>2, <3>3
      <4> QED BY <1>6, <4>1
    <3> QED BY <3>1, <3>2, <3>3
  <2> QED BY <2>1, <2>2
<1>8. Once(u)
  <2> SUFFICES ASSUME NEW l \in ListIds, NEW m \in ListIds,
                      NEW j \in 1..Len(u[l]), NEW k \in 1..Len(u[m]), u[l][j] = u[m][k]
               PROVE  l = m /\ j = k
    BY DEF Once
  <2>1. CASE u[l][j] = i
    BY <1>7, <2>1
  <2>2. CASE u[l][j] # i
    <3>1. /\ j \in 1..Len(r[l]) /\ k \in 1..Len(r[m]) /\ r[l][j] = r[m][k]
      BY <1>7, <2>2
    <3>2. Once(r)
      BY <1>1
    <3>3. \A x \in 1..Len(r[l]), y \in 1..Len(r[m]) : r[l][x] = r[m][y] => l = m /\ x = y
      BY <3>2, Zenon DEF Once
    <3> QED BY <3>1, <3>3
  <2> QED BY <2>1, <2>2
<1>9. ASSUME NEW l \in ListIds, NEW x \in Items
      PROVE  Q!Holds(u, l, x) <=> (Q!Holds(q, l, x) /\ x # i) \/ (l = t /\ x = i)
  <2>1. ASSUME Q!Holds(u, l, x) PROVE Q!Holds(r, l, x) \/ (l = t /\ x = i)
    <3>1. PICK k \in 1..Len(u[l]) : u[l][k] = x
      BY <2>1 DEF Q!Holds
    <3> QED BY <1>7, <3>1 DEF Q!Holds
  <2>2. ASSUME Q!Holds(r, l, x) PROVE Q!Holds(u, l, x)
    <3>1. PICK k \in 1..Len(r[l]) : r[l][k] = x
      BY <2>2 DEF Q!Holds
    <3>2. k \in 1..Len(u[l]) /\ u[l][k] = r[l][k]
      <4>1. CASE l # t
        BY <1>4, <3>1, <4>1
      <4>2. CASE l = t
        <5>1. k \in 1..n
          BY <1>3, <3>1, <4>2
        <5>2. k \in 1..(n + 1)
          BY <5>1
        <5> QED BY <1>4, <4>2, <5>1, <5>2
      <4> QED BY <4>1, <4>2
    <3> QED BY <3>1, <3>2 DEF Q!Holds
  <2>3. Q!Holds(u, t, i)
    <3>1. n + 1 \in 1..Len(u[t])
      BY <1>4
    <3> QED BY <1>4, <3>1 DEF Q!Holds
  <2> QED BY <1>1, <2>1, <2>2, <2>3
<1>10. ASSUME NEW it, NEW new, Ordered(q, it), LeastIdle(i, it, new)
       PROVE  Ordered(u, new)
  <2> SUFFICES ASSUME NEW l \in ListIds, NEW j \in 1..Len(u[l]), NEW k \in 1..Len(u[l]), j < k
               PROVE  new[u[l][j]].idleStart <= new[u[l][k]].idleStart
    BY DEF Ordered
  <2>1. CASE k \in 1..Len(r[l]) /\ u[l][k] = r[l][k] /\ u[l][k] # i
    <3>1. j # n + 1 \/ l # t
      BY <1>3, <2>1
    <3>2. j \in 1..Len(r[l]) /\ u[l][j] = r[l][j]
      BY <1>7, <3>1
    <3>3. it[r[l][j]].idleStart <= it[r[l][k]].idleStart
      BY <1>1, <1>10, <2>1, <3>2 DEF Ordered
    <3> QED BY <1>6, <1>10, <2>1, <3>2, <3>3 DEF LeastIdle
  <2>2. CASE u[l][k] = i
    <3>1. u[l][j] \in Items
      BY <1>6, <1>7
    <3> QED BY <1>10, <2>2, <3>1 DEF LeastIdle
  <2> QED BY <1>7, <2>1, <2>2
<1> QED BY <1>5, <1>8, <1>9, <1>10 DEF u

\* The item at the head of a list, and the lists once it is taken from there.
LEMMA TailKeeps ==
  ASSUME NEW q \in [ListIds -> Seq(Items)], Once(q), NEW t \in ListIds, q[t] # <<>>
  PROVE  /\ Head(q[t]) \in Items /\ Q!Holds(q, t, Head(q[t]))
         /\ [q EXCEPT ![t] = Tail(@)] \in [ListIds -> Seq(Items)]
         /\ Once([q EXCEPT ![t] = Tail(@)])
         /\ \A l \in ListIds : \A x \in Items :
              Q!Holds([q EXCEPT ![t] = Tail(@)], l, x) <=> Q!Holds(q, l, x) /\ x # Head(q[t])
         /\ \A it : Ordered(q, it) => Ordered([q EXCEPT ![t] = Tail(@)], it)
<1> DEFINE u == [q EXCEPT ![t] = Tail(@)]
<1>1. PICK n \in Nat : n = Len(q[t])
  BY ListFacts
<1>2. /\ n # 0 /\ Head(q[t]) = q[t][1] /\ Tail(q[t]) \in Seq(Items) /\ Len(Tail(q[t])) = n - 1
      /\ \A k \in 1..(n - 1) : Tail(q[t])[k] = q[t][k + 1]
  <2>1. q[t] \in Seq(Items)
    OBVIOUS
  <2> QED BY <1>1, <2>1, ListFacts
<1>3. 1 \in 1..n
  BY <1>2
<1>4. Head(q[t]) \in Items /\ Q!Holds(q, t, Head(q[t]))
  <2>1. q[t][1] \in Items
    BY <1>1, <1>3, ListFacts
  <2> QED BY <1>1, <1>2, <1>3, <2>1 DEF Q!Holds
<1>5. u[t] = Tail(q[t]) /\ \A l \in ListIds : l # t => u[l] = q[l]
  OBVIOUS
<1>6. u \in [ListIds -> Seq(Items)]
  BY <1>2
<1> HIDE DEF u
<1>7. ASSUME NEW l \in ListIds, NEW k \in 1..Len(u[l])
      PROVE  IF l = t THEN k \in 1..(n - 1) /\ k + 1 \in 1..n /\ u[l][k] = q[l][k + 1]
                      ELSE k \in 1..Len(q[l]) /\ u[l][k] = q[l][k]
  <2>1. CASE l # t
    BY <1>5, <2>1
  <2>2. CASE l = t
    <3>1. k \in 1..(n - 1)
      BY <1>2, <1>5, <2>2
    <3>2. k + 1 \in 1..n
      BY <3>1
    <3> QED BY <1>2, <1>5, <2>2, <3>1, <3>2
  <2> QED BY <2>1, <2>2
<1>8. Once(u)
  <2> SUFFICES ASSUME NEW l \in ListIds, NEW m \in ListIds,
                      NEW j \in 1..Len(u[l]), NEW k \in 1..Len(u[m]), u[l][j] = u[m][k]
               PROVE  l = m /\ j = k
    BY DEF Once
  <2>1. PICK a \in 1..Len(q[l]) : u[l][j] = q[l][a] /\ a = IF l = t THEN j + 1 ELSE j
    BY <1>1, <1>7
  <2>2. PICK b \in 1..Len(q[m]) : u[m][k] = q[m][b] /\ b = IF m = t THEN k + 1 ELSE k
    BY <1>1, <1>7
  <2>3. q[l][a] = q[m][b]
    BY <2>1, <2>2
  <2>4. l = m /\ a = b
    BY <2>3 DEF Once
  <2>5. Len(u[l]) \in Nat /\ j \in Nat /\ k \in Nat
    BY <1>6, <2>4, ListFacts
  <2> QED BY <2>1, <2>2, <2>4, <2>5
<1>9. ASSUME NEW l \in ListIds, NEW x \in Items
      PROVE  Q!Holds(u, l, x) <=> Q!Holds(q, l, x) /\ x # Head(q[t])
  <2>1. ASSUME Q!Holds(u, l, x) PROVE Q!Holds(q, l, x) /\ x # Head(q[t])
    <3>1. PICK k \in 1..Len(u[l]) : u[l][k] = x
      BY <2>1 DEF Q!Holds
    <3>2. PICK a \in 1..Len(q[l]) : x = q[l][a] /\ a = IF l = t THEN k + 1 ELSE k
      BY <1>1, <1>7, <3>1
    <3>3. k \in Nat /\ k # 0
      BY <1>6, ListFacts
    <3>4. l # t \/ a # 1
      BY <3>2, <3>3
    <3>5. 1 \in 1..Len(q[t])
      BY <1>1, <1>3
    <3>6. q[l][a] # q[t][1]
      BY <3>4, <3>5 DEF Once
    <3> QED BY <1>2, <3>2, <3>6 DEF Q!Holds
  <2>2. ASSUME Q!Holds(q, l, x), x # Head(q[t]) PROVE Q!Holds(u, l, x)
    <3>1. PICK a \in 1..Len(q[l]) : q[l][a] = x
      BY <2>2 DEF Q!Holds
    <3>2. CASE l # t
      BY <1>5, <3>1, <3>2 DEF Q!Holds
    <3>3. CASE l = t
      <4>1. a \in 1..n /\ a # 1
        BY <1>1, <1>2, <2>2, <3>1, <3>3
      <4>2. a - 1 \in 1..(n - 1) /\ (a - 1) + 1 = a
        BY <4>1
      <4>3. a - 1 \in 1..Len(u[l]) /\ u[l][a - 1] = x
        BY <1>2, <1>5, <3>1, <3>3, <4>2
      <4> QED BY <4>3 DEF Q!Holds
    <3> QED BY <3>2, <3>3
  <2> QED BY <2>1, <2>2
<1>10. ASSUME NEW it, Ordered(q, it)
       PROVE  Ordered(u, it)
  <2> SUFFICES ASSUME NEW l \in ListIds, NEW j \in 1..Len(u[l]), NEW k \in 1..Len(u[l]), j < k
               PROVE  it[u[l][j]].idleStart <= it[u[l][k]].idleStart
    BY DEF Ordered
  <2>1. PICK a \in 1..Len(q[l]) : u[l][j] = q[l][a] /\ a = IF l = t THEN j + 1 ELSE j
    BY <1>1, <1>7
  <2>2. PICK b \in 1..Len(q[l]) : u[l][k] = q[l][b] /\ b = IF l = t THEN k + 1 ELSE k
    BY <1>1, <1>7
  <2>3. j \in Nat /\ k \in Nat
    BY <1>6, ListFacts
  <2>4. a < b
    BY <2>1, <2>2, <2>3
  <2> QED BY <1>10, <2>1, <2>2, <2>4 DEF Ordered
<1> QED BY <1>4, <1>6, <1>8, <1>9, <1>10 DEF u

\* The item at the head is the one that became idle first.
LEMMA HeadMostIdle ==
  ASSUME NEW q \in [ListIds -> Seq(Items)], NEW it, Ordered(q, it), \A x \in Items : it[x].idleStart \in Nat,
         NEW l \in ListIds, NEW x \in Items, Q!Holds(q, l, x)
  PROVE  /\ q[l] # <<>> /\ Head(q[l]) \in Items /\ Q!Holds(q, l, Head(q[l]))
         /\ it[Head(q[l])].idleStart <= it[x].idleStart
<1>1. PICK n \in Nat : n = Len(q[l])
  BY ListFacts
<1>2. PICK k \in 1..n : q[l][k] = x
  BY <1>1 DEF Q!Holds
<1>3. 1 \in 1..n /\ n # 0
  BY <1>2
<1>4. q[l] # <<>> /\ Head(q[l]) = q[l][1] /\ q[l][1] \in Items
  <2>1. q[l] \in Seq(Items)
    OBVIOUS
  <2> QED BY <1>1, <1>3, <2>1, ListFacts
<1>5. Q!Holds(q, l, Head(q[l]))
  BY <1>1, <1>3, <1>4 DEF Q!Holds
<1>6. it[q[l][1]].idleStart <= it[x].idleStart
  <2>1. CASE k = 1
    BY <1>2, <1>4, <2>1
  <2>2. CASE 1 < k
    BY <1>1, <1>2, <1>3, <2>2 DEF Ordered
  <2> QED BY <1>2, <2>1, <2>2
<1> QED BY <1>4, <1>5, <1>6

-----------------------------------------------------------------------------
\* The constants: durations and due times are natural numbers, a list is never 0.
LEMMA ConstantFacts ==
  /\ Durations \subseteq Nat /\ SocketDelays \subseteq Durations
  /\ \A d \in Delays : Normal(d) \in Durations /\ Normal(d) \in 1..TIMEOUT_MAX
  /\ \A d \in Durations : d \in 1..TIMEOUT_MAX \cup SocketDelays
  /\ 0 \notin ListIds /\ Skew \in Nat /\ MaxTime \in Nat
  /\ Stopped = -1 /\ Stopped \notin Nat
<1>1. \A d \in Delays : Normal(d) \in Nat /\ Normal(d) \in 1..TIMEOUT_MAX
  BY DelayAssumption DEF Normal
<1> QED BY <1>1, DelayAssumption, ClockAssumption, ListAssumption DEF Durations, Stopped

\* An item of a list is one more than none.
LEMMA HoldsSome ==
  ASSUME NEW q \in [ListIds -> Seq(Items)], NEW l \in ListIds
  PROVE  q[l] # <<>> <=> \E i \in Items : Q!Holds(q, l, i)
<1>1. PICK n \in Nat : n = Len(q[l])
  BY ListFacts
<1>2. q[l] # <<>> <=> n # 0
  BY <1>1, ListFacts
<1>3. \A k \in 1..n : q[l][k] \in Items
  BY <1>1, ListFacts
<1>4. n # 0 => 1 \in 1..n
  OBVIOUS
<1> QED BY <1>1, <1>2, <1>3, <1>4 DEF Q!Holds

\* The list an item is in is the only one.
LEMMA HoldsOnce ==
  ASSUME NEW q, Once(q), NEW i, NEW l \in ListIds, NEW m \in ListIds, Q!Holds(q, l, i), Q!Holds(q, m, i)
  PROVE  l = m
BY DEF Once, Q!Holds

\* The parts of the invariant, as the lemmas on the actions use them.
LEMMA Parts ==
  ASSUME IInv
  PROVE  /\ now \in Nat /\ loopTime \in Nat /\ loopTime <= now + Skew
         /\ item \in [Items -> ItemType] /\ handle \in [Owners -> HandleType]
         /\ lastActive \in [Items -> Nat \cup {Never}] /\ fired \in [Timeouts -> Nat]
         /\ \A i \in Items : item[i].idleStart \in Nat /\ item[i].idleStart <= now
         /\ ListsInv(queue, lists, watcher, item, frame) /\ ListTypes(queue, lists, watcher)
         /\ \A i \in Items : \A l \in ListIds : Q!Holds(queue, l, i) =>
              /\ item[i].idleTimeout = watcher[l].msecs
              /\ Ready(i)
<1>1. now \in Nat /\ loopTime \in Nat /\ loopTime <= now + Skew
  BY ConstantFacts DEF IInv, ClockInv
<1>2. /\ item \in [Items -> ItemType] /\ handle \in [Owners -> HandleType]
      /\ lastActive \in [Items -> Nat \cup {Never}] /\ fired \in [Timeouts -> Nat]
      /\ \A i \in Items : item[i].idleStart \in Nat /\ item[i].idleStart <= now
  BY DEF IInv, ObjectTypes, ItemType
<1>3. /\ ListsInv(queue, lists, watcher, item, frame) /\ ListTypes(queue, lists, watcher)
      /\ Fitting(queue, watcher, item) /\ ReadyInv
  BY DEF IInv, ListsInv
<1>4. \A i \in Items : \A l \in ListIds : Q!Holds(queue, l, i) =>
              /\ item[i].idleTimeout = watcher[l].msecs
              /\ Ready(i)
  BY <1>3 DEF Fitting, ReadyInv, Q!Linked
<1> QED BY <1>1, <1>2, <1>3, <1>4

\* Leaving a list, and forgetting when the item became idle, keeps the lists sound.
LEMMA LeaveKeeps ==
  ASSUME ListsInv(queue, lists, watcher, item, frame),
         NEW i \in Items, NEW d, \A l \in ListIds : Q!Holds(queue, l, i) => watcher[l].msecs = d,
         LeaveList(i, d),
         NEW new, \A x \in Items : x # i => new[x] = item[x]
  PROVE  /\ ListsInv(queue', lists', watcher', new, frame)
         /\ \A l \in ListIds : \A x \in Items : Q!Holds(queue', l, x) <=> Q!Holds(queue, l, x) /\ x # i
         /\ \A l \in ListIds : watcher'[l].due \in {watcher[l].due, Stopped}
<1> DEFINE l0 == IF d \in Durations THEN lists[d] ELSE 0
           closes == l0 # 0 /\ queue'[l0] = <<>>
<1>0. ListTypes(queue, lists, watcher) /\ Once(queue) /\ Ordered(queue, item) /\ Fitting(queue, watcher, item)
      /\ Table(lists, watcher) /\ ClosedEmpty(queue, watcher)
      /\ EmptyWalked(queue, lists, watcher, frame) /\ Timely(queue, watcher, item, frame)
  BY DEF ListsInv
<1>t. /\ queue \in [ListIds -> Seq(Items)] /\ lists \in [Durations -> ListIds \cup {0}]
      /\ watcher \in [ListIds -> WatcherType]
      /\ \A l \in ListIds : watcher[l].open => watcher[l].msecs \in Durations
  BY <1>0 DEF ListTypes
<1>1. queue' = Q!Without(queue, i)
  BY DEF LeaveList
<1>2. /\ queue' \in [ListIds -> Seq(Items)] /\ Once(queue')
      /\ \A l \in ListIds : \A x \in Items : Q!Holds(queue', l, x) <=> Q!Holds(queue, l, x) /\ x # i
      /\ Ordered(queue', item)
  BY <1>0, <1>1, <1>t, WithoutKeeps
<1>3. IF closes THEN /\ watcher' = [watcher EXCEPT ![l0] = Closed(@)]
                     /\ lists' = [lists EXCEPT ![d] = 0]
                ELSE watcher' = watcher /\ lists' = lists
  BY <1>1 DEF LeaveList
<1>4. closes => d \in Durations /\ l0 \in ListIds /\ l0 = lists[d] /\ watcher[l0].msecs = d
  BY <1>0, <1>t DEF Table
<1> HIDE DEF l0, closes
<1>5. closes => \A l \in ListIds : watcher'[l] = IF l = l0 THEN [watcher[l] EXCEPT !.due = Stopped, !.open = FALSE]
                                                          ELSE watcher[l]
  <2> SUFFICES ASSUME closes, NEW l \in ListIds
               PROVE  watcher'[l] = IF l = l0 THEN [watcher[l] EXCEPT !.due = Stopped, !.open = FALSE]
                                             ELSE watcher[l]
    OBVIOUS
  <2>1. watcher' = [watcher EXCEPT ![l0] = Closed(watcher[l0])]
    BY <1>3
  <2>2. watcher'[l] = IF l = l0 THEN Closed(watcher[l]) ELSE watcher[l]
    BY <1>4, <1>t, <2>1
  <2> QED BY <2>2 DEF Closed
<1>6. closes => \A e \in Durations : lists'[e] = IF e = d THEN 0 ELSE lists[e]
  BY <1>3, <1>4, <1>t
<1>7. closes => queue'[l0] = <<>>
  BY DEF closes
<1>8. ListTypes(queue', lists', watcher')
  <2>1. CASE closes
    <3>1. watcher' \in [ListIds -> WatcherType]
      <4>1. [watcher[l0] EXCEPT !.due = Stopped, !.open = FALSE] \in WatcherType
        BY <1>4, <1>t, <2>1 DEF WatcherType
      <4> QED BY <1>3, <1>4, <1>t, <2>1, <4>1 DEF Closed
    <3>2. lists' \in [Durations -> ListIds \cup {0}]
      BY <1>3, <1>4, <1>t, <2>1
    <3>3. \A l \in ListIds : watcher'[l].open => watcher'[l].msecs \in Durations
      BY <1>5, <1>t, <2>1 DEF WatcherType
    <3> QED BY <1>2, <3>1, <3>2, <3>3 DEF ListTypes
  <2>2. CASE ~closes
    BY <1>2, <1>3, <1>t, <2>2 DEF ListTypes
  <2> QED BY <2>1, <2>2
<1>9. Ordered(queue', new)
  <2> SUFFICES ASSUME NEW l \in ListIds, NEW j \in 1..Len(queue'[l]), NEW k \in 1..Len(queue'[l]), j < k
               PROVE  new[queue'[l][j]].idleStart <= new[queue'[l][k]].idleStart
    BY DEF Ordered
  <2>1. queue'[l][j] \in Items /\ queue'[l][k] \in Items
    BY <1>2, ListFacts
  <2>2. Q!Holds(queue', l, queue'[l][j]) /\ Q!Holds(queue', l, queue'[l][k])
    BY DEF Q!Holds
  <2>3. queue'[l][j] # i /\ queue'[l][k] # i
    BY <1>2, <2>1, <2>2
  <2>4. item[queue'[l][j]].idleStart <= item[queue'[l][k]].idleStart
    BY <1>2 DEF Ordered
  <2> QED BY <2>1, <2>3, <2>4
<1>10. \A l \in ListIds : /\ watcher'[l].msecs = watcher[l].msecs /\ watcher'[l].left = watcher[l].left
                          /\ watcher'[l].due \in {watcher[l].due, Stopped}
  <2> SUFFICES ASSUME NEW l \in ListIds
               PROVE  /\ watcher'[l].msecs = watcher[l].msecs /\ watcher'[l].left = watcher[l].left
                      /\ watcher'[l].due \in {watcher[l].due, Stopped}
    OBVIOUS
  <2>1. CASE watcher'[l] = watcher[l]
    BY <2>1
  <2>2. CASE watcher'[l] = [watcher[l] EXCEPT !.due = Stopped, !.open = FALSE]
    BY <1>t, <2>2 DEF WatcherType
  <2> QED BY <1>3, <1>5, <2>1, <2>2
<1>11. Fitting(queue', watcher', new)
  BY <1>0, <1>2, <1>10 DEF Fitting
<1>12. Table(lists', watcher')
  <2>1. CASE closes
    <3> SUFFICES ASSUME NEW e \in Durations, lists'[e] # 0
                 PROVE  watcher'[lists'[e]].open /\ watcher'[lists'[e]].msecs = e
      BY DEF Table
    <3>1. e # d /\ lists'[e] = lists[e]
      BY <1>6, <2>1
    <3>2. lists[e] \in ListIds /\ watcher[lists[e]].open /\ watcher[lists[e]].msecs = e
      BY <1>0, <1>t, <3>1 DEF Table
    <3>3. lists[e] # l0
      BY <1>4, <2>1, <3>1, <3>2
    <3> QED BY <1>5, <2>1, <3>1, <3>2, <3>3
  <2>2. CASE ~closes
    BY <1>0, <1>3, <2>2 DEF Table
  <2> QED BY <2>1, <2>2
<1>13. ClosedEmpty(queue', watcher')
  <2> SUFFICES ASSUME NEW l \in ListIds, ~watcher'[l].open
               PROVE  queue'[l] = <<>> /\ watcher'[l].due = Stopped
    BY DEF ClosedEmpty
  <2>1. CASE closes /\ l = l0
    BY <1>5, <1>7, <1>t, <2>1 DEF WatcherType
  <2>2. CASE ~(closes /\ l = l0)
    <3>1. watcher'[l] = watcher[l]
      BY <1>3, <1>5, <2>2
    <3>2. queue[l] = <<>> /\ watcher[l].due = Stopped
      BY <1>0, <3>1 DEF ClosedEmpty
    <3> QED BY <1>2, <1>t, <3>1, <3>2, HoldsSome
  <2> QED BY <2>1, <2>2
<1>14. EmptyWalked(queue', lists', watcher', frame)
  <2> SUFFICES ASSUME NEW e \in Durations, lists'[e] # 0, queue'[lists'[e]] = <<>>
               PROVE  /\ watcher'[lists'[e]].due = Stopped
                      /\ frame.l = lists'[e] \/ watcher'[lists'[e]].left \/ frame.at = "dead"
    BY DEF EmptyWalked
  <2>1. lists'[e] = lists[e] /\ lists[e] \in ListIds /\ (closes => e # d) /\ watcher[lists[e]].msecs = e
    BY <1>0, <1>3, <1>6, <1>t DEF Table
\* i was not the last item of this list, or unenroll would have closed it.
  <2>2. queue[lists[e]] = <<>>
    <3> SUFFICES ASSUME queue[lists[e]] # <<>> PROVE FALSE
      OBVIOUS
    <3>1. PICK x \in Items : Q!Holds(queue, lists[e], x)
      BY <1>t, <2>1, HoldsSome
    <3>2. ~Q!Holds(queue', lists[e], x)
      BY <1>2, <2>1, <3>1, HoldsSome
    <3>3. x = i
      BY <1>2, <2>1, <3>1, <3>2
    <3>4. e = d
      BY <2>1, <3>1, <3>3
    <3>5. l0 = lists[e] /\ l0 # 0
      BY <2>1, <3>4 DEF l0
    <3> QED BY <2>1, <3>4, <3>5 DEF closes
  <2>3. /\ watcher[lists[e]].due = Stopped
        /\ frame.l = lists[e] \/ watcher[lists[e]].left \/ frame.at = "dead"
    BY <1>0, <2>1, <2>2 DEF EmptyWalked
  <2> QED BY <1>10, <2>1, <2>3
<1>15. Timely(queue', watcher', new, frame)
  <2> SUFFICES ASSUME NEW l \in ListIds, NEW x \in Items, Q!Holds(queue', l, x),
                      frame.l # l, frame.at # "dead", ~watcher'[l].left
               PROVE  watcher'[l].due # Stopped /\ watcher'[l].due <= new[x].idleStart + watcher'[l].msecs + Skew
    BY DEF Timely
  <2>1. Q!Holds(queue, l, x) /\ x # i
    BY <1>2
  <2>2. ~(closes /\ l = l0)
    BY <1>2, <1>7, HoldsSome
  <2>3. watcher'[l] = watcher[l]
    BY <1>3, <1>5, <2>2
  <2> QED BY <1>0, <2>1, <2>3 DEF Timely
<1> QED BY <1>2, <1>8, <1>9, <1>10, <1>11, <1>12, <1>13, <1>14, <1>15 DEF ListsInv

\* An item that joins the list for d may stand in a list for d already, and becomes
\* idle now.
Joins(i, d, new) ==
  /\ \A l \in ListIds : Q!Holds(queue, l, i) => watcher[l].msecs = d
  /\ \A x \in Items : x # i => new[x] = item[x]
  /\ new[i].idleTimeout = d /\ new[i].idleStart = now

\* Joining the list for d, at the time the item became idle, keeps the lists sound:
\* a new list has a watcher in time, one with items had it before.
LEMMA JoinKeeps ==
  ASSUME IInv, NEW i \in Items, NEW d \in Durations, JoinList(i, d), NEW new, Joins(i, d, new)
  PROVE  /\ ListsInv(queue', lists', watcher', new, frame)
         /\ \A l \in ListIds : \A x \in Items : Q!Holds(queue', l, x) => Q!Holds(queue, l, x) \/ x = i
         /\ \A l \in ListIds : frame.l = l => watcher'[l] = watcher[l]
<1> /\ ListsInv(queue, lists, watcher, item, frame)
    /\ now \in Nat /\ loopTime \in Nat /\ loopTime <= now + Skew
    /\ \A x \in Items : item[x].idleStart \in Nat /\ item[x].idleStart <= now
  BY Parts
<1> /\ \A l \in ListIds : Q!Holds(queue, l, i) => watcher[l].msecs = d
    /\ \A x \in Items : x # i => new[x] = item[x]
    /\ new[i].idleTimeout = d /\ new[i].idleStart = now
  BY DEF Joins
<1>0. ListTypes(queue, lists, watcher) /\ Once(queue) /\ Ordered(queue, item) /\ Fitting(queue, watcher, item)
      /\ Table(lists, watcher) /\ ClosedEmpty(queue, watcher)
      /\ EmptyWalked(queue, lists, watcher, frame) /\ Timely(queue, watcher, item, frame)
  BY DEF ListsInv
<1>t. /\ queue \in [ListIds -> Seq(Items)] /\ lists \in [Durations -> ListIds \cup {0}]
      /\ watcher \in [ListIds -> WatcherType]
      /\ \A l \in ListIds : watcher[l].open => watcher[l].msecs \in Durations
  BY <1>0 DEF ListTypes
<1> DEFINE begins == lists[d] = 0
           fresh == Started([msecs |-> d, due |-> Stopped, open |-> TRUE, left |-> FALSE], d)
<1>1. PICK t \in ListIds :
        /\ queue' = Q!AppendTo(queue, t, i)
        /\ IF begins THEN /\ ~watcher[t].open /\ frame.l # t
                          /\ watcher' = [watcher EXCEPT ![t] = fresh]
                          /\ lists' = [lists EXCEPT ![d] = t]
                     ELSE /\ t = lists[d] /\ watcher' = watcher /\ lists' = lists
  <2>1. CASE lists[d] # 0
    BY <1>t, <2>1, Zenon DEF JoinList, begins
  <2>2. CASE lists[d] = 0
    <3> DEFINE t == CHOOSE x \in FreeList : \A y \in FreeList : x <= y
    <3>1. FreeList # {} /\ FreeList \subseteq Nat
      BY <2>2, ListAssumption DEF JoinList, FreeList
    <3>2. t \in FreeList
      BY <3>1, LeastElement
    <3>4. /\ queue' = Q!AppendTo(queue, t, i)
          /\ watcher' = [watcher EXCEPT ![t] = fresh]
          /\ lists' = [lists EXCEPT ![d] = t]
      BY <2>2, Zenon DEF JoinList
    <3> HIDE DEF t, fresh
    <3>5. t \in ListIds /\ ~watcher[t].open /\ frame.l # t
      BY <3>2 DEF FreeList
    <3> QED BY <2>2, <3>4, <3>5
  <2> QED BY <2>1, <2>2
<1>2. /\ queue' \in [ListIds -> Seq(Items)] /\ Once(queue')
      /\ \A l \in ListIds : \A x \in Items :
           Q!Holds(queue', l, x) <=> (Q!Holds(queue, l, x) /\ x # i) \/ (l = t /\ x = i)
  <2> DEFINE u == Q!AppendTo(queue, t, i)
  <2>1. /\ u \in [ListIds -> Seq(Items)] /\ Once(u)
        /\ \A l \in ListIds : \A x \in Items :
             Q!Holds(u, l, x) <=> (Q!Holds(queue, l, x) /\ x # i) \/ (l = t /\ x = i)
    BY <1>0, <1>t, AppendKeeps
  <2>2. queue' = u
    BY <1>1
  <2> HIDE DEF u
  <2> QED BY <2>1, <2>2
<1>3. Ordered(queue', new)
  <2>1. \A x \in Items : x # i => new[x].idleStart = item[x].idleStart
    OBVIOUS
  <2>2. \A x \in Items : new[x].idleStart <= new[i].idleStart
    <3> TAKE x \in Items
    <3>1. CASE x = i
      BY <3>1
    <3>2. CASE x # i
      BY <3>2
    <3> QED BY <3>1, <3>2
  <2>3. LeastIdle(i, item, new)
    BY <2>1, <2>2 DEF LeastIdle
  <2> QED BY <1>0, <1>1, <1>t, <2>3, AppendKeeps
<1>4. d \in Nat /\ d # -1 /\ loopTime + d \in Nat /\ loopTime + d # -1
  BY ConstantFacts
<1>5. fresh \in WatcherType
  BY <1>4 DEF WatcherType, Started
<1>6. \A l \in ListIds : watcher'[l] = IF begins /\ l = t THEN fresh ELSE watcher[l]
  BY <1>1, <1>t
<1>7. \A e \in Durations : lists'[e] = IF begins /\ e = d THEN t ELSE lists[e]
  BY <1>1, <1>t
<1>8. begins => queue[t] = <<>> /\ \A l \in ListIds, x \in Items : Q!Holds(queue, l, x) => l # t
  BY <1>0, <1>1, <1>t, HoldsSome DEF ClosedEmpty
<1>f. fresh.msecs = d /\ fresh.due = loopTime + d /\ fresh.open /\ ~fresh.left
  BY DEF Started
<1> HIDE DEF fresh, begins
<1>9. ListTypes(queue', lists', watcher')
  <2>1. watcher' \in [ListIds -> WatcherType]
    <3>1. CASE begins
      BY <1>1, <1>5, <1>t, <3>1
    <3>2. CASE ~begins
      BY <1>1, <1>t, <3>2
    <3> QED BY <3>1, <3>2
  <2>2. lists' \in [Durations -> ListIds \cup {0}]
    BY <1>1, <1>t
  <2>3. \A l \in ListIds : watcher'[l].open => watcher'[l].msecs \in Durations
    BY <1>6, <1>f, <1>t
  <2> QED BY <1>2, <2>1, <2>2, <2>3 DEF ListTypes
<1>10. watcher'[t].msecs = d /\ watcher'[t].open
  <2>1. CASE begins
    BY <1>6, <1>f, <2>1
  <2>2. CASE ~begins
    BY <1>0, <1>1, <1>6, <2>2 DEF Table, begins
  <2> QED BY <2>1, <2>2
<1>11. Fitting(queue', watcher', new)
  <2> SUFFICES ASSUME NEW l \in ListIds, NEW x \in Items, Q!Holds(queue', l, x)
               PROVE  new[x].idleTimeout = watcher'[l].msecs
    BY DEF Fitting
  <2>1. CASE x = i
    BY <1>2, <1>10, <2>1
  <2>2. CASE x # i
    <3>1. Q!Holds(queue, l, x)
      BY <1>2, <2>2
    <3>2. watcher'[l] = watcher[l]
      BY <1>6, <1>8, <3>1
    <3> QED BY <1>0, <2>2, <3>1, <3>2 DEF Fitting
  <2> QED BY <2>1, <2>2
<1>12. Table(lists', watcher')
  <2> SUFFICES ASSUME NEW e \in Durations, lists'[e] # 0
               PROVE  watcher'[lists'[e]].open /\ watcher'[lists'[e]].msecs = e
    BY DEF Table
  <2>1. CASE begins /\ e = d
    BY <1>7, <1>10, <2>1
  <2>2. CASE ~(begins /\ e = d)
    <3>1. lists'[e] = lists[e] /\ lists[e] \in ListIds
      BY <1>7, <1>t, <2>2
    <3>2. watcher[lists[e]].open /\ watcher[lists[e]].msecs = e
      BY <1>0, <3>1 DEF Table
    <3>3. ~(begins /\ lists[e] = t)
      BY <1>1, <3>2
    <3> QED BY <1>6, <3>1, <3>2, <3>3
  <2> QED BY <2>1, <2>2
<1>13. ClosedEmpty(queue', watcher')
  <2> SUFFICES ASSUME NEW l \in ListIds, ~watcher'[l].open
               PROVE  queue'[l] = <<>> /\ watcher'[l].due = Stopped
    BY DEF ClosedEmpty
  <2>1. l # t
    BY <1>10
  <2>2. watcher'[l] = watcher[l]
    BY <1>6, <2>1
  <2>3. queue[l] = <<>> /\ watcher[l].due = Stopped
    BY <1>0, <2>2 DEF ClosedEmpty
  <2> QED BY <1>2, <1>t, <2>1, <2>2, <2>3, HoldsSome
<1>14. EmptyWalked(queue', lists', watcher', frame)
  <2> SUFFICES ASSUME NEW e \in Durations, lists'[e] # 0, queue'[lists'[e]] = <<>>
               PROVE  /\ watcher'[lists'[e]].due = Stopped
                      /\ frame.l = lists'[e] \/ watcher'[lists'[e]].left \/ frame.at = "dead"
    BY DEF EmptyWalked
  <2>1. queue'[t] # <<>>
    BY <1>2, HoldsSome
  <2>2. lists'[e] # t
    BY <2>1
  <2>3. e # d /\ lists'[e] = lists[e] /\ lists[e] \in ListIds
    BY <1>1, <1>7, <1>t, <2>2 DEF begins
  <2>4. watcher[lists[e]].msecs = e
    BY <1>0, <2>3 DEF Table
  <2>5. queue[lists[e]] = <<>>
    <3> SUFFICES ASSUME queue[lists[e]] # <<>> PROVE FALSE
      OBVIOUS
    <3>1. PICK x \in Items : Q!Holds(queue, lists[e], x)
      BY <1>t, <2>3, HoldsSome
    <3>2. ~Q!Holds(queue', lists[e], x)
      BY <1>2, <2>3, HoldsSome
    <3>3. x = i
      BY <1>2, <2>3, <3>1, <3>2
    <3> QED BY <2>3, <2>4, <3>1, <3>3
  <2>6. watcher'[lists[e]] = watcher[lists[e]]
    BY <1>6, <2>2, <2>3
  <2>7. /\ watcher[lists[e]].due = Stopped
        /\ frame.l = lists[e] \/ watcher[lists[e]].left \/ frame.at = "dead"
    BY <1>0, <2>3, <2>5 DEF EmptyWalked
  <2> QED BY <2>3, <2>6, <2>7
<1>15. Timely(queue', watcher', new, frame)
  <2> SUFFICES ASSUME NEW l \in ListIds, NEW x \in Items, Q!Holds(queue', l, x),
                      frame.l # l, frame.at # "dead", ~watcher'[l].left
               PROVE  watcher'[l].due # Stopped /\ watcher'[l].due <= new[x].idleStart + watcher'[l].msecs + Skew
    BY DEF Timely
  <2>1. CASE x # i
    <3>1. Q!Holds(queue, l, x)
      BY <1>2, <2>1
    <3>2. watcher'[l] = watcher[l]
      BY <1>6, <1>8, <3>1
    <3> QED BY <1>0, <2>1, <3>1, <3>2 DEF Timely
  <2>2. CASE x = i /\ begins
    <3>1. l = t /\ watcher'[l].due = loopTime + d /\ watcher'[l].msecs = d
      BY <1>2, <1>6, <1>8, <1>f, <2>2
    <3> QED BY <1>4, <2>2, <3>1, ConstantFacts
  <2>3. CASE x = i /\ ~begins
    <3>1. l = t /\ l = lists[d] /\ watcher'[l] = watcher[l]
      <4>1. l = t
        BY <1>2, <1>10, <2>3, <1>0, <1>1, <1>6, <1>t DEF Table, Fitting
      <4> QED BY <1>1, <1>6, <2>3, <4>1
    <3>2. queue[l] # <<>>
      <4> SUFFICES ASSUME queue[l] = <<>> PROVE FALSE
        OBVIOUS
      <4>1. lists[d] # 0
        BY <2>3 DEF begins
      <4> QED BY <1>0, <3>1, <4>1 DEF EmptyWalked
    <3>3. PICK y \in Items : Q!Holds(queue, l, y)
      BY <1>t, <3>2, HoldsSome
    <3>4. watcher[l].due # Stopped /\ watcher[l].due <= item[y].idleStart + watcher[l].msecs + Skew
      BY <1>0, <3>1, <3>3 DEF Timely
    <3>5. watcher[l].due \in Nat \cup {-1} /\ watcher[l].msecs = d
      BY <1>10, <1>t, <3>1 DEF WatcherType, Stopped
    <3>6. item[y].idleStart \in Nat /\ item[y].idleStart <= now
      OBVIOUS
    <3> QED BY <1>4, <2>3, <3>1, <3>4, <3>5, <3>6, ConstantFacts
  <2> QED BY <2>1, <2>2, <2>3
<1>16. \A l \in ListIds : frame.l = l => watcher'[l] = watcher[l]
  BY <1>1, <1>6
<1> QED BY <1>2, <1>3, <1>9, <1>11, <1>12, <1>13, <1>14, <1>15, <1>16 DEF ListsInv

\* Only the duration and the idle time of an item that stands in a list matter there.
LEMMA SameIdle ==
  ASSUME NEW q, NEW ls, NEW w, NEW it, NEW fr, ListsInv(q, ls, w, it, fr), NEW new,
         \A x \in Items : Q!Linked(q, x) => /\ new[x].idleStart = it[x].idleStart
                                            /\ new[x].idleTimeout = it[x].idleTimeout
  PROVE  ListsInv(q, ls, w, new, fr)
<1>0. ListTypes(q, ls, w) /\ Once(q) /\ Ordered(q, it) /\ Fitting(q, w, it)
      /\ Table(ls, w) /\ ClosedEmpty(q, w) /\ EmptyWalked(q, ls, w, fr) /\ Timely(q, w, it, fr)
  BY DEF ListsInv
<1>1. q \in [ListIds -> Seq(Items)]
  BY <1>0 DEF ListTypes
<1>2. \A l \in ListIds, x \in Items : Q!Holds(q, l, x) => /\ new[x].idleStart = it[x].idleStart
                                                         /\ new[x].idleTimeout = it[x].idleTimeout
  BY DEF Q!Linked
<1>3. Ordered(q, new)
  <2> SUFFICES ASSUME NEW l \in ListIds, NEW j \in 1..Len(q[l]), NEW k \in 1..Len(q[l]), j < k
               PROVE  new[q[l][j]].idleStart <= new[q[l][k]].idleStart
    BY DEF Ordered
  <2>1. q[l][j] \in Items /\ q[l][k] \in Items
    BY <1>1, ListFacts
  <2>2. Q!Holds(q, l, q[l][j]) /\ Q!Holds(q, l, q[l][k])
    BY DEF Q!Holds
  <2>3. it[q[l][j]].idleStart <= it[q[l][k]].idleStart
    BY <1>0 DEF Ordered
  <2> QED BY <1>2, <2>1, <2>2, <2>3
<1>4. Fitting(q, w, new)
  BY <1>0, <1>2 DEF Fitting
<1>5. Timely(q, w, new, fr)
  BY <1>0, <1>2 DEF Timely
<1> QED BY <1>0, <1>3, <1>4, <1>5 DEF ListsInv

-----------------------------------------------------------------------------
\* The invariant has the type invariant and the invariant of the lists in it.
LEMMA IInvLists == IInv => ListsKept
<1> SUFFICES ASSUME IInv PROVE ListsKept
  OBVIOUS
<1>1. /\ item \in [Items -> ItemType] /\ handle \in [Owners -> HandleType]
      /\ lastActive \in [Items -> Nat \cup {Never}] /\ fired \in [Timeouts -> Nat]
      /\ \A i \in Items : item[i].idleStart \in Nat
      /\ ListTypes(queue, lists, watcher)
  BY Parts
<1>2. /\ Once(queue) /\ Ordered(queue, item) /\ Fitting(queue, watcher, item)
      /\ Table(lists, watcher) /\ ClosedEmpty(queue, watcher)
      /\ EmptyWalked(queue, lists, watcher, frame) /\ Timely(queue, watcher, item, frame)
  BY DEF IInv, ListsInv
<1>q. queue \in [ListIds -> Seq(Items)]
  BY <1>1 DEF ListTypes
<1>3. TypeOK
  <2>1. ItemType \subseteq [idleTimeout : 1..TIMEOUT_MAX \cup SocketDelays \cup {-1}, idleNext : BOOLEAN,
                            idleStart : Nat, when : Nat, onTimeout : BOOLEAN, made : BOOLEAN]
    BY ConstantFacts DEF ItemType
  <2>2. item \in [Items -> [idleTimeout : 1..TIMEOUT_MAX \cup SocketDelays \cup {-1}, idleNext : BOOLEAN,
                            idleStart : Nat, when : Nat, onTimeout : BOOLEAN, made : BOOLEAN]]
    <3> HIDE DEF ItemType
    <3> QED BY <1>1, <2>1
  <2>3. now \in 0..MaxTime /\ loopTime \in 0..(MaxTime + Skew) /\ frame.at \in {"loop", "list", "item", "own", "dead"}
    BY DEF IInv, ClockInv, FrameInv
  <2> QED BY <1>1, <2>2, <2>3 DEF TypeOK, ListTypes, WatcherType, HandleType
<1>4. ListsSound
  <2>1. \A l \in ListIds : ~watcher[l].open => Idle(l) /\ watcher[l].due = Stopped
    BY <1>2 DEF ClosedEmpty, Idle
  <2>2. ASSUME NEW l \in ListIds, NEW k \in 1..Len(queue[l])
        PROVE  item[queue[l][k]].idleTimeout = watcher[l].msecs
    <3>1. queue[l][k] \in Items
      BY <1>q, ListFacts
    <3>2. Q!Holds(queue, l, queue[l][k])
      BY DEF Q!Holds
    <3> QED BY <1>2, <3>1, <3>2 DEF Fitting
  <2>3. \A l \in ListIds : \A j, k \in 1..Len(queue[l]) :
          j < k => item[queue[l][j]].idleStart <= item[queue[l][k]].idleStart
    BY <1>2, Zenon DEF Ordered
  <2> QED BY <1>2, <2>1, <2>2, <2>3, Zenon DEF ListsSound, Table
<1>5. EmptyStopped
  BY <1>2 DEF EmptyStopped, EmptyWalked, Idle
<1>6. TimelyWatcher
  <2> SUFFICES ASSUME NEW l \in ListIds, ~Idle(l), frame.l # l, frame.at # "dead", ~watcher[l].left
               PROVE  /\ watcher[l].due # Stopped
                      /\ watcher[l].due <= item[Head(queue[l])].idleStart + watcher[l].msecs + Skew
    BY DEF TimelyWatcher
  <2>1. Head(queue[l]) \in Items /\ Q!Holds(queue, l, Head(queue[l]))
    BY <1>2, <1>q, TailKeeps DEF Idle
  <2> QED BY <1>2, <2>1 DEF Timely
<1> QED BY <1>3, <1>4, <1>5, <1>6 DEF ListsKept

-----------------------------------------------------------------------------
\* The initial state: no list, no object made.
LEMMA InitIInv == Init => IInv
<1> SUFFICES ASSUME Init PROVE IInv
  OBVIOUS
<1> USE DEF Init
<1>1. program \in Programs /\ ClockInv
  BY ConstantFacts DEF ClockInv
<1>2. ObjectTypes
  <2>1. item \in [Items -> ItemType]
    BY DEF ItemType
  <2>2. NoHandle \in HandleType
    BY DEF NoHandle, HandleType, Stopped
  <2>n. 0 \in Nat /\ Never \in Nat \cup {Never}
    OBVIOUS
  <2>3. handle \in [Owners -> HandleType]
    <3> HIDE DEF HandleType, NoHandle
    <3> QED BY <2>2
  <2>4. lastActive \in [Items -> Nat \cup {Never}] /\ fired \in [Timeouts -> Nat] /\ \A i \in Items : item[i].idleStart <= now
    BY <2>n
  <2> QED BY <2>1, <2>3, <2>4 DEF ObjectTypes
<1>3. queue = [l \in ListIds |-> <<>>]
  BY DEF Q!Init
<1>4. \A l \in ListIds : queue[l] = <<>> /\ Len(queue[l]) = 0
  BY <1>3
<1>5. \A l \in ListIds : \A i \in Items : ~Q!Holds(queue, l, i)
  BY <1>4 DEF Q!Holds
<1>6. ListTypes(queue, lists, watcher)
  <2>1. queue \in [ListIds -> Seq(Items)]
    BY <1>3
  <2>2. watcher \in [ListIds -> WatcherType]
    BY DEF WatcherType, Stopped
  <2> QED BY <2>1, <2>2 DEF ListTypes
<1>7. Once(queue) /\ Ordered(queue, item)
  BY <1>4 DEF Once, Ordered
<1>8. Fitting(queue, watcher, item) /\ Timely(queue, watcher, item, frame)
  BY <1>5 DEF Fitting, Timely
<1>9. Table(lists, watcher) /\ EmptyWalked(queue, lists, watcher, frame)
  BY DEF Table, EmptyWalked
<1>10. ClosedEmpty(queue, watcher)
  BY <1>4 DEF ClosedEmpty
<1>11. ReadyInv
  BY <1>5 DEF ReadyInv, Q!Linked
<1>12. OwnInv
  <2>1. Timed(NoHandle)
    BY DEF Timed, NoHandle
  <2>2. \A i \in Owners : Timed(handle[i])
    BY <2>1
  <2> QED BY <2>2, KindsAssumption DEF OwnInv, NoHandle, Owners, Items
<1>13. FrameInv
  BY ConstantFacts DEF FrameInv, InLoop, Frame
<1>14. FiresOnce
  BY DEF FiresOnce, OneShot, NeverNull, InLoop, Frame
<1>15. MadeInv
  BY DEF MadeInv, Items
<1> QED BY <1>15, <1>1, <1>2, <1>6, <1>7, <1>8, <1>9, <1>10, <1>11, <1>12, <1>13, <1>14 DEF IInv, ListsInv

-----------------------------------------------------------------------------
\* User code leaves the thread where it is, and the watcher of the list being walked
\* stopped.
LEMMA FrameKept ==
  ASSUME IInv, UNCHANGED <<now, loopTime, frame>>,
         \A l \in ListIds : frame.l = l => watcher'[l].due = Stopped
  PROVE  FrameInv'
<1>1. FrameInv
  BY DEF IInv
<1>2. frame.l # 0 => frame.l \in ListIds
  BY <1>1 DEF FrameInv
<1>3. frame.l # 0 => watcher'[frame.l].due = Stopped
  BY <1>2
<1> QED BY <1>1, <1>3 DEF FrameInv

\* The watcher of the list being walked is stopped.
LEMMA WalkedStopped ==
  ASSUME IInv, NEW l \in ListIds, frame.l = l
  PROVE  watcher[l].due = Stopped
BY ConstantFacts DEF IInv, FrameInv

LEMMA TickKeeps == ASSUME IInv, Tick PROVE IInv'
<1> USE DEF Tick
<1>0. IInv
  OBVIOUS
<1>p. now \in Nat /\ loopTime \in Nat /\ \A i \in Items : item[i].idleStart \in Nat
  BY Parts
<1>1. program' \in Programs /\ ClockInv' /\ MadeInv'
  <2>1. program.until \in 0..MaxTime
    BY ProgramAssumption DEF IInv
  <2>2. now' \in 0..MaxTime /\ loopTime' <= now' + Skew
    BY <1>p, <2>1, ConstantFacts DEF IInv, ClockInv, MadeInv
  <2> QED BY <2>2 DEF IInv, ClockInv, MadeInv
<1>2. ObjectTypes'
  BY <1>p DEF IInv, ObjectTypes
<1>3. ListsInv(queue, lists, watcher, item, frame)'
  BY DEF IInv
<1>4. ReadyInv'
  BY DEF IInv, ReadyInv, Ready
<1>5. OwnInv'
  BY DEF IInv, OwnInv
<1>6. FrameInv'
  BY <1>p DEF IInv, FrameInv
<1>7. FiresOnce'
  BY DEF IInv, FiresOnce, OneShot, NeverNull
<1> QED BY <1>1, <1>2, <1>3, <1>4, <1>5, <1>6, <1>7 DEF IInv

LEMMA UpdateTimeKeeps == ASSUME IInv, UpdateTime PROVE IInv'
<1> USE DEF UpdateTime
<1>p. now \in Nat /\ loopTime \in Nat
  BY Parts
<1>1. program' \in Programs /\ ClockInv' /\ MadeInv'
  <2>1. PICK t \in now..(now + Skew) : loopTime' = t
    OBVIOUS
  <2>2. now \in 0..MaxTime
    BY DEF IInv, ClockInv, MadeInv
  <2>3. loopTime' \in 0..(MaxTime + Skew) /\ loopTime' <= now + Skew
    BY <1>p, <2>1, <2>2, ConstantFacts
  <2> QED BY <2>2, <2>3 DEF IInv, ClockInv, MadeInv
<1>2. ObjectTypes'
  BY DEF IInv, ObjectTypes
<1>3. ListsInv(queue, lists, watcher, item, frame)'
  BY DEF IInv
<1>4. ReadyInv'
  BY DEF IInv, ReadyInv, Ready
<1>5. OwnInv'
  BY DEF IInv, OwnInv
<1>6. FrameInv'
  <2>1. frame.l = 0
    BY DEF InLoop, Frame
  <2> QED BY <2>1 DEF IInv, FrameInv
<1>7. FiresOnce'
  BY DEF IInv, FiresOnce, OneShot, NeverNull
<1> QED BY <1>1, <1>2, <1>3, <1>4, <1>5, <1>6, <1>7 DEF IInv

LEMMA StutterKeeps == ASSUME IInv, UNCHANGED vars PROVE IInv'
<1> USE DEF vars
<1>1. program' \in Programs /\ ClockInv' /\ MadeInv' /\ ListsInv(queue, lists, watcher, item, frame)'
  BY DEF IInv, ClockInv, MadeInv
<1>2. ObjectTypes'
  BY DEF IInv, ObjectTypes
<1>4. ReadyInv'
  BY DEF IInv, ReadyInv, Ready
<1>5. OwnInv'
  BY DEF IInv, OwnInv
<1>6. FrameInv'
  BY DEF IInv, FrameInv
<1>7. FiresOnce'
  BY DEF IInv, FiresOnce, OneShot, NeverNull
<1> QED BY <1>1, <1>2, <1>4, <1>5, <1>6, <1>7 DEF IInv

-----------------------------------------------------------------------------
\* An operation on item i leaves what is true of the others in their lists.
LEMMA OthersReady ==
  ASSUME IInv, NEW i \in Items,
         \A l \in ListIds : \A x \in Items : Q!Holds(queue', l, x) => x = i \/ Q!Holds(queue, l, x),
         Q!Linked(queue', i) => Ready(i)',
         \A x \in Items : x # i => item'[x] = item[x] /\ lastActive'[x] = lastActive[x],
         \A x \in Timeouts : x # i => fired'[x] = fired[x] /\ handle'[x].made = handle[x].made
  PROVE  ReadyInv'
<1> SUFFICES ASSUME NEW x \in Items, Q!Linked(queue', x), x # i
             PROVE  Ready(x)'
  BY DEF ReadyInv
<1>1. Q!Linked(queue, x)
  BY DEF Q!Linked
<1>2. Ready(x)
  BY <1>1 DEF IInv, ReadyInv
<1> QED BY <1>2 DEF Ready

\* A socket has no Timer of its own.
LEMMA SocketsApart ==
  ASSUME NEW i \in Sockets
  PROVE  i \in Items /\ i \notin Timeouts /\ i \notin Owners
BY KindsAssumption DEF Items, Owners

LEMMA TimeoutsApart ==
  ASSUME NEW i \in Timeouts
  PROVE  i \in Items /\ i \in Owners /\ i \notin Sockets /\ i \notin Intervals
BY KindsAssumption DEF Items, Owners

\* An operation that changes no handle and no Timeout leaves the Timers of the
\* objects as they were.
LEMMA OwnKept ==
  ASSUME IInv, UNCHANGED <<handle, fired>>, \A x \in Timeouts : item'[x] = item[x]
  PROVE  OwnInv'
BY DEF IInv, OwnInv

LEMMA FiresKept ==
  ASSUME IInv, UNCHANGED <<handle, fired, frame>>
  PROVE  FiresOnce'
BY DEF IInv, FiresOnce, OneShot, NeverNull

\* An item that waits for nothing any more; the others wait as they did.
LEMMA QuietKeeps ==
  ASSUME IInv, NEW i \in Items, Quiet(i)
  PROVE  /\ lastActive' \in [Items -> Nat \cup {Never}]
         /\ \A x \in Items : x # i => lastActive'[x] = lastActive[x]
BY Parts DEF Quiet

LEMMA enrollKeeps ==
  ASSUME IInv, NEW i \in Sockets, NEW d \in SocketDelays, enroll(i, d) PROVE IInv'
<1> USE DEF enroll
<1>0. i \in Items /\ d \in Durations /\ \A x \in Timeouts : x # i /\ x \in Items
  BY SocketsApart, TimeoutsApart, ConstantFacts
<1>1. program' \in Programs /\ ClockInv'
  BY DEF IInv, ClockInv
<1>p. item \in [Items -> ItemType] /\ ListsInv(queue, lists, watcher, item, frame)
  BY Parts
<1>2. /\ item' \in [Items -> ItemType] /\ item'[i].idleStart = item[i].idleStart /\ item'[i].made = item[i].made
      /\ \A x \in Items : x # i => item'[x] = item[x]
  BY <1>0, <1>p DEF ItemType
<1>q. /\ lastActive' \in [Items -> Nat \cup {Never}]
      /\ \A x \in Items : x # i => lastActive'[x] = lastActive[x]
  BY <1>0, QuietKeeps
<1>3. ObjectTypes'
  BY <1>0, <1>2, <1>q DEF IInv, ObjectTypes
<1>4. /\ ListsInv(queue', lists', watcher', item', frame)
      /\ \A l \in ListIds : \A x \in Items : Q!Holds(queue', l, x) => Q!Holds(queue, l, x) /\ x # i
      /\ \A l \in ListIds : watcher'[l].due \in {watcher[l].due, Stopped}
  <2>1. CASE item[i].idleNext
    <3>1. LeaveList(i, item[i].idleTimeout)
      BY <2>1
    <3>2. \A l \in ListIds : Q!Holds(queue, l, i) => watcher[l].msecs = item[i].idleTimeout
      BY <1>0, Parts
    <3> HIDE DEF enroll
    <3> QED BY <1>0, <1>2, <1>p, <3>1, <3>2, LeaveKeeps
  <2>2. CASE ~item[i].idleNext
    <3>1. queue' = queue /\ lists' = lists /\ watcher' = watcher
      BY <2>2
    <3>2. \A l \in ListIds : ~Q!Holds(queue, l, i)
      BY <1>0, <2>2, Parts DEF Ready
    <3>3. ~Q!Linked(queue, i)
      BY <3>2 DEF Q!Linked
    <3>4. \A x \in Items : Q!Linked(queue, x) => /\ item'[x].idleStart = item[x].idleStart
                                                 /\ item'[x].idleTimeout = item[x].idleTimeout
      BY <1>2, <3>3
    <3>5. ListsInv(queue, lists, watcher, item', frame)
      BY <1>p, <3>4, SameIdle
    <3> QED BY <3>1, <3>2, <3>5
  <2> QED BY <2>1, <2>2
<1>5. ReadyInv'
  <2>1. ~Q!Linked(queue', i)
    BY <1>0, <1>4 DEF Q!Linked
  <2> QED BY <1>0, <1>2, <1>4, <1>q, <2>1, OthersReady
<1>6. OwnInv'
  BY <1>0, <1>2, OwnKept
<1>7. FrameInv'
  BY <1>4, FrameKept, WalkedStopped
<1>8. FiresOnce'
  BY FiresKept
<1>9. frame' = frame
  OBVIOUS
<1>10. MadeInv'
  BY <1>0, <1>2 DEF IInv, MadeInv, Items
<1> QED BY <1>1, <1>3, <1>4, <1>5, <1>6, <1>7, <1>8, <1>9, <1>10 DEF IInv

LEMMA unenrollKeeps ==
  ASSUME IInv, NEW i \in Sockets, unenroll(i) PROVE IInv'
<1> USE DEF unenroll
<1>0. i \in Items /\ \A x \in Timeouts : x # i /\ x \in Items
  BY SocketsApart, TimeoutsApart
<1>1. program' \in Programs /\ ClockInv'
  BY DEF IInv, ClockInv
<1>p. item \in [Items -> ItemType] /\ ListsInv(queue, lists, watcher, item, frame)
  BY Parts
<1>2. /\ item' \in [Items -> ItemType] /\ item'[i].idleStart = item[i].idleStart /\ item'[i].made = item[i].made
      /\ \A x \in Items : x # i => item'[x] = item[x]
  BY <1>0, <1>p DEF ItemType, Unenrolled
<1>q. /\ lastActive' \in [Items -> Nat \cup {Never}]
      /\ \A x \in Items : x # i => lastActive'[x] = lastActive[x]
  BY <1>0, QuietKeeps
<1>3. ObjectTypes'
  BY <1>0, <1>2, <1>q DEF IInv, ObjectTypes
<1>4. /\ ListsInv(queue', lists', watcher', item', frame)
      /\ \A l \in ListIds : \A x \in Items : Q!Holds(queue', l, x) => Q!Holds(queue, l, x) /\ x # i
      /\ \A l \in ListIds : watcher'[l].due \in {watcher[l].due, Stopped}
  <2>2. \A l \in ListIds : Q!Holds(queue, l, i) => watcher[l].msecs = item[i].idleTimeout
    BY <1>0, Parts
  <2> QED BY <1>0, <1>2, <1>p, <2>2, LeaveKeeps
<1>5. ReadyInv'
  <2>1. ~Q!Linked(queue', i)
    BY <1>0, <1>4 DEF Q!Linked
  <2> QED BY <1>0, <1>2, <1>4, <1>q, <2>1, OthersReady
<1>6. OwnInv'
  BY <1>0, <1>2, OwnKept
<1>7. FrameInv'
  BY <1>4, FrameKept, WalkedStopped
<1>8. FiresOnce'
  BY FiresKept
<1>9. frame' = frame
  OBVIOUS
<1>10. MadeInv'
  BY <1>0, <1>2 DEF IInv, MadeInv, Items
<1> QED BY <1>1, <1>3, <1>4, <1>5, <1>6, <1>7, <1>8, <1>9, <1>10 DEF IInv

LEMMA activeKeeps ==
  ASSUME IInv, NEW i \in Sockets, active(i) PROVE IInv'
<1> DEFINE d == item[i].idleTimeout
<1>0. i \in Items /\ i \notin Timeouts /\ \A x \in Timeouts : x # i /\ x \in Items
  BY SocketsApart, TimeoutsApart
<1>a. /\ JoinList(i, d) /\ d >= 0
      /\ item' = [item EXCEPT ![i].idleStart = now, ![i].idleNext = TRUE]
      /\ lastActive' = [lastActive EXCEPT ![i] = now]
      /\ UNCHANGED <<program, now, loopTime, handle, frame, fired>>
  BY DEF active
<1>1. program' \in Programs /\ ClockInv'
  BY <1>a DEF IInv, ClockInv
<1>p. /\ item \in [Items -> ItemType] /\ ListsInv(queue, lists, watcher, item, frame)
      /\ now \in Nat /\ loopTime \in Nat /\ loopTime <= now + Skew /\ lastActive \in [Items -> Nat \cup {Never}]
      /\ \A x \in Items : item[x].idleStart \in Nat /\ item[x].idleStart <= now
  BY Parts
<1>d. d \in Durations
  <2>1. d \in Durations \cup {-1}
    BY <1>0, <1>p DEF ItemType
  <2> QED BY <1>a, <2>1
<1>2. /\ item' \in [Items -> ItemType] /\ item'[i].idleStart = now /\ item'[i].idleTimeout = d
      /\ item'[i].idleNext /\ item'[i].made = item[i].made
      /\ \A x \in Items : x # i => item'[x] = item[x]
  BY <1>0, <1>a, <1>p DEF ItemType
<1>3. /\ lastActive' \in [Items -> Nat \cup {Never}] /\ lastActive'[i] = now
      /\ \A x \in Items : x # i => lastActive'[x] = lastActive[x]
  BY <1>0, <1>a, <1>p
<1>4. ObjectTypes'
  <2>1. \A x \in Items : item'[x].idleStart <= now'
    BY <1>2, <1>a, <1>p
  <2> QED BY <1>2, <1>3, <1>a, <2>1 DEF IInv, ObjectTypes
<1> HIDE DEF d
<1>5. /\ ListsInv(queue', lists', watcher', item', frame)
      /\ \A l \in ListIds : \A x \in Items : Q!Holds(queue', l, x) => Q!Holds(queue, l, x) \/ x = i
      /\ \A l \in ListIds : frame.l = l => watcher'[l] = watcher[l]
  <2>1. \A l \in ListIds : Q!Holds(queue, l, i) => watcher[l].msecs = d
    BY <1>0, Parts DEF d
  <2>2. Joins(i, d, item')
    BY <1>2, <2>1 DEF Joins
  <2> QED BY <1>0, <1>a, <1>d, <2>2, JoinKeeps
<1>6. ReadyInv'
  <2>1. item[i].made
    BY DEF IInv, MadeInv
  <2>2. Ready(i)'
    BY <1>0, <1>2, <1>3, <2>1 DEF Ready
  <2> QED BY <1>0, <1>2, <1>3, <1>5, <1>a, <2>2, OthersReady
<1>7. OwnInv'
  BY <1>0, <1>2, <1>a, OwnKept
<1>8. FrameInv'
  BY <1>5, <1>a, FrameKept, WalkedStopped
<1>9. FiresOnce'
  BY <1>a, FiresKept
<1>10. MadeInv'
  BY <1>0, <1>2 DEF IInv, MadeInv, Items
<1> QED BY <1>1, <1>4, <1>5, <1>6, <1>7, <1>8, <1>9, <1>10, <1>a DEF IInv

LEMMA setTimeoutKeeps ==
  ASSUME IInv, NEW i \in Timeouts, NEW after \in Delays, setTimeout(i, after) PROVE IInv'
<1> DEFINE d == Normal(after)
<1>0. i \in Items /\ i \in Owners /\ i \notin Sockets /\ d \in Durations /\ d \in Nat
  BY TimeoutsApart, ConstantFacts
<1>a. /\ JoinList(i, d) /\ ~item[i].made
      /\ item' = [item EXCEPT ![i] = [idleTimeout |-> d, idleNext |-> TRUE, idleStart |-> now,
                                      when |-> now + d, onTimeout |-> TRUE, made |-> TRUE]]
      /\ lastActive' = [lastActive EXCEPT ![i] = now]
      /\ UNCHANGED <<program, now, loopTime, handle, frame, fired>>
  BY DEF setTimeout
<1>1. program' \in Programs /\ ClockInv'
  BY <1>a DEF IInv, ClockInv
<1>p. /\ item \in [Items -> ItemType] /\ now \in Nat /\ lastActive \in [Items -> Nat \cup {Never}]
      /\ \A x \in Items : item[x].idleStart \in Nat /\ item[x].idleStart <= now
  BY Parts
<1> HIDE DEF d
<1>2. /\ item' \in [Items -> ItemType] /\ item'[i].idleStart = now /\ item'[i].idleTimeout = d
      /\ item'[i].idleNext /\ item'[i].made /\ item'[i].onTimeout
      /\ \A x \in Items : x # i => item'[x] = item[x]
  <2>1. now + d \in Nat
    BY <1>0, <1>p
  <2>2. [idleTimeout |-> d, idleNext |-> TRUE, idleStart |-> now,
         when |-> now + d, onTimeout |-> TRUE, made |-> TRUE] \in ItemType
    BY <1>0, <1>p, <2>1 DEF ItemType
  <2> QED BY <1>0, <1>a, <1>p, <2>2
<1>3. /\ lastActive' \in [Items -> Nat \cup {Never}] /\ lastActive'[i] = now
      /\ \A x \in Items : x # i => lastActive'[x] = lastActive[x]
  BY <1>0, <1>a, <1>p
<1>4. ObjectTypes'
  <2>1. \A x \in Items : item'[x].idleStart <= now'
    BY <1>2, <1>a, <1>p
  <2> QED BY <1>2, <1>3, <1>a, <2>1 DEF IInv, ObjectTypes
<1>5. /\ ListsInv(queue', lists', watcher', item', frame)
      /\ \A l \in ListIds : \A x \in Items : Q!Holds(queue', l, x) => Q!Holds(queue, l, x) \/ x = i
      /\ \A l \in ListIds : frame.l = l => watcher'[l] = watcher[l]
  <2>1. \A l \in ListIds : ~Q!Holds(queue, l, i)
    BY <1>0, <1>a, Parts DEF Ready
  <2>2. Joins(i, d, item')
    BY <1>2, <2>1 DEF Joins
  <2> QED BY <1>0, <1>a, <2>2, JoinKeeps
<1>6. ReadyInv'
  <2>1. ~handle[i].made /\ fired[i] = 0
    BY <1>0, <1>a DEF IInv, OwnInv
  <2>2. Ready(i)'
    BY <1>2, <1>3, <1>a, <2>1 DEF Ready
  <2> QED BY <1>0, <1>2, <1>3, <1>5, <1>a, <2>2, OthersReady
<1>7. OwnInv'
  BY <1>0, <1>2, <1>a, TimeoutsApart DEF IInv, OwnInv
<1>8. FrameInv'
  BY <1>5, <1>a, FrameKept, WalkedStopped
<1>9. FiresOnce'
  BY <1>a, FiresKept
<1>10. MadeInv'
  BY <1>0, <1>2 DEF IInv, MadeInv, Items
<1> QED BY <1>1, <1>4, <1>5, <1>6, <1>7, <1>8, <1>9, <1>10, <1>a DEF IInv

\* A Timeout with a Timer of its own stands in no list.
LEMMA OwnNotListed ==
  ASSUME IInv, NEW i \in Timeouts, handle[i].made
  PROVE  \A l \in ListIds : ~Q!Holds(queue, l, i)
BY Parts, TimeoutsApart DEF Ready

\* A Timer is stopped: what else it is stays.
LEMMA StoppedKeeps ==
  ASSUME NEW h \in HandleType
  PROVE  /\ StoppedTimer(h) \in HandleType /\ StoppedTimer(h).due = Stopped
         /\ StoppedTimer(h).made = h.made /\ StoppedTimer(h).late = h.late
         /\ StoppedTimer(h).repeat = h.repeat /\ StoppedTimer(h).fn = h.fn
<1>1. PICK z \in Nat : z = 0
  OBVIOUS
<1>2. PICK d \in Nat \cup {Stopped} : d = Stopped
  OBVIOUS
<1>3. StoppedTimer(h) = [h EXCEPT !.due = d, !.when = z, !.lag = z]
  BY <1>1, <1>2 DEF StoppedTimer
<1>4. z \in Int
  BY <1>1
<1>5. /\ StoppedTimer(h) \in HandleType /\ StoppedTimer(h).due = d
      /\ StoppedTimer(h).made = h.made /\ StoppedTimer(h).late = h.late
      /\ StoppedTimer(h).repeat = h.repeat /\ StoppedTimer(h).fn = h.fn
  BY <1>3, <1>4 DEF HandleType
<1> QED BY <1>2, <1>5

\* close of a Timer: it is stopped and its function is gone.
LEMMA TimerClosed ==
  ASSUME handle \in [Owners -> HandleType], NEW i \in Owners,
         handle' = [handle EXCEPT ![i] = ClosedTimer(@)]
  PROVE  /\ handle' \in [Owners -> HandleType]
         /\ \A x \in Owners : x # i => handle'[x] = handle[x]
         /\ handle'[i].made = handle[i].made /\ handle'[i].late = handle[i].late /\ handle'[i].repeat = handle[i].repeat
         /\ handle'[i].due = Stopped /\ ~handle'[i].fn
<1> DEFINE h == ClosedTimer(handle[i])
<1>1. handle[i] \in HandleType
  OBVIOUS
<1>2. /\ h \in HandleType
      /\ h.made = handle[i].made /\ h.late = handle[i].late /\ h.repeat = handle[i].repeat
      /\ h.due = Stopped /\ ~h.fn
  <2> DEFINE g == StoppedTimer(handle[i])
             c == handle[i].closing \/ handle[i].open
  <2>1. /\ g \in HandleType /\ g.due = Stopped /\ g.made = handle[i].made /\ g.late = handle[i].late
        /\ g.repeat = handle[i].repeat
    BY <1>1, StoppedKeeps
  <2>2. g.closing = handle[i].closing
    BY <1>1 DEF StoppedTimer, HandleType
  <2>3. h = [g EXCEPT !.fn = FALSE, !.open = FALSE, !.closing = g.closing \/ handle[i].open]
    BY DEF ClosedTimer
  <2>4. c \in BOOLEAN
    OBVIOUS
  <2>5. h = [g EXCEPT !.fn = FALSE, !.open = FALSE, !.closing = c]
    BY <2>2, <2>3
  <2> HIDE DEF g, h, c
  <2> QED BY <2>1, <2>4, <2>5 DEF HandleType
<1>4. handle' = [handle EXCEPT ![i] = h]
  OBVIOUS
<1> HIDE DEF h
<1>5. handle'[i] = h /\ \A x \in Owners : x # i => handle'[x] = handle[x]
  BY <1>4
<1>6. handle' \in [Owners -> HandleType]
  BY <1>2, <1>4
<1> QED BY <1>2, <1>5, <1>6

\* A Timer that is stopped is not late, whenever it was asked for.
LEMMA StoppedTimed ==
  ASSUME NEW h, h.due = Stopped
  PROVE  Timed(h)
BY DEF Timed

LEMMA clearTimeoutKeeps ==
  ASSUME IInv, NEW i \in Timeouts, clearTimeout(i) PROVE IInv'
<1>0. i \in Items /\ i \in Owners /\ i \notin Sockets
  BY TimeoutsApart
<1>a. close(i) /\ UNCHANGED <<program, now, loopTime, frame, fired>> /\ frame.at # "dead"
  BY DEF clearTimeout, InUserCode
<1>q. /\ lastActive' \in [Items -> Nat \cup {Never}]
      /\ \A x \in Items : x # i => lastActive'[x] = lastActive[x]
  BY <1>0, QuietKeeps DEF clearTimeout
<1>1. program' \in Programs /\ ClockInv'
  BY <1>a DEF IInv, ClockInv
<1>p. /\ item \in [Items -> ItemType] /\ handle \in [Owners -> HandleType]
      /\ ListsInv(queue, lists, watcher, item, frame)
      /\ ObjectTypes
  BY Parts DEF IInv
<1>b. item[i].made
  BY <1>a DEF close
<1>2. /\ item' \in [Items -> ItemType] /\ item'[i].idleStart = item[i].idleStart
      /\ item'[i].made /\ ~item'[i].onTimeout
      /\ \A x \in Items : x # i => item'[x] = item[x]
  <2>1. CASE handle[i].made
    <3>1. item' = [item EXCEPT ![i].onTimeout = FALSE]
      BY <1>a, <2>1 DEF close
    <3> QED BY <1>0, <1>b, <1>p, <3>1 DEF ItemType
  <2>2. CASE ~handle[i].made
    <3>1. item' = [item EXCEPT ![i] = [Unenrolled(@) EXCEPT !.onTimeout = FALSE]]
      BY <1>a, <2>2 DEF close
    <3> QED BY <1>0, <1>b, <1>p, <3>1 DEF ItemType, Unenrolled
  <2> QED BY <2>1, <2>2
<1>3. /\ handle' \in [Owners -> HandleType]
      /\ \A x \in Owners : x # i => handle'[x] = handle[x]
      /\ handle'[i].made = handle[i].made /\ handle'[i].late = handle[i].late /\ handle'[i].repeat = handle[i].repeat
      /\ handle'[i].due = Stopped /\ ~handle'[i].fn
  <2>1. CASE handle[i].made
    <3>1. handle' = [handle EXCEPT ![i] = ClosedTimer(@)]
      BY <1>a, <2>1 DEF close
    <3> QED BY <1>0, <1>p, <3>1, TimerClosed
  <2>2. CASE ~handle[i].made
    <3>1. handle' = handle
      BY <1>a, <2>2 DEF close
    <3>2. handle[i].due = Stopped /\ ~handle[i].fn
      BY <1>0, <2>2 DEF IInv, OwnInv
    <3> QED BY <1>0, <1>p, <3>1, <3>2
  <2> QED BY <2>1, <2>2
<1>4. ObjectTypes'
  <2>1. \A x \in Items : item'[x].idleStart <= now'
    BY <1>2, <1>a, <1>p DEF ObjectTypes
  <2> QED BY <1>2, <1>3, <1>a, <1>p, <1>q, <2>1 DEF ObjectTypes
<1>5. /\ ListsInv(queue', lists', watcher', item', frame)
      /\ \A l \in ListIds : \A x \in Items : Q!Holds(queue', l, x) => Q!Holds(queue, l, x) /\ x # i
      /\ \A l \in ListIds : watcher'[l].due \in {watcher[l].due, Stopped}
  <2>1. CASE ~handle[i].made
    <3>1. LeaveList(i, item[i].idleTimeout)
      BY <1>a, <2>1 DEF close
    <3>2. \A l \in ListIds : Q!Holds(queue, l, i) => watcher[l].msecs = item[i].idleTimeout
      BY <1>0, Parts
    <3> QED BY <1>0, <1>2, <1>p, <3>1, <3>2, LeaveKeeps
  <2>2. CASE handle[i].made
    <3>1. queue' = queue /\ lists' = lists /\ watcher' = watcher
      BY <1>a, <2>2 DEF close
    <3>2. \A l \in ListIds : ~Q!Holds(queue, l, i)
      BY <2>2, OwnNotListed
    <3>3. ~Q!Linked(queue, i)
      BY <3>2 DEF Q!Linked
    <3>4. \A x \in Items : Q!Linked(queue, x) => /\ item'[x].idleStart = item[x].idleStart
                                                 /\ item'[x].idleTimeout = item[x].idleTimeout
      BY <1>2, <3>3
    <3>5. ListsInv(queue, lists, watcher, item', frame)
      BY <1>p, <3>4, SameIdle
    <3> QED BY <3>1, <3>2, <3>5
  <2> QED BY <2>1, <2>2
<1>6. ReadyInv'
  <2>1. ~Q!Linked(queue', i)
    BY <1>0, <1>5 DEF Q!Linked
  <2>2. \A x \in Timeouts : x # i => handle'[x].made = handle[x].made
    BY <1>3, TimeoutsApart
  <2> QED BY <1>0, <1>2, <1>5, <1>a, <1>q, <2>1, <2>2, OthersReady
<1>7. OwnInv'
  <2>1. ASSUME NEW x \in Owners
        PROVE  /\ ~handle'[x].made => handle'[x].due = Stopped /\ ~handle'[x].fn /\ ~handle'[x].late
               /\ handle'[x].due # Stopped /\ ~handle'[x].late => handle'[x].fn
               /\ Timed(handle'[x])
    <3>1. CASE x = i
      <4>1. Timed(handle'[i])
        BY <1>3, StoppedTimed
      <4> QED BY <1>0, <1>3, <3>1, <4>1 DEF IInv, OwnInv
    <3>2. CASE x # i
      BY <1>0, <1>3, <3>2 DEF IInv, OwnInv
    <3> QED BY <3>1, <3>2
  <2>2. ASSUME NEW x \in Timeouts
        PROVE  /\ handle'[x].repeat = 0
               /\ ~item'[x].made => ~handle'[x].made /\ fired'[x] = 0
               /\ ~item'[x].onTimeout => ~handle'[x].fn
               /\ handle'[x].due # Stopped /\ ~handle'[x].late => fired'[x] = 0
    <3>1. x \in Owners /\ x \in Items
      BY TimeoutsApart
    <3> QED BY <1>2, <1>3, <1>a, <3>1 DEF IInv, OwnInv
  <2> QED BY <2>1, <2>2 DEF OwnInv
<1>8. FrameInv'
  BY <1>5, <1>a, FrameKept, WalkedStopped
<1>9. FiresOnce'
  BY <1>3, <1>a, TimeoutsApart DEF IInv, FiresOnce, OneShot, NeverNull
<1>10. MadeInv'
  BY <1>0, <1>2 DEF IInv, MadeInv, Items
<1> QED BY <1>1, <1>4, <1>5, <1>6, <1>7, <1>8, <1>9, <1>10, <1>a DEF IInv

\* The thread moves, but stays in ontimeout of the same list, or out of it; or the
\* process ends.
LEMMA FrameMoves ==
  ASSUME NEW q, NEW ls, NEW w, NEW it, NEW fr, ListsInv(q, ls, w, it, fr), NEW new,
         (new.l = fr.l /\ fr.at # "dead") \/ new.at = "dead"
  PROVE  ListsInv(q, ls, w, it, new)
<1>1. EmptyWalked(q, ls, w, new)
  BY DEF ListsInv, EmptyWalked
<1>2. Timely(q, w, it, new)
  BY DEF ListsInv, Timely
<1> QED BY <1>1, <1>2 DEF ListsInv

\* An operation on a Timer of its own: the lists are as they were.
LEMMA OwnTimerKeeps ==
  ASSUME IInv, frame.at # "dead", frame' \in {frame, Crash},
         UNCHANGED <<program, now, loopTime, queue, lists, watcher, item, fired>>,
         lastActive' \in [Items -> Nat \cup {Never}],
         \A x \in Items : Q!Linked(queue, x) => lastActive'[x] = lastActive[x],
         handle' \in [Owners -> HandleType], OwnInv',
         \A x \in Timeouts : handle'[x].made = handle[x].made /\ handle'[x].late = handle[x].late
  PROVE  IInv'
<1>0. program' \in Programs /\ ClockInv'
  BY DEF IInv, ClockInv
<1>1. ListsInv(queue, lists, watcher, item, frame)'
  <2>1. ListsInv(queue, lists, watcher, item, frame')
    BY FrameMoves DEF IInv, Crash, Frame
  <2> QED BY <2>1
<1>2. ObjectTypes' /\ MadeInv'
  BY DEF IInv, ObjectTypes, MadeInv
<1>3. ReadyInv'
  BY DEF IInv, ReadyInv, Ready
<1>4. FrameInv'
  <2>1. CASE frame' = frame
    BY <2>1, FrameKept, WalkedStopped
  <2>2. CASE frame' = Crash
    BY <2>2 DEF FrameInv, Crash, Frame
  <2> QED BY <2>1, <2>2
<1>5. FiresOnce'
  BY DEF IInv, FiresOnce, OneShot, NeverNull, Crash, Frame
<1> QED BY <1>0, <1>1, <1>2, <1>3, <1>4, <1>5 DEF IInv

\* HandleWrap's ref and unref: a flag of the handle, or the end of the process.
LEMMA SetRefKeeps ==
  ASSUME IInv, NEW i \in Owners, NEW b \in BOOLEAN, SetRef(i, b),
         UNCHANGED <<item, fired>>
  PROVE  /\ handle' \in [Owners -> HandleType] /\ OwnInv' /\ frame' \in {frame, Crash}
         /\ \A x \in Timeouts : handle'[x].made = handle[x].made /\ handle'[x].late = handle[x].late
<1>1. handle \in [Owners -> HandleType] /\ frame' \in {frame, Crash}
  BY Parts DEF SetRef
<1>2. PICK c \in BOOLEAN : handle' = [handle EXCEPT ![i] = [handle[i] EXCEPT !.ref = c]]
  <2>1. handle' = [handle EXCEPT ![i] = [handle[i] EXCEPT !.ref = IF handle[i].open THEN b ELSE handle[i].ref]]
    BY DEF SetRef
  <2>2. (IF handle[i].open THEN b ELSE handle[i].ref) \in BOOLEAN
    BY <1>1 DEF HandleType
  <2> QED BY <2>1, <2>2
<1> DEFINE h == [handle[i] EXCEPT !.ref = c]
<1>3. /\ h \in HandleType /\ h.made = handle[i].made /\ h.late = handle[i].late
      /\ h.repeat = handle[i].repeat /\ h.due = handle[i].due /\ h.fn = handle[i].fn
      /\ h.open = handle[i].open /\ h.when = handle[i].when /\ h.lag = handle[i].lag
  BY <1>1 DEF HandleType
<1> HIDE DEF h
<1>4. /\ handle' \in [Owners -> HandleType] /\ handle'[i] = h
      /\ \A x \in Owners : x # i => handle'[x] = handle[x]
  BY <1>1, <1>2, <1>3 DEF h
<1>5. Timed(h) <=> Timed(handle[i])
  BY <1>3 DEF Timed
<1>6. \A x \in Owners : /\ handle'[x].made = handle[x].made /\ handle'[x].late = handle[x].late
                        /\ handle'[x].repeat = handle[x].repeat /\ handle'[x].due = handle[x].due
                        /\ handle'[x].fn = handle[x].fn /\ (Timed(handle[x]) => Timed(handle'[x]))
  BY <1>3, <1>4, <1>5
<1>7. OwnInv'
  BY <1>6, TimeoutsApart DEF IInv, OwnInv
<1> QED BY <1>1, <1>4, <1>6, <1>7, TimeoutsApart

LEMMA unrefKeeps ==
  ASSUME IInv, NEW i \in Timeouts, unref(i) PROVE IInv'
<1>0. i \in Items /\ i \in Owners /\ i \notin Sockets
  BY TimeoutsApart
<1>a. UNCHANGED <<program, now, loopTime, fired>> /\ frame.at # "dead" /\ item[i].made
  BY DEF unref, InUserCode
<1>l. /\ lastActive' \in [Items -> Nat \cup {Never}]
      /\ \A x \in Items : x # i => lastActive'[x] = lastActive[x]
  BY <1>0, QuietKeeps DEF unref
<1>1. program' \in Programs /\ ClockInv'
  BY <1>a DEF IInv, ClockInv
<1>p. /\ item \in [Items -> ItemType] /\ handle \in [Owners -> HandleType]
      /\ ListsInv(queue, lists, watcher, item, frame)
      /\ now \in Nat /\ loopTime \in Nat
      /\ ObjectTypes
  BY Parts DEF IInv
<1>o. OwnInv
  BY DEF IInv
<1>q. \A x \in Timeouts : x \in Owners /\ x \in Items
  BY TimeoutsApart
\* unref of a Timer: it stands in no list.
<1>2. CASE handle[i].made
  <2>1. SetRef(i, FALSE) /\ UNCHANGED <<queue, lists, watcher, item>>
    BY <1>2 DEF unref
  <2>2. ~Q!Linked(queue, i)
    BY <1>2, OwnNotListed DEF Q!Linked
  <2>3. \A x \in Items : Q!Linked(queue, x) => lastActive'[x] = lastActive[x]
    BY <1>l, <2>2
  <2>4. /\ handle' \in [Owners -> HandleType] /\ OwnInv' /\ frame' \in {frame, Crash}
        /\ \A x \in Timeouts : handle'[x].made = handle[x].made /\ handle'[x].late = handle[x].late
    BY <1>0, <1>a, <2>1, SetRefKeeps
  <2> QED BY <1>a, <1>l, <2>1, <2>3, <2>4, OwnTimerKeeps
\* It leaves its list for a Timer of its own.
<1>3. CASE ~handle[i].made
  <2> DEFINE wait == Left(i)
             h == NewTimer(wait, 0, FALSE, item[i].onTimeout, item[i].when, ~Q!Linked(queue, i))
  <2>1. /\ LeaveList(i, item[i].idleTimeout) /\ frame' = frame
        /\ item' = [item EXCEPT ![i] = Unenrolled(@)]
        /\ handle' = [handle EXCEPT ![i] = h]
    BY <1>3 DEF unref
  <2>2. /\ item' \in [Items -> ItemType] /\ item'[i].idleStart = item[i].idleStart
        /\ item'[i].made = item[i].made /\ item'[i].onTimeout = item[i].onTimeout
        /\ \A x \in Items : x # i => item'[x] = item[x]
    BY <1>0, <1>p, <2>1 DEF ItemType, Unenrolled
  <2>3. item[i].when \in Nat /\ item[i].onTimeout \in BOOLEAN
    BY <1>0, <1>p DEF ItemType
  <2>4. loopTime + wait \in Nat /\ (loopTime + wait) + (now - loopTime) >= item[i].when /\ now - loopTime \in Int
    BY <1>p, <2>3 DEF Left
  <2>5. /\ h.due = loopTime + wait /\ h.repeat = 0 /\ h.fn = item[i].onTimeout /\ h.made
        /\ h.late = ~Q!Linked(queue, i) /\ h.open /\ h.when = item[i].when /\ h.lag = now - loopTime
    BY DEF NewTimer
  <2>6. h \in HandleType
    <3> HIDE DEF wait
    <3>1. Q!Linked(queue, i) \in BOOLEAN
      BY DEF Q!Linked
    <3> QED BY <2>3, <2>4, <3>1 DEF HandleType, NewTimer
  <2>l. h.late <=> ~Q!Linked(queue, i)
    BY DEF NewTimer
  <2> HIDE DEF h, wait
  <2>t. Timed(h)
    BY <2>4, <2>5 DEF Timed
  <2>7. handle' \in [Owners -> HandleType] /\ handle'[i] = h /\ \A x \in Owners : x # i => handle'[x] = handle[x]
    BY <1>0, <1>p, <2>1, <2>6
  <2>8. ObjectTypes'
    <3>1. \A x \in Items : item'[x].idleStart <= now'
      BY <1>a, <1>p, <2>2 DEF ObjectTypes
    <3> QED BY <1>a, <1>l, <1>p, <2>2, <2>7, <3>1 DEF ObjectTypes
  <2>9. /\ ListsInv(queue', lists', watcher', item', frame)
        /\ \A l \in ListIds : \A x \in Items : Q!Holds(queue', l, x) => Q!Holds(queue, l, x) /\ x # i
        /\ \A l \in ListIds : watcher'[l].due \in {watcher[l].due, Stopped}
    <3>1. \A l \in ListIds : Q!Holds(queue, l, i) => watcher[l].msecs = item[i].idleTimeout
      BY <1>0, Parts
    <3> QED BY <1>0, <1>p, <2>1, <2>2, <3>1, LeaveKeeps
  <2>10. ReadyInv'
    <3>1. ~Q!Linked(queue', i)
      BY <1>0, <2>9 DEF Q!Linked
    <3>2. \A x \in Timeouts : x # i => handle'[x].made = handle[x].made
      BY <1>q, <2>7
    <3> QED BY <1>0, <1>a, <1>l, <2>2, <2>9, <3>1, <3>2, OthersReady
  <2>11. Q!Linked(queue, i) => item[i].onTimeout /\ fired[i] = 0
    BY <1>0 DEF IInv, ReadyInv, Ready
  <2>12. ~handle[i].fn /\ ~handle[i].late
    BY <1>0, <1>3, <1>o DEF OwnInv
  <2>13. OwnInv'
    <3>1. ASSUME NEW x \in Owners
          PROVE  /\ ~handle'[x].made => handle'[x].due = Stopped /\ ~handle'[x].fn /\ ~handle'[x].late
                 /\ handle'[x].due # Stopped /\ ~handle'[x].late => handle'[x].fn
                 /\ Timed(handle'[x])
      <4>1. CASE x = i
        BY <2>5, <2>7, <2>11, <2>l, <2>t, <4>1, Zenon
      <4>2. CASE x # i
        BY <1>o, <2>7, <4>2 DEF OwnInv
      <4> QED BY <4>1, <4>2
    <3>2. ASSUME NEW x \in Timeouts
          PROVE  /\ handle'[x].repeat = 0
                 /\ ~item'[x].made => ~handle'[x].made /\ fired'[x] = 0
                 /\ ~item'[x].onTimeout => ~handle'[x].fn
                 /\ handle'[x].due # Stopped /\ ~handle'[x].late => fired'[x] = 0
      <4>1. CASE x = i
        <5>1. h.fn = item'[i].onTimeout /\ item'[i].made /\ h.repeat = 0 /\ fired' = fired
          BY <1>a, <2>2, <2>5
        <5> QED BY <2>7, <2>11, <2>l, <4>1, <5>1, Zenon
      <4>2. CASE x # i
        BY <1>a, <1>o, <1>q, <2>2, <2>7, <4>2 DEF OwnInv
      <4> QED BY <4>1, <4>2
    <3> QED BY <3>1, <3>2 DEF OwnInv
  <2>14. FrameInv'
    BY <1>a, <2>1, <2>9, FrameKept, WalkedStopped
  <2>15. FiresOnce'
    BY <1>0, <1>a, <1>q, <2>1, <2>7, <2>12 DEF IInv, FiresOnce, OneShot, NeverNull
  <2>16. MadeInv'
    BY <1>0, <2>2 DEF IInv, MadeInv, Items
  <2> QED BY <1>1, <1>a, <2>1, <2>8, <2>9, <2>10, <2>13, <2>14, <2>15, <2>16 DEF IInv
<1> QED BY <1>2, <1>3

LEMMA refKeeps ==
  ASSUME IInv, NEW i \in Owners, ref(i) \/ unrefInterval(i) PROVE IInv'
<1>1. PICK b \in BOOLEAN : SetRef(i, b)
  BY DEF ref, unrefInterval
<1>2. /\ frame.at # "dead"
      /\ UNCHANGED <<program, now, loopTime, queue, lists, watcher, item, lastActive, fired>>
  BY DEF ref, unrefInterval, InUserCode
<1>3. /\ handle' \in [Owners -> HandleType] /\ OwnInv' /\ frame' \in {frame, Crash}
      /\ \A x \in Timeouts : handle'[x].made = handle[x].made /\ handle'[x].late = handle[x].late
  BY <1>1, <1>2, SetRefKeeps
<1>4. lastActive' \in [Items -> Nat \cup {Never}]
  BY <1>2, Parts
<1> QED BY <1>2, <1>3, <1>4, OwnTimerKeeps

LEMMA clearIntervalKeeps ==
  ASSUME IInv, NEW i \in Intervals, clearInterval(i) PROVE IInv'
<1>0. i \in Owners /\ i \notin Timeouts
  BY KindsAssumption DEF Owners
<1>1. handle' = [handle EXCEPT ![i] = ClosedTimer(@)] /\ handle[i].made
  BY DEF clearInterval
<1>2. /\ frame.at # "dead"
      /\ UNCHANGED <<program, now, loopTime, queue, lists, watcher, item, frame, lastActive, fired>>
  BY DEF clearInterval, InUserCode
<1>3. /\ handle' \in [Owners -> HandleType]
      /\ \A x \in Owners : x # i => handle'[x] = handle[x]
      /\ handle'[i].made = handle[i].made /\ handle'[i].due = Stopped
  BY <1>0, <1>1, Parts, TimerClosed
<1>t. Timed(handle'[i])
  BY <1>3, StoppedTimed
<1>4. OwnInv'
  BY <1>0, <1>1, <1>2, <1>3, <1>t, TimeoutsApart DEF IInv, OwnInv
<1>5. lastActive' \in [Items -> Nat \cup {Never}]
  BY <1>2, Parts
<1> QED BY <1>0, <1>2, <1>3, <1>4, <1>5, OwnTimerKeeps, TimeoutsApart

LEMMA setIntervalKeeps ==
  ASSUME IInv, NEW i \in Intervals, NEW after \in Delays, setInterval(i, after) PROVE IInv'
<1> DEFINE h == NewTimer(Normal(after), Normal(after), TRUE, TRUE, now + Normal(after), FALSE)
<1>0. i \in Owners /\ i \notin Timeouts
  BY KindsAssumption DEF Owners
<1>1. handle' = [handle EXCEPT ![i] = h]
  BY DEF setInterval
<1>2. /\ frame.at # "dead"
      /\ UNCHANGED <<program, now, loopTime, queue, lists, watcher, item, frame, lastActive, fired>>
  BY DEF setInterval, InUserCode
<1>3. /\ loopTime + Normal(after) \in Nat /\ Normal(after) \in Durations
      /\ now + Normal(after) \in Nat /\ now - loopTime \in Int
      /\ (loopTime + Normal(after)) + (now - loopTime) >= now + Normal(after)
  BY Parts, ConstantFacts
<1>4. /\ h \in HandleType /\ h.fn /\ h.made /\ h.due = loopTime + Normal(after)
      /\ h.open /\ h.when = now + Normal(after) /\ h.lag = now - loopTime
  BY <1>3 DEF HandleType, NewTimer
<1> HIDE DEF h
<1>t. Timed(h)
  BY <1>3, <1>4 DEF Timed
<1>5. /\ handle' \in [Owners -> HandleType] /\ handle'[i] = h
      /\ \A x \in Owners : x # i => handle'[x] = handle[x]
  BY <1>0, <1>1, <1>4, Parts
<1>6. OwnInv'
  BY <1>0, <1>2, <1>4, <1>5, <1>t, TimeoutsApart DEF IInv, OwnInv
<1>7. lastActive' \in [Items -> Nat \cup {Never}]
  BY <1>2, Parts
<1> QED BY <1>0, <1>2, <1>5, <1>6, <1>7, OwnTimerKeeps, TimeoutsApart

\* OnClose deletes the wrappers: nothing else of a Timer changes.
LEMMA RunClosingKeeps == ASSUME IInv, RunClosing PROVE IInv'
<1>0. /\ frame.at # "dead" /\ handle' = [x \in Owners |-> [handle[x] EXCEPT !.closing = FALSE]]
      /\ UNCHANGED <<program, now, loopTime, queue, lists, watcher, item, frame, lastActive, fired>>
  BY DEF RunClosing, InLoop, Frame
<1>1. handle \in [Owners -> HandleType] /\ lastActive \in [Items -> Nat \cup {Never}]
  BY Parts
<1>2. ASSUME NEW x \in Owners
      PROVE  /\ handle'[x] \in HandleType
             /\ handle'[x].made = handle[x].made /\ handle'[x].late = handle[x].late
             /\ handle'[x].repeat = handle[x].repeat /\ handle'[x].due = handle[x].due
             /\ handle'[x].fn = handle[x].fn /\ handle'[x].open = handle[x].open
             /\ handle'[x].when = handle[x].when /\ handle'[x].lag = handle[x].lag
  <2>1. handle[x] \in HandleType /\ handle'[x] = [handle[x] EXCEPT !.closing = FALSE]
    BY <1>0, <1>1
  <2> QED BY <2>1 DEF HandleType
<1>3. handle' \in [Owners -> HandleType]
  BY <1>0, <1>2
<1>4. \A x \in Owners : Timed(handle[x]) => Timed(handle'[x])
  BY <1>2 DEF Timed
<1>5. OwnInv'
  BY <1>0, <1>2, <1>4, TimeoutsApart DEF IInv, OwnInv
<1> QED BY <1>0, <1>1, <1>2, <1>3, <1>5, OwnTimerKeeps, TimeoutsApart


-----------------------------------------------------------------------------
\* A move of the thread alone.
LEMMA OwnReturnsKeeps == ASSUME IInv, OwnReturns \/ ItemReturns PROVE IInv'
<1>0. UNCHANGED <<program, now, loopTime, queue, lists, watcher, item, handle, lastActive, fired>>
  BY DEF OwnReturns, ItemReturns
<1>f. FrameInv
  BY DEF IInv
<1>1. frame'.l = frame.l /\ frame.at # "dead" /\ frame'.at # "dead" /\ FrameInv'
  <2>1. CASE OwnReturns
    <3>1. frame.at = "own" /\ frame' = InLoop
      BY <2>1 DEF OwnReturns
    <3>2. frame.l = 0
      BY <1>f, <3>1 DEF FrameInv
    <3> QED BY <3>1, <3>2 DEF FrameInv, InLoop, Frame
  <2>2. CASE ItemReturns
    <3>1. frame.at = "item" /\ frame' = Frame("list", frame.l, frame.t, Nobody)
      BY <2>2 DEF ItemReturns
    <3> QED BY <1>0, <1>f, <3>1 DEF FrameInv, Frame
  <2> QED BY <2>1, <2>2
<1>2. program' \in Programs /\ ClockInv' /\ ObjectTypes' /\ MadeInv'
  BY <1>0 DEF IInv, ClockInv, ObjectTypes, MadeInv
<1>3. ListsInv(queue, lists, watcher, item, frame)'
  <2>1. ListsInv(queue, lists, watcher, item, frame')
    BY <1>1, FrameMoves DEF IInv
  <2> QED BY <1>0, <2>1
<1>4. ReadyInv'
  BY <1>0 DEF IInv, ReadyInv, Ready
<1>5. OwnInv'
  BY <1>0 DEF IInv, OwnInv
<1>6. FiresOnce'
  BY <1>0, <1>1 DEF IInv, FiresOnce, OneShot, NeverNull
<1> QED BY <1>1, <1>2, <1>3, <1>4, <1>5, <1>6 DEF IInv

\* The watcher of a list fires: the list is walked from now on.
LEMMA FireListKeeps == ASSUME IInv, NEW l \in ListIds, FireList(l) PROVE IInv'
<1>0. /\ frame = InLoop /\ watcher[l].due # Stopped
      /\ watcher' = [watcher EXCEPT ![l].due = Stopped]
      /\ frame' = Frame("list", l, now, Nobody)
      /\ UNCHANGED <<program, now, loopTime, queue, lists, item, handle, lastActive, fired>>
  BY DEF FireList, DueFirst
<1>f. /\ frame.l = 0 /\ frame.at = "loop" /\ frame'.l = l /\ frame'.at = "list" /\ frame'.t = now
  BY <1>0 DEF InLoop, Frame
<1>p. now \in Nat /\ loopTime \in Nat /\ loopTime <= now + Skew /\ ListTypes(queue, lists, watcher)
  BY Parts
<1>t. /\ queue \in [ListIds -> Seq(Items)] /\ lists \in [Durations -> ListIds \cup {0}]
      /\ watcher \in [ListIds -> WatcherType]
      /\ \A m \in ListIds : watcher[m].open => watcher[m].msecs \in Durations
  BY <1>p DEF ListTypes
<1>w. /\ watcher' \in [ListIds -> WatcherType] /\ watcher'[l].due = Stopped
      /\ watcher'[l].msecs = watcher[l].msecs /\ watcher'[l].open = watcher[l].open
      /\ watcher'[l].left = watcher[l].left
      /\ \A m \in ListIds : m # l => watcher'[m] = watcher[m]
  BY <1>0, <1>t DEF WatcherType
<1>i. /\ Once(queue) /\ Ordered(queue, item) /\ Fitting(queue, watcher, item)
      /\ Table(lists, watcher) /\ ClosedEmpty(queue, watcher)
      /\ EmptyWalked(queue, lists, watcher, frame) /\ Timely(queue, watcher, item, frame)
  BY DEF IInv, ListsInv
<1>1. program' \in Programs /\ ClockInv' /\ ObjectTypes' /\ MadeInv'
  BY <1>0 DEF IInv, ClockInv, ObjectTypes, MadeInv
<1>2. ListsInv(queue, lists, watcher', item, frame')
  <2>1. ListTypes(queue, lists, watcher')
    BY <1>t, <1>w DEF ListTypes
  <2>2. Fitting(queue, watcher', item)
    BY <1>i, <1>w DEF Fitting
  <2>3. Table(lists, watcher')
    BY <1>i, <1>t, <1>w DEF Table
  <2>4. ClosedEmpty(queue, watcher')
    BY <1>i, <1>w DEF ClosedEmpty
  <2>5. EmptyWalked(queue, lists, watcher', frame')
    <3> SUFFICES ASSUME NEW d \in Durations, lists[d] # 0, queue[lists[d]] = <<>>
                 PROVE  /\ watcher'[lists[d]].due = Stopped
                        /\ frame'.l = lists[d] \/ watcher'[lists[d]].left
      BY DEF EmptyWalked
    <3>1. lists[d] \in ListIds
      BY <1>t
    <3>2. watcher[lists[d]].due = Stopped
      BY <1>i DEF EmptyWalked
    <3>3. frame.l = lists[d] \/ watcher[lists[d]].left \/ frame.at = "dead"
      BY <1>i DEF EmptyWalked
    <3>4. watcher[lists[d]].left
      BY <1>f, <3>3
    <3>5. lists[d] # l
      BY <1>0, <3>2
    <3> QED BY <1>w, <3>1, <3>2, <3>4, <3>5
  <2>6. Timely(queue, watcher', item, frame')
    <3> SUFFICES ASSUME NEW m \in ListIds, NEW x \in Items, Q!Holds(queue, m, x), m # l, ~watcher'[m].left
                 PROVE  watcher'[m].due # Stopped /\ watcher'[m].due <= item[x].idleStart + watcher'[m].msecs + Skew
      BY <1>f DEF Timely
    <3>1. watcher'[m] = watcher[m] /\ frame.l # m /\ frame.at # "dead"
      BY <1>f, <1>w, ConstantFacts
    <3> QED BY <1>i, <3>1 DEF Timely
  <2> QED BY <1>i, <2>1, <2>2, <2>3, <2>4, <2>5, <2>6 DEF ListsInv
<1>3. ReadyInv'
  BY <1>0 DEF IInv, ReadyInv, Ready
<1>4. OwnInv'
  BY <1>0 DEF IInv, OwnInv
<1>5. FrameInv'
  BY <1>0, <1>p, <1>w, ConstantFacts DEF FrameInv, Frame
<1>6. FiresOnce'
  BY <1>0, <1>f DEF IInv, FiresOnce, OneShot, NeverNull
<1> QED BY <1>0, <1>1, <1>2, <1>3, <1>4, <1>5, <1>6 DEF IInv

\* A Timer of its own fires: for a Timeout once, unless unref came late.
LEMMA FireOwnKeeps == ASSUME IInv, NEW i \in Owners, FireOwn(i) PROVE IInv'
<1> DEFINE h == IF handle[i].repeat = 0 THEN StoppedTimer(handle[i]) ELSE Again(handle[i])
<1>0. /\ frame = InLoop /\ handle[i].due # Stopped
      /\ handle' = [handle EXCEPT ![i] = h]
      /\ \/ ~handle[i].fn /\ frame' = Frame("dead", 0, 0, i) /\ UNCHANGED fired
         \/ handle[i].fn /\ UNCHANGED <<frame, fired>>
         \/ handle[i].fn /\ frame' = Frame("own", 0, 0, i) /\ Called(i)
      /\ UNCHANGED <<program, now, loopTime, queue, lists, watcher, item, lastActive>>
  BY DEF FireOwn, DueFirst
<1>p. /\ handle \in [Owners -> HandleType] /\ fired \in [Timeouts -> Nat] /\ loopTime \in Nat /\ now \in Nat
      /\ ListsInv(queue, lists, watcher, item, frame)
  BY Parts
<1>o. OwnInv
  BY DEF IInv
<1>q. \A x \in Timeouts : x \in Owners /\ x \in Items
  BY TimeoutsApart
<1>1. /\ h \in HandleType /\ Timed(h) /\ (handle[i].repeat = 0 => h.due = Stopped)
      /\ h.made = handle[i].made /\ h.late = handle[i].late
      /\ h.repeat = handle[i].repeat /\ h.fn = handle[i].fn
  <2>0. handle[i] \in HandleType /\ handle[i].repeat \in Durations \cup {0}
    BY <1>p DEF HandleType
  <2>a. Durations \subseteq Nat
    BY ConstantFacts
  <2>b. Durations \cup {0} \subseteq Nat
    BY <2>a
  <2>1. handle[i].repeat \in Nat
    BY <2>0, <2>b, Zenon
  <2>2. CASE handle[i].repeat = 0
    <3>1. h = StoppedTimer(handle[i])
      BY <2>2
    <3> HIDE DEF h
    <3>2. /\ h \in HandleType /\ h.due = Stopped /\ h.made = handle[i].made /\ h.late = handle[i].late
          /\ h.repeat = handle[i].repeat /\ h.fn = handle[i].fn
      BY <2>0, <3>1, StoppedKeeps
    <3> QED BY <3>2, StoppedTimed
  <2>3. CASE handle[i].repeat # 0
    <3>1. h = [handle[i] EXCEPT !.due = loopTime + handle[i].repeat, !.when = now + handle[i].repeat,
                                !.lag = now - loopTime]
      BY <2>3 DEF Again
    <3> HIDE DEF h
    <3>2. /\ loopTime + handle[i].repeat \in Nat /\ now + handle[i].repeat \in Nat /\ now - loopTime \in Int
          /\ (loopTime + handle[i].repeat) + (now - loopTime) >= now + handle[i].repeat
      BY <1>p, <2>1
    <3>3. /\ h \in HandleType /\ h.made = handle[i].made /\ h.late = handle[i].late
          /\ h.repeat = handle[i].repeat /\ h.fn = handle[i].fn /\ h.open = handle[i].open
          /\ h.due = loopTime + handle[i].repeat /\ h.when = now + handle[i].repeat /\ h.lag = now - loopTime
      BY <2>0, <3>1, <3>2 DEF HandleType
    <3>4. handle[i].open
      BY <1>0, <1>o DEF OwnInv, Timed
    <3>5. Timed(h)
      BY <3>2, <3>3, <3>4 DEF Timed
    <3> QED BY <2>3, <3>3, <3>5
  <2> QED BY <2>2, <2>3
<1>e. i \in Timeouts => h.due = Stopped
  BY <1>1, <1>o DEF OwnInv
<1> HIDE DEF h
<1>2. /\ handle' \in [Owners -> HandleType] /\ handle'[i] = h
      /\ \A x \in Owners : /\ handle'[x].made = handle[x].made /\ handle'[x].late = handle[x].late
                           /\ handle'[x].repeat = handle[x].repeat /\ handle'[x].fn = handle[x].fn
                           /\ x # i => handle'[x] = handle[x]
  BY <1>0, <1>1, <1>p
<1>3. handle[i].made /\ (~handle[i].late => handle[i].fn)
  BY <1>0, <1>o DEF OwnInv
<1>4. /\ fired' \in [Timeouts -> Nat]
      /\ \A x \in Timeouts : x # i => fired'[x] = fired[x]
      /\ i \in Timeouts => fired'[i] = fired[i] \/ fired'[i] = fired[i] + 1
  BY <1>0, <1>p DEF Called
<1>5. program' \in Programs /\ ClockInv' /\ ObjectTypes' /\ MadeInv'
  BY <1>0, <1>2, <1>4 DEF IInv, ClockInv, ObjectTypes, MadeInv
<1>6. frame.l = 0 /\ frame.at = "loop" /\ frame'.l = 0
      /\ FrameInv' /\ (frame'.at = "dead" => frame'.i = i /\ ~handle[i].fn)
  <2>1. frame.l = 0 /\ frame.at = "loop"
    BY <1>0 DEF InLoop, Frame
  <2>2. CASE frame' = Frame("dead", 0, 0, i) /\ ~handle[i].fn
    BY <2>1, <2>2 DEF FrameInv, Frame
  <2>3. CASE frame' = frame
    BY <1>0, <2>1, <2>3 DEF FrameInv, InLoop, Frame
  <2>4. CASE frame' = Frame("own", 0, 0, i)
    BY <2>1, <2>4 DEF FrameInv, Frame
  <2> QED BY <1>0, <2>2, <2>3, <2>4
<1>7. ListsInv(queue, lists, watcher, item, frame)'
  <2>1. ListsInv(queue, lists, watcher, item, frame')
    BY <1>6, <1>p, FrameMoves
  <2> QED BY <1>0, <2>1
<1>8. ReadyInv'
  <2> SUFFICES ASSUME NEW x \in Items, Q!Linked(queue', x) PROVE Ready(x)'
    BY DEF ReadyInv
  <2>1. Ready(x)
    BY <1>0 DEF IInv, ReadyInv
  <2>2. x \in Timeouts => x # i
    BY <1>3, <2>1 DEF Ready
  <2> QED BY <1>0, <1>2, <1>4, <1>q, <2>1, <2>2 DEF Ready
<1>9. OwnInv'
  <2>1. ASSUME NEW x \in Owners
        PROVE  /\ ~handle'[x].made => handle'[x].due = Stopped /\ ~handle'[x].fn /\ ~handle'[x].late
               /\ handle'[x].due # Stopped /\ ~handle'[x].late => handle'[x].fn
               /\ Timed(handle'[x])
    <3>1. CASE x = i
      BY <1>1, <1>2, <1>3, <3>1
    <3>2. CASE x # i
      BY <1>2, <1>o, <3>2 DEF OwnInv
    <3> QED BY <3>1, <3>2
  <2>2. ASSUME NEW x \in Timeouts
        PROVE  /\ handle'[x].repeat = 0
               /\ ~item'[x].made => ~handle'[x].made /\ fired'[x] = 0
               /\ ~item'[x].onTimeout => ~handle'[x].fn
               /\ handle'[x].due # Stopped /\ ~handle'[x].late => fired'[x] = 0
    <3>1. CASE x = i
      <4>1. handle'[x].due = Stopped
        BY <1>2, <1>e, <3>1
      <4>2. item[x].made
        BY <1>3, <1>o, <3>1 DEF OwnInv
      <4> QED BY <1>0, <1>2, <1>o, <1>q, <4>1, <4>2 DEF OwnInv
    <3>2. CASE x # i
      BY <1>0, <1>2, <1>4, <1>o, <1>q, <3>2 DEF OwnInv
    <3> QED BY <3>1, <3>2
  <2> QED BY <2>1, <2>2 DEF OwnInv
<1>10. FiresOnce'
  <2>1. NeverNull'
    BY <1>2, <1>3, <1>6 DEF NeverNull
  <2>2. ASSUME NEW x \in Timeouts PROVE fired'[x] <= 1 \/ handle'[x].late
    <3>1. CASE x = i
      <4>1. ~handle[i].late => fired[i] = 0
        BY <1>0, <1>o, <3>1 DEF OwnInv
      <4>2. CASE handle[i].late
        BY <1>2, <3>1, <4>2
      <4>3. CASE fired[i] = 0
        BY <1>4, <3>1, <4>3
      <4> QED BY <4>1, <4>2, <4>3
    <3>2. CASE x # i
      BY <1>2, <1>4, <1>q, <3>2 DEF IInv, FiresOnce, OneShot
    <3> QED BY <3>1, <3>2
  <2> QED BY <2>1, <2>2 DEF FiresOnce, OneShot
<1> QED BY <1>5, <1>6, <1>7, <1>8, <1>9, <1>10 DEF IInv

-----------------------------------------------------------------------------
\* What every step of ontimeout starts from: it walks list frame.l.
LEMMA Walking ==
  ASSUME IInv, frame.at \in {"list", "item"}
  PROVE  /\ frame.l \in ListIds /\ frame.l # 0 /\ watcher[frame.l].due = Stopped
         /\ frame.t \in Nat /\ frame.t <= now /\ loopTime <= frame.t + Skew
         /\ queue \in [ListIds -> Seq(Items)] /\ lists \in [Durations -> ListIds \cup {0}]
         /\ watcher \in [ListIds -> WatcherType]
         /\ \A m \in ListIds : watcher[m].open => watcher[m].msecs \in Durations
         /\ Once(queue) /\ Ordered(queue, item) /\ Fitting(queue, watcher, item)
         /\ Table(lists, watcher) /\ ClosedEmpty(queue, watcher)
         /\ EmptyWalked(queue, lists, watcher, frame) /\ Timely(queue, watcher, item, frame)
<1>1. /\ frame.l \in ListIds /\ frame.l # 0 /\ watcher[frame.l].due = Stopped
      /\ frame.t \in Nat /\ frame.t <= now /\ loopTime <= frame.t + Skew
  BY DEF IInv, FrameInv
<1>2. /\ Once(queue) /\ Ordered(queue, item) /\ Fitting(queue, watcher, item)
      /\ Table(lists, watcher) /\ ClosedEmpty(queue, watcher) /\ ListTypes(queue, lists, watcher)
      /\ EmptyWalked(queue, lists, watcher, frame) /\ Timely(queue, watcher, item, frame)
  BY DEF IInv, ListsInv
<1> QED BY <1>1, <1>2 DEF ListTypes

\* ontimeout has come too early and restarts the watcher, in time for the item at the
\* head, which is the most idle one.
LEMMA ListWaitsKeeps == ASSUME IInv, ListWaits PROVE IInv'
<1> DEFINE l == frame.l
           due == loopTime + Remaining(l)
<1>0. /\ frame.at = "list" /\ ~Idle(l) /\ TooEarly(l)
      /\ watcher' = [watcher EXCEPT ![l].due = due] /\ frame' = InLoop
      /\ UNCHANGED <<program, now, loopTime, queue, lists, item, handle, lastActive, fired>>
  <2>1. watcher' = [watcher EXCEPT ![l] = Started(@, Remaining(l))]
    BY DEF ListWaits
  <2>2. watcher' = [watcher EXCEPT ![l].due = due]
    BY <2>1 DEF Started
  <2> QED BY <2>2 DEF ListWaits
<1>t. /\ l \in ListIds /\ l # 0
      /\ frame.t \in Nat /\ frame.t <= now /\ loopTime <= frame.t + Skew
      /\ queue \in [ListIds -> Seq(Items)] /\ lists \in [Durations -> ListIds \cup {0}]
      /\ watcher \in [ListIds -> WatcherType]
      /\ \A m \in ListIds : watcher[m].open => watcher[m].msecs \in Durations
      /\ Once(queue) /\ Ordered(queue, item) /\ Fitting(queue, watcher, item)
      /\ Table(lists, watcher) /\ ClosedEmpty(queue, watcher)
      /\ EmptyWalked(queue, lists, watcher, frame) /\ Timely(queue, watcher, item, frame)
  BY <1>0, Walking
<1>p. now \in Nat /\ loopTime \in Nat /\ \A x \in Items : item[x].idleStart \in Nat
  BY Parts
<1>f. frame'.l = 0 /\ frame'.at = "loop" /\ frame.at # "dead"
  BY <1>0 DEF InLoop, Frame
<1> HIDE DEF l
<1>h. Head(queue[l]) \in Items /\ Q!Holds(queue, l, Head(queue[l]))
  BY <1>0, <1>t, TailKeeps DEF Idle
<1>m. PICK m \in Nat : m = watcher[l].msecs
  <2>1. watcher[l].msecs \in Durations \cup {0}
    BY <1>t DEF WatcherType
  <2> QED BY <2>1, ConstantFacts
<1>s. PICK b \in Nat : b = item[Head(queue[l])].idleStart
  BY <1>h, <1>p
<1>d. due \in Nat /\ due # -1 /\ due <= b + m + Skew
  <2>1. frame.t - b + 1 < m
    BY <1>0, <1>m, <1>s DEF TooEarly
  <2>2. due = loopTime + (m - (frame.t - b))
    BY <1>m, <1>s DEF Remaining
  <2> QED BY <1>p, <1>t, <2>1, <2>2, ConstantFacts
<1> HIDE DEF due
<1>w. /\ watcher' \in [ListIds -> WatcherType] /\ watcher'[l].due = due
      /\ watcher'[l].msecs = watcher[l].msecs /\ watcher'[l].open = watcher[l].open
      /\ watcher'[l].left = watcher[l].left
      /\ \A k \in ListIds : k # l => watcher'[k] = watcher[k]
  BY <1>0, <1>d, <1>t DEF WatcherType
<1>1. program' \in Programs /\ ClockInv' /\ ObjectTypes' /\ MadeInv'
  BY <1>0 DEF IInv, ClockInv, ObjectTypes, MadeInv
<1>2. ListsInv(queue, lists, watcher', item, frame')
  <2>1. ListTypes(queue, lists, watcher')
    BY <1>t, <1>w DEF ListTypes
  <2>2. Fitting(queue, watcher', item)
    BY <1>t, <1>w DEF Fitting
  <2>3. Table(lists, watcher')
    BY <1>t, <1>w DEF Table
  <2>4. ClosedEmpty(queue, watcher')
    BY <1>0, <1>t, <1>w DEF ClosedEmpty, Idle
  <2>5. EmptyWalked(queue, lists, watcher', frame')
    <3> SUFFICES ASSUME NEW d \in Durations, lists[d] # 0, queue[lists[d]] = <<>>
                 PROVE  watcher'[lists[d]].due = Stopped /\ watcher'[lists[d]].left
      BY DEF EmptyWalked
    <3>1. lists[d] \in ListIds /\ lists[d] # l
      BY <1>0, <1>t DEF Idle
    <3>2. /\ watcher[lists[d]].due = Stopped
          /\ frame.l = lists[d] \/ watcher[lists[d]].left \/ frame.at = "dead"
      BY <1>t DEF EmptyWalked
    <3>3. watcher[lists[d]].left
      BY <1>f, <3>1, <3>2 DEF l
    <3> QED BY <1>w, <3>1, <3>2, <3>3
  <2>6. Timely(queue, watcher', item, frame')
    <3> SUFFICES ASSUME NEW k \in ListIds, NEW x \in Items, Q!Holds(queue, k, x), ~watcher'[k].left
                 PROVE  watcher'[k].due # Stopped /\ watcher'[k].due <= item[x].idleStart + watcher'[k].msecs + Skew
      BY DEF Timely
    <3>1. CASE k = l
      <4>1. b <= item[x].idleStart /\ item[x].idleStart \in Nat
        BY <1>p, <1>s, <1>t, <3>1, HeadMostIdle
      <4>2. watcher'[k].due = due /\ watcher'[k].msecs = m
        BY <1>m, <1>w, <3>1
      <4> QED BY <1>d, <4>1, <4>2, ConstantFacts
    <3>2. CASE k # l
      <4>1. watcher'[k] = watcher[k]
        BY <1>w, <3>2
      <4> QED BY <1>f, <1>t, <3>2, <4>1 DEF Timely, l
    <3> QED BY <3>1, <3>2
  <2> QED BY <1>t, <2>1, <2>2, <2>3, <2>4, <2>5, <2>6 DEF ListsInv
<1>3. ReadyInv'
  BY <1>0 DEF IInv, ReadyInv, Ready
<1>4. OwnInv'
  BY <1>0 DEF IInv, OwnInv
<1>5. FrameInv'
  BY <1>0 DEF FrameInv, InLoop, Frame
<1>6. FiresOnce'
  BY <1>0, <1>f DEF IInv, FiresOnce, OneShot, NeverNull
<1> QED BY <1>0, <1>1, <1>2, <1>3, <1>4, <1>5, <1>6 DEF IInv

\* ontimeout has emptied its list, or finds it closed: its duration has no list now.
LEMMA ListEndsKeeps == ASSUME IInv, ListEnds PROVE IInv'
<1> DEFINE l == frame.l
           e == watcher[l].msecs
<1>0. /\ frame.at = "list" /\ queue[l] = <<>>
      /\ watcher' = [watcher EXCEPT ![l] = Closed(@)] /\ lists' = [lists EXCEPT ![e] = 0] /\ frame' = InLoop
      /\ UNCHANGED <<program, now, loopTime, queue, item, handle, lastActive, fired>>
  BY DEF ListEnds, Idle
<1>t. /\ l \in ListIds /\ l # 0
      /\ queue \in [ListIds -> Seq(Items)] /\ lists \in [Durations -> ListIds \cup {0}]
      /\ watcher \in [ListIds -> WatcherType]
      /\ \A m \in ListIds : watcher[m].open => watcher[m].msecs \in Durations
      /\ Once(queue) /\ Ordered(queue, item) /\ Fitting(queue, watcher, item)
      /\ Table(lists, watcher) /\ ClosedEmpty(queue, watcher)
      /\ EmptyWalked(queue, lists, watcher, frame) /\ Timely(queue, watcher, item, frame)
  BY <1>0, Walking
<1>f. frame'.l = 0 /\ frame'.at = "loop" /\ frame.at # "dead"
  BY <1>0 DEF InLoop, Frame
<1> HIDE DEF l
<1>w. /\ watcher' \in [ListIds -> WatcherType] /\ watcher'[l].due = Stopped
      /\ watcher'[l].msecs = watcher[l].msecs /\ ~watcher'[l].open
      /\ watcher'[l].left = watcher[l].left
      /\ \A k \in ListIds : k # l => watcher'[k] = watcher[k]
  BY <1>0, <1>t DEF WatcherType, Closed
<1>e. lists' \in [Durations -> ListIds \cup {0}] /\ \A d \in Durations : lists'[d] = IF d = e THEN 0 ELSE lists[d]
  BY <1>0, <1>t
<1>1. program' \in Programs /\ ClockInv' /\ ObjectTypes' /\ MadeInv'
  BY <1>0 DEF IInv, ClockInv, ObjectTypes, MadeInv
<1>n. \A d \in Durations : lists'[d] # 0 => /\ lists'[d] = lists[d] /\ lists[d] \in ListIds /\ lists[d] # l
                                            /\ watcher'[lists[d]] = watcher[lists[d]]
  <2> SUFFICES ASSUME NEW d \in Durations, lists'[d] # 0
               PROVE  /\ lists'[d] = lists[d] /\ lists[d] \in ListIds /\ lists[d] # l
                      /\ watcher'[lists[d]] = watcher[lists[d]]
    OBVIOUS
  <2>1. d # e /\ lists'[d] = lists[d] /\ lists[d] \in ListIds
    BY <1>e, <1>t
  <2>2. watcher[lists[d]].msecs = d
    BY <1>t, <2>1 DEF Table
  <2>3. lists[d] # l
    BY <2>1, <2>2
  <2> QED BY <1>w, <2>1, <2>3
<1>2. ListsInv(queue, lists', watcher', item, frame')
  <2>1. ListTypes(queue, lists', watcher')
    BY <1>e, <1>t, <1>w DEF ListTypes
  <2>2. Fitting(queue, watcher', item)
    BY <1>t, <1>w DEF Fitting
  <2>3. Table(lists', watcher')
    BY <1>n, <1>t DEF Table
  <2>4. ClosedEmpty(queue, watcher')
    BY <1>0, <1>t, <1>w DEF ClosedEmpty
  <2>5. EmptyWalked(queue, lists', watcher', frame')
    <3> SUFFICES ASSUME NEW d \in Durations, lists'[d] # 0, queue[lists'[d]] = <<>>
                 PROVE  watcher'[lists'[d]].due = Stopped /\ watcher'[lists'[d]].left
      BY DEF EmptyWalked
    <3>1. lists'[d] = lists[d] /\ lists[d] # l /\ watcher'[lists[d]] = watcher[lists[d]]
      BY <1>n
    <3>2. /\ watcher[lists[d]].due = Stopped
          /\ frame.l = lists[d] \/ watcher[lists[d]].left \/ frame.at = "dead"
      BY <1>t, <3>1 DEF EmptyWalked
    <3>3. watcher[lists[d]].left
      BY <1>f, <3>1, <3>2 DEF l
    <3> QED BY <3>1, <3>2, <3>3
  <2>6. Timely(queue, watcher', item, frame')
    <3> SUFFICES ASSUME NEW k \in ListIds, NEW x \in Items, Q!Holds(queue, k, x), ~watcher'[k].left
                 PROVE  watcher'[k].due # Stopped /\ watcher'[k].due <= item[x].idleStart + watcher'[k].msecs + Skew
      BY DEF Timely
    <3>1. k # l
      BY <1>0, <1>t, HoldsSome
    <3>2. watcher'[k] = watcher[k]
      BY <1>w, <3>1
    <3> QED BY <1>f, <1>t, <3>1, <3>2 DEF Timely, l
  <2> QED BY <1>t, <2>1, <2>2, <2>3, <2>4, <2>5, <2>6 DEF ListsInv
<1>3. ReadyInv'
  BY <1>0 DEF IInv, ReadyInv, Ready
<1>4. OwnInv'
  BY <1>0 DEF IInv, OwnInv
<1>5. FrameInv'
  BY <1>0 DEF FrameInv, InLoop, Frame
<1>6. FiresOnce'
  BY <1>0, <1>f DEF IInv, FiresOnce, OneShot, NeverNull
<1> QED BY <1>0, <1>1, <1>2, <1>3, <1>4, <1>5, <1>6 DEF IInv

\* A callback throws: the process ends, or ontimeout is left half way.
LEMMA ThrowsKeeps == ASSUME IInv, Throws PROVE IInv'
<1>0. /\ frame.at \in {"item", "own"}
      /\ UNCHANGED <<program, now, loopTime, queue, lists, item, handle, lastActive, fired>>
  BY DEF Throws
<1>1. program' \in Programs /\ ClockInv' /\ ObjectTypes' /\ MadeInv' /\ ReadyInv' /\ OwnInv'
  <2>1. program' \in Programs /\ ClockInv' /\ ObjectTypes' /\ MadeInv'
    BY <1>0 DEF IInv, ClockInv, ObjectTypes, MadeInv
  <2>2. ReadyInv' /\ OwnInv'
    BY <1>0 DEF IInv, ReadyInv, Ready, OwnInv
  <2> QED BY <2>1, <2>2
<1>2. CASE frame' = Crash /\ UNCHANGED watcher
  <2>1. frame'.at = "dead" /\ frame'.i = Nobody /\ FrameInv'
    BY <1>2 DEF FrameInv, Crash, Frame
  <2>2. ListsInv(queue, lists, watcher, item, frame')
    BY <2>1, FrameMoves DEF IInv
  <2>3. FiresOnce'
    BY <1>0, <2>1 DEF IInv, FiresOnce, OneShot, NeverNull
  <2> QED BY <1>0, <1>1, <1>2, <2>1, <2>2, <2>3 DEF IInv
<1>3. CASE frame.at = "item" /\ frame' = InLoop /\ watcher' = [watcher EXCEPT ![frame.l].left = TRUE]
  <2> DEFINE l == frame.l
  <2>t. /\ l \in ListIds /\ l # 0 /\ watcher[l].due = Stopped
        /\ queue \in [ListIds -> Seq(Items)] /\ lists \in [Durations -> ListIds \cup {0}]
        /\ watcher \in [ListIds -> WatcherType]
        /\ \A m \in ListIds : watcher[m].open => watcher[m].msecs \in Durations
        /\ Once(queue) /\ Ordered(queue, item) /\ Fitting(queue, watcher, item)
        /\ Table(lists, watcher) /\ ClosedEmpty(queue, watcher)
        /\ EmptyWalked(queue, lists, watcher, frame) /\ Timely(queue, watcher, item, frame)
    BY <1>3, Walking
  <2>f. frame'.l = 0 /\ frame'.at = "loop" /\ frame.at # "dead"
    BY <1>3 DEF InLoop, Frame
  <2>w. /\ watcher' \in [ListIds -> WatcherType] /\ watcher'[l].left
        /\ \A k \in ListIds : /\ k # l => watcher'[k] = watcher[k]
                              /\ watcher'[k].msecs = watcher[k].msecs /\ watcher'[k].open = watcher[k].open
                              /\ watcher'[k].due = watcher[k].due
    BY <1>3, <2>t DEF WatcherType
  <2> HIDE DEF l
  <2>2. ListsInv(queue, lists, watcher', item, frame')
    <3>1. ListTypes(queue, lists, watcher')
      BY <2>t, <2>w DEF ListTypes
    <3>2. Fitting(queue, watcher', item)
      BY <2>t, <2>w DEF Fitting
    <3>3. Table(lists, watcher')
      BY <2>t, <2>w DEF Table
    <3>4. ClosedEmpty(queue, watcher')
      BY <2>t, <2>w DEF ClosedEmpty
    <3>5. EmptyWalked(queue, lists, watcher', frame')
      <4> SUFFICES ASSUME NEW d \in Durations, lists[d] # 0, queue[lists[d]] = <<>>
                   PROVE  watcher'[lists[d]].due = Stopped /\ watcher'[lists[d]].left
        BY DEF EmptyWalked
      <4>1. lists[d] \in ListIds
        BY <2>t
      <4>2. /\ watcher[lists[d]].due = Stopped
            /\ frame.l = lists[d] \/ watcher[lists[d]].left \/ frame.at = "dead"
        BY <2>t DEF EmptyWalked
      <4>3. lists[d] = l \/ watcher[lists[d]].left
        BY <2>f, <4>2 DEF l
      <4> QED BY <2>w, <4>1, <4>2, <4>3
    <3>6. Timely(queue, watcher', item, frame')
      <4> SUFFICES ASSUME NEW k \in ListIds, NEW x \in Items, Q!Holds(queue, k, x), ~watcher'[k].left
                   PROVE  watcher'[k].due # Stopped /\ watcher'[k].due <= item[x].idleStart + watcher'[k].msecs + Skew
        BY DEF Timely
      <4>1. k # l /\ watcher'[k] = watcher[k]
        BY <2>w
      <4> QED BY <2>f, <2>t, <4>1 DEF Timely, l
    <3> QED BY <2>t, <3>1, <3>2, <3>3, <3>4, <3>5, <3>6 DEF ListsInv
  <2>3. FrameInv'
    BY <1>3 DEF FrameInv, InLoop, Frame
  <2>4. FiresOnce'
    BY <1>0, <2>f DEF IInv, FiresOnce, OneShot, NeverNull
  <2> QED BY <1>0, <1>1, <2>2, <2>3, <2>4 DEF IInv
<1> QED BY <1>2, <1>3 DEF Throws

\* ontimeout takes the item at the head, and calls it or skips it.
LEMMA ListCallsKeeps == ASSUME IInv, ListCalls PROVE IInv'
<1> DEFINE l == frame.l
           i == Head(queue[l])
<1>0. /\ frame.at = "list" /\ queue[l] # <<>>
      /\ queue' = [queue EXCEPT ![l] = Tail(@)]
      /\ item' = [item EXCEPT ![i].idleNext = FALSE]
      /\ UNCHANGED <<program, now, loopTime, lists, watcher, handle>> /\ Quiet(i)
  BY DEF ListCalls, Idle
<1>c. \/ UNCHANGED <<frame, fired>>
      \/ item[i].onTimeout /\ frame' = Frame("item", l, frame.t, i) /\ Called(i)
  BY DEF ListCalls
<1>t. /\ l \in ListIds /\ l # 0 /\ watcher[l].due = Stopped
      /\ frame.t \in Nat /\ frame.t <= now /\ loopTime <= frame.t + Skew
      /\ queue \in [ListIds -> Seq(Items)] /\ lists \in [Durations -> ListIds \cup {0}]
      /\ watcher \in [ListIds -> WatcherType]
      /\ \A m \in ListIds : watcher[m].open => watcher[m].msecs \in Durations
      /\ Once(queue) /\ Ordered(queue, item) /\ Fitting(queue, watcher, item)
      /\ Table(lists, watcher) /\ ClosedEmpty(queue, watcher)
      /\ EmptyWalked(queue, lists, watcher, frame) /\ Timely(queue, watcher, item, frame)
  BY <1>0, Walking
<1>q. /\ i \in Items /\ Q!Holds(queue, l, i)
      /\ queue' \in [ListIds -> Seq(Items)] /\ Once(queue') /\ Ordered(queue', item)
      /\ \A m \in ListIds : \A x \in Items : Q!Holds(queue', m, x) <=> Q!Holds(queue, m, x) /\ x # i
  <2> DEFINE u == [queue EXCEPT ![l] = Tail(@)]
  <2>1. /\ i \in Items /\ Q!Holds(queue, l, i)
        /\ u \in [ListIds -> Seq(Items)] /\ Once(u) /\ Ordered(u, item)
        /\ \A m \in ListIds : \A x \in Items : Q!Holds(u, m, x) <=> Q!Holds(queue, m, x) /\ x # i
    BY <1>0, <1>t, TailKeeps
  <2>2. queue' = u
    BY <1>0
  <2> HIDE DEF u, l, i
  <2> QED BY <2>1, <2>2
<1> HIDE DEF l, i
<1>a. /\ lastActive' \in [Items -> Nat \cup {Never}]
      /\ \A x \in Items : x # i => lastActive'[x] = lastActive[x]
  BY <1>0, <1>q, QuietKeeps
<1>r. Ready(i) /\ item[i].idleTimeout = watcher[l].msecs
  BY <1>q, <1>t, Parts
<1>p. /\ item \in [Items -> ItemType] /\ fired \in [Timeouts -> Nat] /\ handle \in [Owners -> HandleType]
      /\ ObjectTypes
  BY Parts DEF IInv
<1>1. /\ item' \in [Items -> ItemType] /\ item'[i].idleStart = item[i].idleStart
      /\ item'[i].made = item[i].made /\ item'[i].onTimeout = item[i].onTimeout
      /\ \A x \in Items : x # i => item'[x] = item[x]
  BY <1>0, <1>p, <1>q DEF ItemType
<1>2. /\ fired' \in [Timeouts -> Nat]
      /\ \A x \in Timeouts : x # i => fired'[x] = fired[x]
      /\ i \in Timeouts => fired'[i] = fired[i] \/ fired'[i] = fired[i] + 1
  BY <1>c, <1>p DEF Called
<1>3. program' \in Programs /\ ClockInv' /\ MadeInv'
  BY <1>0, <1>1 DEF IInv, ClockInv, MadeInv, Items
<1>4. ObjectTypes'
  <2>1. \A x \in Items : item'[x].idleStart <= now'
    BY <1>0, <1>1, <1>p DEF ObjectTypes
  <2> QED BY <1>0, <1>1, <1>2, <1>a, <1>p, <2>1 DEF ObjectTypes
<1>5. frame'.l = l /\ frame'.at # "dead" /\ FrameInv'
  <2>1. CASE frame' = frame
    BY <1>0, <2>1 DEF IInv, FrameInv, l
  <2>2. CASE frame' = Frame("item", l, frame.t, i)
    BY <1>0, <1>q, <1>t, <2>2 DEF FrameInv, Frame
  <2> QED BY <1>c, <2>1, <2>2
<1>6. ListsInv(queue', lists, watcher, item', frame')
  <2>1. ListTypes(queue', lists, watcher)
    BY <1>q, <1>t DEF ListTypes
  <2>2. Fitting(queue', watcher, item)
    BY <1>q, <1>t DEF Fitting
  <2>3. ClosedEmpty(queue', watcher)
    <3> SUFFICES ASSUME NEW m \in ListIds, ~watcher[m].open
                 PROVE  queue'[m] = <<>> /\ watcher[m].due = Stopped
      BY DEF ClosedEmpty
    <3>1. queue[m] = <<>> /\ watcher[m].due = Stopped
      BY <1>t DEF ClosedEmpty
    <3> QED BY <1>q, <1>t, <3>1, HoldsSome
  <2>4. EmptyWalked(queue', lists, watcher, frame)
    <3> SUFFICES ASSUME NEW d \in Durations, lists[d] # 0, queue'[lists[d]] = <<>>
                 PROVE  /\ watcher[lists[d]].due = Stopped
                        /\ frame.l = lists[d] \/ watcher[lists[d]].left \/ frame.at = "dead"
      BY DEF EmptyWalked
    <3>1. CASE lists[d] = l
      BY <1>t, <3>1 DEF l
    <3>2. CASE lists[d] # l
      <4>1. queue'[lists[d]] = queue[lists[d]]
        BY <1>0, <1>t, <3>2
      <4> QED BY <1>t, <4>1 DEF EmptyWalked
    <3> QED BY <3>1, <3>2
  <2>5. Timely(queue', watcher, item, frame)
    BY <1>q, <1>t DEF Timely
  <2>6. ListsInv(queue', lists, watcher, item, frame)
    BY <1>q, <1>t, <2>1, <2>2, <2>3, <2>4, <2>5 DEF ListsInv
  <2>7. ~Q!Linked(queue', i)
    BY <1>q DEF Q!Linked
  <2>8. \A x \in Items : Q!Linked(queue', x) => /\ item'[x].idleStart = item[x].idleStart
                                                /\ item'[x].idleTimeout = item[x].idleTimeout
    BY <1>1, <2>7
  <2>9. ListsInv(queue', lists, watcher, item', frame)
    BY <2>6, <2>8, SameIdle
  <2>10. frame'.l = frame.l /\ frame.at # "dead"
    BY <1>0, <1>5 DEF l
  <2> QED BY <2>9, <2>10, FrameMoves
<1>7. ReadyInv'
  <2>1. ~Q!Linked(queue', i)
    BY <1>q DEF Q!Linked
  <2> QED BY <1>0, <1>1, <1>2, <1>a, <1>q, <2>1, OthersReady
<1>8. OwnInv'
  <2>1. ASSUME NEW x \in Timeouts
        PROVE  /\ handle[x].repeat = 0
               /\ ~item'[x].made => ~handle[x].made /\ fired'[x] = 0
               /\ ~item'[x].onTimeout => ~handle[x].fn
               /\ handle[x].due # Stopped /\ ~handle[x].late => fired'[x] = 0
    <3>0. x \in Items /\ x \in Owners
      BY TimeoutsApart
    <3>1. CASE x = i
      <4>1. item[i].made /\ ~handle[i].made
        BY <1>r, <3>1 DEF Ready
      <4>2. handle[i].due = Stopped /\ ~handle[i].fn /\ handle[i].repeat = 0
        BY <3>0, <3>1, <4>1 DEF IInv, OwnInv
      <4> QED BY <1>1, <3>1, <4>1, <4>2
    <3>2. CASE x # i
      BY <1>1, <1>2, <3>0, <3>2 DEF IInv, OwnInv
    <3> QED BY <3>1, <3>2
  <2>2. \A x \in Owners :
               /\ ~handle[x].made => handle[x].due = Stopped /\ ~handle[x].fn /\ ~handle[x].late
               /\ handle[x].due # Stopped /\ ~handle[x].late => handle[x].fn
               /\ Timed(handle[x])
    BY DEF IInv, OwnInv
  <2> QED BY <1>0, <2>1, <2>2 DEF OwnInv
<1>9. FiresOnce'
  <2>1. ASSUME NEW x \in Timeouts PROVE fired'[x] <= 1 \/ handle'[x].late
    <3>1. CASE x = i
      <4>1. fired[i] = 0
        BY <1>r, <3>1 DEF Ready
      <4> QED BY <1>2, <3>1, <4>1
    <3>2. CASE x # i
      BY <1>0, <1>2, <3>2 DEF IInv, FiresOnce, OneShot
    <3> QED BY <3>1, <3>2
  <2> QED BY <1>5, <2>1 DEF FiresOnce, OneShot, NeverNull
<1> QED BY <1>0, <1>3, <1>4, <1>5, <1>6, <1>7, <1>8, <1>9 DEF IInv

-----------------------------------------------------------------------------
\* Every step keeps the invariant: one lemma for each operation, above.
LEMMA NextIInv == ASSUME IInv, [Next]_vars PROVE IInv'
<1>1. program \in Programs /\ \A d \in program.delays : d \in Delays
  BY ProgramAssumption DEF IInv
<1>2. CASE Tick \/ UpdateTime
  BY <1>2, TickKeeps, UpdateTimeKeeps
<1>3. CASE \E i \in Sockets \cap program.uses : active(i) \/ unenroll(i) \/ \E d \in SocketDelays : enroll(i, d)
  BY <1>3, activeKeeps, unenrollKeeps, enrollKeeps
<1>4. CASE \E i \in Timeouts \cap program.uses : clearTimeout(i) \/ unref(i) \/ \E d \in program.delays : setTimeout(i, d)
  BY <1>1, <1>4, clearTimeoutKeeps, unrefKeeps, setTimeoutKeeps
<1>5. CASE \E i \in Intervals \cap program.uses :
             unrefInterval(i) \/ clearInterval(i) \/ \E d \in program.delays : setInterval(i, d)
  <2>1. Intervals \subseteq Owners
    BY DEF Owners
  <2> QED BY <1>1, <1>5, <2>1, refKeeps, clearIntervalKeeps, setIntervalKeeps
<1>6. CASE \E i \in Owners \cap program.uses : ref(i)
  BY <1>6, refKeeps
<1>7. CASE RunTimer
  BY <1>7, FireListKeeps, FireOwnKeeps DEF RunTimer
<1>8. CASE RunClosing \/ OwnReturns \/ ItemReturns
  BY <1>8, RunClosingKeeps, OwnReturnsKeeps
<1>9. CASE ontimeout
  BY <1>9, ListWaitsKeeps, ListCallsKeeps, ListEndsKeeps DEF ontimeout
<1>10. CASE Throws
  BY <1>10, ThrowsKeeps
<1>11. CASE UNCHANGED vars
  BY <1>11, StutterKeeps
<1> QED BY <1>2, <1>3, <1>4, <1>5, <1>6, <1>7, <1>8, <1>9, <1>10, <1>11 DEF Next

LEMMA SpecIInv == Spec => []IInv
BY InitIInv, NextIInv, PTL DEF Spec

\* Whatever the callbacks do while ontimeout walks a list, the table leads to the open
\* list of each duration, lists are ordered by idle time, a list with items has a
\* watcher that is due in time, and one without items has none.
THEOREM ListsAlwaysKept == Spec => []ListsKept
<1>1. IInv => ListsKept
  BY IInvLists
<1> QED BY <1>1, SpecIInv, PTL

\* A Timeout fires once and never with its callback gone, whether it fires from its
\* list or from the Timer that unref gave it.
THEOREM FiresAtMostOnce == Spec => []FiresOnce
<1>1. IInv => FiresOnce
  BY DEF IInv
<1> QED BY <1>1, SpecIInv, PTL

\* A step that calls nobody.
LEMMA NobodyCalled ==
  ASSUME \A i : ~ListCallsItem(i) /\ ~TimerCalls(i), UNCHANGED fired
  PROVE  NotEarly /\ Silence
BY DEF NotEarly, Silence

\* A step that calls an item calls the one that waited longest, after its duration, or
\* the owner of a Timer that is due; no step calls what was taken out or cleared.
LEMMA StepFiresRightly == ASSUME IInv, [Next]_vars PROVE [NotEarly /\ Silence]_vars
<1> USE DEF ListCallsItem, TimerCalls
<1>0. SUFFICES ASSUME Next PROVE NotEarly /\ Silence
  OBVIOUS
<1>1. CASE frame' \in {frame, InLoop, Crash} /\ UNCHANGED fired
  <2>1. \A i : ~ListCallsItem(i) /\ ~TimerCalls(i)
    BY <1>1 DEF InLoop, Crash, Frame
  <2> QED BY <1>1, <2>1, NobodyCalled
<1>2. CASE frame.at # "list" /\ frame # InLoop /\ UNCHANGED fired
  <2>1. \A i : ~ListCallsItem(i) /\ ~TimerCalls(i)
    BY <1>2
  <2> QED BY <1>2, <2>1, NobodyCalled
<1>3. CASE frame = InLoop /\ frame'.at = "list" /\ UNCHANGED fired
  <2>1. \A i : ~ListCallsItem(i) /\ ~TimerCalls(i)
    BY <1>3 DEF InLoop, Frame
  <2> QED BY <1>3, <2>1, NobodyCalled
<1>4. ASSUME NEW i \in Owners, FireOwn(i) PROVE NotEarly /\ Silence
  <2>0. /\ frame = InLoop /\ handle[i].due # Stopped /\ handle[i].due <= loopTime
        /\ \/ ~handle[i].fn /\ frame' = Frame("dead", 0, 0, i) /\ UNCHANGED fired
           \/ handle[i].fn /\ UNCHANGED <<frame, fired>>
           \/ handle[i].fn /\ frame' = Frame("own", 0, 0, i) /\ Called(i)
    BY <1>4 DEF FireOwn, DueFirst
  <2>1. frame.at # "list"
    BY <2>0 DEF InLoop, Frame
  <2>2. fired \in [Timeouts -> Nat] /\ handle \in [Owners -> HandleType]
        /\ now \in Nat /\ loopTime \in Nat /\ loopTime <= now + Skew
    BY Parts
  <2>3. ASSUME NEW x \in Owners, TimerCalls(x) PROVE x = i
    BY <2>0, <2>3 DEF InLoop, Frame
  <2>4. handle[i].open /\ handle[i].due + handle[i].lag >= handle[i].when
    BY <2>0 DEF IInv, OwnInv, Timed
  <2>5. now + Skew + handle[i].lag >= handle[i].when
    <3>1. handle[i].due \in Nat \cup {Stopped} /\ handle[i].lag \in Int /\ handle[i].when \in Nat
      BY <2>2 DEF HandleType
    <3>2. handle[i].due \in Nat
      BY <2>0, <3>1
    <3> QED BY <2>0, <2>2, <2>4, <3>1, <3>2, ConstantFacts
  <2>6. NotEarly
    BY <2>1, <2>3, <2>5 DEF NotEarly
  <2>7. ASSUME NEW x \in Timeouts, ~item[x].onTimeout PROVE fired'[x] = fired[x]
    <3>1. CASE UNCHANGED fired
      BY <3>1
    <3>2. CASE handle[i].fn /\ Called(i)
      <4>1. x # i
        BY <2>7, <3>2 DEF IInv, OwnInv
      <4> QED BY <2>2, <3>2, <4>1 DEF Called
    <3> QED BY <2>0, <3>1, <3>2
  <2>8. Silence
    BY <2>1, <2>3, <2>4, <2>7 DEF Silence
  <2> QED BY <2>6, <2>8
<1>5. CASE ListCalls
  <2> DEFINE l == frame.l
             h == Head(queue[l])
  <2>0. /\ frame.at = "list" /\ queue[l] # <<>> /\ ~TooEarly(l)
        /\ \/ UNCHANGED <<frame, fired>>
           \/ item[h].onTimeout /\ frame' = Frame("item", l, frame.t, h) /\ Called(h)
    BY <1>5 DEF ListCalls, Idle
  <2>1. CASE UNCHANGED <<frame, fired>>
    BY <1>1, <2>1
  <2>2. CASE item[h].onTimeout /\ frame' = Frame("item", l, frame.t, h) /\ Called(h)
    <3>1. /\ l \in ListIds /\ frame.t \in Nat /\ frame.t <= now /\ queue \in [ListIds -> Seq(Items)] /\ Once(queue)
          /\ watcher \in [ListIds -> WatcherType]
      BY <2>0, Walking
    <3>2. h \in Items /\ Q!Holds(queue, l, h)
      BY <2>0, <3>1, TailKeeps
    <3>3. item[h].idleTimeout = watcher[l].msecs /\ Ready(h)
      BY <3>1, <3>2, Parts
    <3>4. ~(frame.t - item[h].idleStart + 1 < watcher[l].msecs)
      BY <2>0 DEF TooEarly
    <3>5. lastActive[h] = item[h].idleStart /\ item[h].idleStart \in Nat /\ now \in Nat
      BY <3>2, <3>3, Parts DEF Ready
    <3>m. PICK m \in Nat : m = watcher[l].msecs
      <4>1. watcher[l].msecs \in Durations \cup {0}
        BY <3>1 DEF WatcherType
      <4> QED BY <4>1, ConstantFacts
    <3>6. now + 1 >= lastActive[h] + item[h].idleTimeout
      BY <3>1, <3>3, <3>4, <3>5, <3>m
    <3>n. lastActive[h] # Never
      BY <3>5 DEF Never
    <3>7. ASSUME NEW i, ListCallsItem(i) PROVE i = h
      BY <2>2, <3>7 DEF Frame
    <3>8. \A i : ~TimerCalls(i)
      BY <2>0 DEF InLoop, Frame
    <3>9. NotEarly
      BY <3>6, <3>7, <3>8 DEF NotEarly
    <3>10. \A i \in Timeouts : ~item[i].onTimeout => fired'[i] = fired[i]
      <4>1. fired \in [Timeouts -> Nat]
        BY Parts
      <4> QED BY <2>2, <4>1 DEF Called
    <3>11. Silence
      BY <3>7, <3>8, <3>10, <3>n DEF Silence
    <3> QED BY <3>9, <3>11
  <2> QED BY <2>0, <2>1, <2>2
<1>6. CASE Tick \/ UpdateTime \/ RunClosing
  BY <1>1, <1>6 DEF Tick, UpdateTime, RunClosing
<1>7. CASE \/ \E i \in Sockets \cap program.uses : active(i) \/ unenroll(i) \/ \E d \in SocketDelays : enroll(i, d)
           \/ \E i \in Timeouts \cap program.uses : clearTimeout(i) \/ unref(i) \/ \E d \in program.delays : setTimeout(i, d)
  <2>1. frame' \in {frame, Crash} /\ UNCHANGED fired
    BY <1>7 DEF active, unenroll, enroll, clearTimeout, unref, SetRef, setTimeout
  <2> QED BY <1>1, <2>1
<1>8. CASE \/ \E i \in Intervals \cap program.uses :
                unrefInterval(i) \/ clearInterval(i) \/ \E d \in program.delays : setInterval(i, d)
           \/ \E i \in Owners \cap program.uses : ref(i)
  <2>1. frame' \in {frame, Crash} /\ UNCHANGED fired
    BY <1>8 DEF unrefInterval, clearInterval, setInterval, ref, SetRef
  <2> QED BY <1>1, <2>1
<1>9. CASE \E l \in ListIds : FireList(l)
  <2>1. frame = InLoop /\ frame'.at = "list" /\ UNCHANGED fired
    BY <1>9 DEF FireList, Frame
  <2> QED BY <1>3, <2>1
<1>10. CASE OwnReturns \/ ItemReturns \/ Throws
  <2>1. frame.at # "list" /\ frame # InLoop /\ UNCHANGED fired
    BY <1>10 DEF OwnReturns, ItemReturns, Throws, InLoop, Frame
  <2> QED BY <1>2, <2>1
<1>11. CASE ListWaits \/ ListEnds
  <2>1. frame' = InLoop /\ UNCHANGED fired
    BY <1>11 DEF ListWaits, ListEnds
  <2> QED BY <1>1, <2>1
<1> QED BY <1>0, <1>4, <1>5, <1>6, <1>7, <1>8, <1>9, <1>10, <1>11 DEF Next, RunTimer, ontimeout

\* ontimeout never calls an item before its duration is over, less a millisecond, since
\* it was last activated, nor one that was taken out of its list since then; a Timer of
\* its own never calls an interval or an unref'd Timeout before its time, less what the
\* loop's clock lagged when it was started, nor one that was closed.
THEOREM FiresOnlyRightly == Spec => FiresRightly
<1>1. IInv /\ [Next]_vars => [NotEarly /\ Silence]_vars
  BY StepFiresRightly
<1> QED BY <1>1, SpecIInv, PTL DEF Spec, FiresRightly

=============================================================================
