--------------------------- MODULE LinkListProofs ---------------------------
(***************************************************************************)
(* The links of lib/_linklist.js stay consistent for any sets of lists and *)
(* items.  Agreement of the two directions is inductive once it is known   *)
(* that no ring holds two list objects (otherwise shift could unlink one): *)
(* hence the function own, which is constant along every ring.  That the   *)
(* rings refine the queues follows from it, with the sequence that runs    *)
(* along each ring as its queue.                                           *)
(***************************************************************************)
EXTENDS LinkList, SequenceTheorems, FiniteSetTheorems, WellFoundedInduction, TLAPS

\* The links n and p mirror each other, and own names the ring of every node.
Consistent(n, p, own) ==
  /\ n \in [Nodes -> Nodes \cup {null}]
  /\ p \in [Nodes -> Nodes \cup {null}]
  /\ \A x \in Nodes :
       /\ n[x] = null <=> p[x] = null
       /\ n[x] # null => p[n[x]] = x
       /\ p[x] # null => n[p[x]] = x
       /\ n[x] # null => own[n[x]] = own[x]
  /\ own \in [Nodes -> Nodes]
  /\ \A l \in Lists : n[l] # null /\ own[l] = l

\* remove leaves consistent links, with the item in no list.
LEMMA UnlinkedFacts ==
  ASSUME NEW n, NEW p, NEW own, Consistent(n, p, own), NEW i \in Items
  PROVE  /\ Consistent(Unlinked(i, n, p)[1], Unlinked(i, n, p)[2], own)
         /\ Unlinked(i, n, p)[1][i] = null
<1> DEFINE p1 == IF n[i] # null THEN [p EXCEPT ![n[i]] = p[i]] ELSE p
           n1 == IF p1[i] # null THEN [n EXCEPT ![p1[i]] = n[i]] ELSE n
           n2 == [n1 EXCEPT ![i] = null]
           p2 == [p1 EXCEPT ![i] = null]
<1>1. Unlinked(i, n, p) = <<n2, p2>>
  BY DEF Unlinked
<1>2. i \in Nodes /\ i \notin Lists /\ null \notin Nodes
  BY NodesAssumption DEF Nodes
<1>3. CASE n[i] = null
  <2>1. p1 = p /\ n1 = n
    BY <1>2, <1>3 DEF Consistent
  <2>2. n2 = n /\ p2 = p
    BY <1>2, <1>3, <2>1 DEF Consistent
  <2>3. Unlinked(i, n, p)[1] = n /\ Unlinked(i, n, p)[2] = p
    BY <1>1, <2>2
  <2> QED BY <1>3, <2>3
<1>4. CASE n[i] # null
  <2>1. n[i] \in Nodes /\ p[i] \in Nodes /\ p[n[i]] = i /\ n[p[i]] = i
    BY <1>2, <1>4 DEF Consistent
  <2>2. p1 = [p EXCEPT ![n[i]] = p[i]] /\ p1[i] = p[i]
    <3>1. CASE n[i] = i
      BY <1>4, <2>1, <3>1 DEF Consistent
    <3>2. CASE n[i] # i
      BY <1>4, <2>1, <3>2 DEF Consistent
    <3> QED BY <3>1, <3>2
  <2>3. n1 = [n EXCEPT ![p[i]] = n[i]]
    BY <1>2, <2>1, <2>2
  <2>4. /\ n2 \in [Nodes -> Nodes \cup {null}] /\ p2 \in [Nodes -> Nodes \cup {null}]
        /\ n2[i] = null /\ p2[i] = null
        /\ \A x \in Nodes \ {i} : n2[x] = IF x = p[i] THEN n[i] ELSE n[x]
        /\ \A x \in Nodes \ {i} : p2[x] = IF x = n[i] THEN p[i] ELSE p[x]
    BY <1>2, <2>1, <2>2, <2>3 DEF Consistent
  <2>5. ASSUME NEW x \in Nodes
        PROVE  /\ n2[x] = null <=> p2[x] = null
               /\ n2[x] # null => p2[n2[x]] = x
               /\ p2[x] # null => n2[p2[x]] = x
               /\ n2[x] # null => own[n2[x]] = own[x]
    <3> HIDE DEF n2, p2
    <3>1. CASE x = i
      BY <2>4, <3>1
    <3>2. CASE x # i
      BY <1>2, <2>1, <2>4, <3>2 DEF Consistent
    <3> QED BY <3>1, <3>2
  <2>6. \A l \in Lists : n2[l] # null
    <3> HIDE DEF n2, p2
    <3> QED BY <1>2, <2>1, <2>4 DEF Consistent, Nodes
  <2> HIDE DEF n2, p2
  <2>7. Consistent(n2, p2, own)
    BY <2>4, <2>5, <2>6 DEF Consistent
  <2> QED BY <1>1, <2>4, <2>7
<1> QED BY <1>3, <1>4

\* append links an unlinked item in right after the list object.
LEMMA AppendedFacts ==
  ASSUME NEW n, NEW p, NEW own, Consistent(n, p, own), NEW l \in Lists, NEW i \in Items, n[i] = null
  PROVE  LET n1 == [n EXCEPT ![i] = n[l]]
             p1 == [p EXCEPT ![n1[l]] = i]
         IN  Consistent([n1 EXCEPT ![l] = i], [p1 EXCEPT ![i] = l], [own EXCEPT ![i] = l])
<1> DEFINE n1 == [n EXCEPT ![i] = n[l]]
           p1 == [p EXCEPT ![n1[l]] = i]
           n2 == [n1 EXCEPT ![l] = i]
           p2 == [p1 EXCEPT ![i] = l]
           own2 == [own EXCEPT ![i] = l]
<1>1. i \in Nodes /\ l \in Nodes /\ i # l /\ null \notin Nodes /\ i \notin Lists
  BY NodesAssumption DEF Nodes
<1>2. n1[l] = n[l] /\ n[l] \in Nodes /\ p[n[l]] = l /\ p[i] = null /\ n[l] # i
  BY <1>1 DEF Consistent
<1>3. /\ n2 \in [Nodes -> Nodes \cup {null}] /\ p2 \in [Nodes -> Nodes \cup {null}]
      /\ n2[i] = n[l] /\ n2[l] = i /\ p2[i] = l /\ p2[n[l]] = i
      /\ \A x \in Nodes \ {i, l} : n2[x] = n[x]
      /\ \A x \in Nodes \ {i, n[l]} : p2[x] = p[x]
  BY <1>1, <1>2 DEF Consistent
<1> HIDE DEF n2, p2
<1>4. ASSUME NEW x \in Nodes
      PROVE  /\ n2[x] = null <=> p2[x] = null
             /\ n2[x] # null => p2[n2[x]] = x
             /\ p2[x] # null => n2[p2[x]] = x
             /\ n2[x] # null => own2[n2[x]] = own2[x]
  <2>1. /\ n2[x] = null <=> p2[x] = null
        /\ n2[x] # null => p2[n2[x]] = x
        /\ p2[x] # null => n2[p2[x]] = x
    BY <1>1, <1>2, <1>3 DEF Consistent
  <2>2. n2[x] # null => own2[n2[x]] = own2[x]
    <3>1. own2[i] = l /\ own[l] = l /\ own[n[l]] = l /\ \A y \in Nodes \ {i} : own2[y] = own[y]
      BY <1>1, <1>2 DEF Consistent
    <3> HIDE DEF own2
    <3>2. CASE x = i
      BY <1>1, <1>2, <1>3, <3>1, <3>2
    <3>3. CASE x = l
      BY <1>1, <1>2, <1>3, <3>1, <3>3
    <3>4. CASE x # i /\ x # l
      BY <1>1, <1>2, <1>3, <3>1, <3>4 DEF Consistent
    <3> QED BY <3>2, <3>3, <3>4
  <2> QED BY <2>1, <2>2
<1>5. own2 \in [Nodes -> Nodes] /\ \A k \in Lists : n2[k] # null /\ own2[k] = k
  BY <1>1, <1>3 DEF Consistent, Nodes
<1>6. Consistent(n2, p2, own2)
  BY <1>3, <1>4, <1>5 DEF Consistent
<1> QED BY <1>6 DEF n2, p2
-----------------------------------------------------------------------------
Inv == \E own : Consistent(idleNext, idlePrev, own)

LEMMA InitInv == Init => Inv
<1> SUFFICES ASSUME Init PROVE Inv
  OBVIOUS
<1>1. Consistent(idleNext, idlePrev, [x \in Nodes |-> x])
  BY NodesAssumption DEF Consistent, Init, Nodes
<1> QED BY <1>1 DEF Inv

\* What the invariant says of a list object: its two links reach it together.
LEMMA InvImplies == Inv => TypeOK /\ Mirrored
<1> SUFFICES ASSUME NEW own, Consistent(idleNext, idlePrev, own) PROVE TypeOK /\ Mirrored
  BY DEF Inv
<1>1. TypeOK
  BY DEF Consistent, TypeOK
<1>2. ASSUME NEW l \in Lists PROVE isEmpty(l) <=> peek(l) = null
  <2>1. l \in Nodes /\ null \notin Nodes
    BY NodesAssumption DEF Nodes
  <2>2. /\ idleNext[l] # null /\ idlePrev[l] # null
        /\ idlePrev[idleNext[l]] = l /\ idleNext[idlePrev[l]] = l
    BY <2>1 DEF Consistent
  <2> QED BY <2>1, <2>2 DEF isEmpty, peek
<1> QED BY <1>1, <1>2 DEF Consistent, Mirrored

LEMMA StepInv == Inv /\ [Next]_vars => Inv'
<1> SUFFICES ASSUME NEW own, Consistent(idleNext, idlePrev, own), [Next]_vars PROVE Inv'
  BY DEF Inv
<1>1. ASSUME NEW i \in Items, init(i) PROVE Inv'
  <2>1. i \in Nodes /\ i \notin Lists /\ null \notin Nodes
    BY NodesAssumption DEF Nodes
  <2>2. idlePrev[i] = null
    BY <1>1, <2>1 DEF Consistent, init
  <2>3. Consistent(idleNext', idlePrev', own)
    BY <1>1, <2>1, <2>2 DEF Consistent, init, Nodes
  <2> QED BY <2>3 DEF Inv
<1>2. ASSUME NEW i \in Items, remove(i) PROVE Inv'
  <2>1. Consistent(idleNext', idlePrev', own)
    BY <1>2, UnlinkedFacts DEF remove
  <2> QED BY <2>1 DEF Inv
<1>3. ASSUME NEW l \in Lists, shift(l) PROVE Inv'
  <2>1. l \in Nodes /\ idleNext[l] # null /\ idleNext[l] # l /\ remove(idlePrev[l])
    BY <1>3 DEF Consistent, shift, isEmpty, Nodes
  <2>2. idlePrev[l] # null /\ idlePrev[l] \in Nodes /\ idleNext[idlePrev[l]] = l
    BY <2>1 DEF Consistent
  <2>3. own[idlePrev[l]] = l
    <3>1. l # null
      BY NodesAssumption DEF Nodes
    <3>2. own[idleNext[idlePrev[l]]] = own[idlePrev[l]]
      BY <2>2, <3>1 DEF Consistent
    <3> QED BY <2>2, <3>2 DEF Consistent
  <2>4. idlePrev[l] \in Items
    BY <2>1, <2>2, <2>3 DEF Consistent, Nodes
  <2> QED BY <1>2, <2>1, <2>4
<1>4. ASSUME NEW l \in Lists, NEW i \in Items, append(l, i) PROVE Inv'
  <2> DEFINE n == Unlinked(i, idleNext, idlePrev)[1]
             p == Unlinked(i, idleNext, idlePrev)[2]
             n1 == [n EXCEPT ![i] = n[l]]
             p1 == [p EXCEPT ![n1[l]] = i]
  <2>1. Consistent(n, p, own) /\ n[i] = null
    BY UnlinkedFacts
  <2>2. idleNext' = [n1 EXCEPT ![l] = i] /\ idlePrev' = [p1 EXCEPT ![i] = l]
    BY <1>4 DEF append
  <2>3. Consistent(idleNext', idlePrev', [own EXCEPT ![i] = l])
    <3> HIDE DEF n, p
    <3> QED BY <2>1, <2>2, AppendedFacts
  <2> QED BY <2>3 DEF Inv
<1>5. CASE UNCHANGED vars
  BY <1>5 DEF vars, Inv
<1> QED BY <1>1, <1>2, <1>3, <1>4, <1>5 DEF Next

\* The two link directions of every list agree after any sequence of init, append,
\* remove and shift, on any number of lists and items, so peek and isEmpty agree.
THEOREM LinksMirrored == Spec => []Mirrored
<1>1. Inv => Mirrored
  BY InvImplies
<1> QED BY <1>1, InitInv, StepInv, PTL DEF Spec

\* Every link leads to a node or is null.
THEOREM LinksTyped == Spec => []TypeOK
<1>1. Inv => TypeOK
  BY InvImplies
<1> QED BY <1>1, InitInv, StepInv, PTL DEF Spec

-----------------------------------------------------------------------------
(***************************************************************************)
(* The queues that the links stand for.  q represents the links p: p leads *)
(* from a list object through the items of its queue back to it, an item   *)
(* stands in one queue at most, once, and one that is in none has no links *)
(* or leads to itself.  This is inductive, each operation on the links     *)
(* giving the queues that IdleQueue calls for; and the queues are the ones *)
(* that Chain chooses, since two that p leads through cannot differ.       *)
(***************************************************************************)
Apart(q) ==
  \A l, m \in Lists : \A j \in 1..Len(q[l]), k \in 1..Len(q[m]) : q[l][j] = q[m][k] => l = m /\ j = k

Loose(p, q) == \A i \in Items : Queues!Linked(q, i) \/ p[i] \in {null, i}

Represents(p, q) ==
  /\ q \in [Lists -> Seq(Items)]
  /\ \A l \in Lists : Follows(p, l, q[l])
  /\ Apart(q)
  /\ Loose(p, q)

(* A nonempty set of natural numbers has a least element. *)
LEMMA LeastElement ==
  ASSUME NEW T, T \subseteq Nat, T # {}
  PROVE  \E m \in T : \A k \in T : m <= k
<1> DEFINE less == OpToRel(<, Nat)
<1>1. IsWellFoundedOn(less, Nat)
  BY NatLessThanWellFounded
<1>2. \A x, y \in Nat : y < x => <<y, x>> \in less
  BY DEF OpToRel
<1> HIDE DEF less
<1>3. PICK m \in T : \A k \in T : ~(<<k, m>> \in less)
  BY <1>1, WFMin
<1>4. \A k \in T : ~(k < m)
  BY <1>2, <1>3
<1> QED
  BY <1>4

(* The positions of a ring: the list object at both ends, items between them. *)
LEMMA AtFacts ==
  ASSUME NEW l \in Lists, NEW s \in Seq(Items)
  PROVE  /\ Len(s) \in Nat
         /\ At(l, s, 0) = l /\ At(l, s, Len(s) + 1) = l
         /\ \A k \in 1..Len(s) : At(l, s, k) = s[k] /\ s[k] \in Items /\ At(l, s, k) # l
         /\ l \notin Items /\ l # null /\ l \in Nodes
<1>1. Len(s) \in Nat /\ \A k \in 1..Len(s) : s[k] \in Items
  BY ElementOfSeq, LenProperties
<1>2. l \notin Items /\ l # null /\ l \in Nodes
  BY NodesAssumption DEF Nodes
<1> QED
  BY <1>1, <1>2 DEF At

(* Two sequences of items that p leads through are the same: where they first
   differed p would have to lead to two nodes. *)
LEMMA ChainUnique ==
  ASSUME NEW p, NEW l \in Lists, NEW s \in Seq(Items), NEW r \in Seq(Items),
         Follows(p, l, s), Follows(p, l, r)
  PROVE  s = r
<1> DEFINE n == Len(s)
           m == Len(r)
           x(k) == At(l, s, k)
           y(k) == At(l, r, k)
           Differ == {k \in Nat : k <= n + 1 /\ k <= m + 1 /\ x(k) # y(k)}
<1>1. /\ n \in Nat /\ m \in Nat /\ x(0) = y(0) /\ x(n + 1) = l /\ y(m + 1) = l
      /\ \A k \in 1..n : x(k) = s[k] /\ x(k) # l
      /\ \A k \in 1..m : y(k) = r[k] /\ y(k) # l
  BY AtFacts
<1>2. /\ \A k \in 0..n : p[x(k)] = x(k + 1)
      /\ \A k \in 0..m : p[y(k)] = y(k + 1)
  BY DEF Follows
<1> HIDE DEF n, m, x, y
<1>3. Differ = {}
  <2> SUFFICES ASSUME Differ # {} PROVE FALSE
    OBVIOUS
  <2>1. PICK k \in Differ : \A j \in Differ : k <= j
    BY LeastElement
  <2>2. k \in Nat /\ k # 0 /\ k <= n + 1 /\ k <= m + 1 /\ x(k) # y(k)
    BY <1>1, <2>1
  <2>3. k - 1 \in 0..n /\ k - 1 \in 0..m /\ k - 1 \in Nat /\ ~(k <= k - 1)
    BY <1>1, <2>2
  <2>4. x(k - 1) = y(k - 1)
    BY <1>1, <2>1, <2>3
  <2>5. p[x(k - 1)] = x(k) /\ p[y(k - 1)] = y(k)
    BY <1>2, <2>2, <2>3
  <2> QED
    BY <2>2, <2>4, <2>5
<1>4. \A k \in Nat : k <= n + 1 /\ k <= m + 1 => x(k) = y(k)
  BY <1>3
<1> HIDE DEF Differ
<1>5. n = m
  <2>1. CASE n < m
    <3>1. n + 1 \in 1..m /\ n + 1 \in Nat /\ n + 1 <= m + 1
      BY <1>1, <2>1
    <3> QED
      BY <1>1, <1>4, <3>1
  <2>2. CASE m < n
    <3>1. m + 1 \in 1..n /\ m + 1 \in Nat /\ m + 1 <= n + 1
      BY <1>1, <2>2
    <3> QED
      BY <1>1, <1>4, <3>1
  <2> QED
    BY <1>1, <2>1, <2>2
<1>6. ASSUME NEW k \in 1..n  PROVE s[k] = r[k]
  <2>1. k \in Nat /\ k <= n + 1 /\ k <= m + 1 /\ k \in 1..m
    BY <1>1, <1>5
  <2> QED
    BY <1>1, <1>4, <2>1
<1> QED
  BY <1>5, <1>6, SeqEqual DEF n, m

(* No more items stand in a queue than there are. *)
LEMMA QueueBounded ==
  ASSUME NEW q \in [Lists -> Seq(Items)], Apart(q), NEW l \in Lists
  PROVE  q[l] \in Chains
<1> DEFINE n == Len(q[l])
<1>1. q[l] \in Seq(Items) /\ n \in Nat /\ q[l] \in [1..n -> Items]
  BY LenProperties
<1>2. IsFiniteSet(1..n) /\ Cardinality(1..n) = n
  BY <1>1, FS_Interval
<1>3. Cardinality(Items) \in Nat
  BY ItemsAssumption, FS_CardinalityType
<1>4. ~(Cardinality(Items) < n)
  <2> SUFFICES ASSUME Cardinality(Items) < n PROVE FALSE
    OBVIOUS
  <2>1. Cardinality(Items) < Cardinality(1..n)
    BY <1>2
  <2> HIDE DEF n
  <2>2. \E j, k \in 1..n : j # k /\ q[l][j] = q[l][k]
    BY <1>1, <1>2, <2>1, ItemsAssumption, FS_PigeonHole
  <2> QED
    BY <2>2 DEF Apart, n
<1>5. n \in 0..Cardinality(Items)
  BY <1>1, <1>3, <1>4
<1> HIDE DEF n
<1> QED
  BY <1>1, <1>5 DEF Chains

LEMMA ChainIsQueue ==
  ASSUME NEW p, NEW q, Represents(p, q), NEW l \in Lists
  PROVE  Chain(p, l) = q[l]
<1>1. q[l] \in Chains /\ Follows(p, l, q[l]) /\ q[l] \in Seq(Items)
  BY QueueBounded DEF Represents
<1>2. Chain(p, l) \in Chains /\ Follows(p, l, Chain(p, l))
  BY <1>1 DEF Chain
<1>3. Chain(p, l) \in Seq(Items)
  <2>1. Cardinality(Items) \in Nat
    BY ItemsAssumption, FS_CardinalityType
  <2>2. PICK n \in 0..Cardinality(Items) : Chain(p, l) \in [1..n -> Items]
    BY <1>2 DEF Chains
  <2>3. n \in Nat
    BY <2>1
  <2> QED
    BY <2>2, <2>3
<1> QED
  BY <1>1, <1>2, <1>3, ChainUnique

-----------------------------------------------------------------------------
(* What the four assignments of remove do to the backward links. *)
LEMMA UnlinkedBack ==
  ASSUME NEW n, NEW p, NEW own, Consistent(n, p, own), NEW i \in Items
  PROVE  LET u == Unlinked(i, n, p)[2]
         IN  /\ u[i] = null
             /\ n[i] = null => u = p
             /\ n[i] # null => \A x \in Nodes \ {i} : u[x] = IF x = n[i] THEN p[i] ELSE p[x]
<1> DEFINE p1 == IF n[i] # null THEN [p EXCEPT ![n[i]] = p[i]] ELSE p
           p2 == [p1 EXCEPT ![i] = null]
<1>1. Unlinked(i, n, p)[2] = p2 /\ i \in Nodes
  BY DEF Unlinked, Nodes
<1>2. CASE n[i] = null
  <2>1. p1 = p /\ p2 = p /\ p2[i] = null
    BY <1>1, <1>2 DEF Consistent
  <2> QED
    BY <1>1, <1>2, <2>1
<1>3. CASE n[i] # null
  <2>1. p1 = [p EXCEPT ![n[i]] = p[i]] /\ DOMAIN p = Nodes
    BY <1>3 DEF Consistent
  <2>2. p2[i] = null /\ \A x \in Nodes \ {i} : p2[x] = IF x = n[i] THEN p[i] ELSE p[x]
    BY <1>1, <2>1
  <2> HIDE DEF p2
  <2> QED
    BY <1>1, <1>3, <2>2
<1> QED
  BY <1>2, <1>3

(* The queues without an item that stands in one of them, at position c. *)
LEMMA WithoutFacts ==
  ASSUME NEW q \in [Lists -> Seq(Items)], Apart(q), NEW i \in Items,
         NEW l \in Lists, NEW c \in 1..Len(q[l]), q[l][c] = i
  PROVE  LET w == Queues!Without(q, i)
         IN  /\ w \in [Lists -> Seq(Items)]
             /\ \A m \in Lists \ {l} : w[m] = q[m]
             /\ w[l] = [k \in 1..(Len(q[l]) - 1) |-> IF k < c THEN q[l][k] ELSE q[l][k + 1]]
             /\ Len(w[l]) = Len(q[l]) - 1
<1> DEFINE w == Queues!Without(q, i)
           n == Len(q[l])
           s == [k \in 1..(n - 1) |-> IF k < c THEN q[l][k] ELSE q[l][k + 1]]
<1>1. n \in Nat /\ n - 1 \in Nat /\ q[l] \in Seq(Items) /\ \A k \in 1..n : q[l][k] \in Items
  BY AtFacts
<1>2. \A k \in 1..n : q[l][k] = i => k = c
  BY <1>1 DEF Apart
<1>3. \A m \in Lists \ {l} : ~Queues!Holds(q, m, i)
  BY DEF Apart, Queues!Holds
<1>4. Queues!Holds(q, l, i)
  BY DEF Queues!Holds
<1>5. (CHOOSE k \in 1..Len(q[l]) : q[l][k] = i) = c
  BY <1>2
<1>6. w[l] = s
  BY <1>4, <1>5 DEF Queues!Without
<1>7. \A m \in Lists \ {l} : w[m] = q[m]
  BY <1>3 DEF Queues!Without
<1>8. s \in Seq(Items) /\ Len(s) = n - 1
  <2>1. \A k \in 1..(n - 1) : (IF k < c THEN q[l][k] ELSE q[l][k + 1]) \in Items
    BY <1>1
  <2>2. s \in [1..(n - 1) -> Items]
    BY <2>1
  <2> HIDE DEF n, s
  <2> QED
    BY <1>1, <2>2, LenProperties DEF s
<1>9. w \in [Lists -> Seq(Items)]
  <2>1. w = [m \in Lists |-> w[m]]
    BY DEF Queues!Without
  <2>2. \A m \in Lists : w[m] \in Seq(Items)
    BY <1>6, <1>7, <1>8
  <2> HIDE DEF w
  <2> QED
    BY <2>1, <2>2
<1> HIDE DEF w
<1> QED
  BY <1>6, <1>7, <1>8, <1>9 DEF w

(* The places of the items that are left: the same, or the next one. *)
LEMMA WithoutApart ==
  ASSUME NEW q \in [Lists -> Seq(Items)], Apart(q), NEW i \in Items,
         NEW l \in Lists, NEW c \in 1..Len(q[l]), q[l][c] = i
  PROVE  LET w == Queues!Without(q, i)
         IN  /\ Apart(w) /\ ~Queues!Linked(w, i)
             /\ \A j \in Items \ {i} : Queues!Linked(q, j) => Queues!Linked(w, j)
<1> DEFINE w == Queues!Without(q, i)
           to(m, k) == IF m = l /\ k >= c THEN k + 1 ELSE k
<1>1. /\ \A m \in Lists : Len(q[m]) \in Nat /\ Len(w[m]) \in Nat
      /\ \A m \in Lists \ {l} : w[m] = q[m]
      /\ w[l] = [k \in 1..(Len(q[l]) - 1) |-> IF k < c THEN q[l][k] ELSE q[l][k + 1]]
      /\ Len(w[l]) = Len(q[l]) - 1
  <2>1. w \in [Lists -> Seq(Items)]
    BY WithoutFacts
  <2> HIDE DEF w
  <2>2. \A m \in Lists : Len(q[m]) \in Nat /\ Len(w[m]) \in Nat
    BY <2>1, LenProperties
  <2> QED
    BY <2>2, WithoutFacts DEF w
<1> HIDE DEF w
<1>2. ASSUME NEW m \in Lists, NEW k \in 1..Len(w[m])
      PROVE  to(m, k) \in 1..Len(q[m]) /\ w[m][k] = q[m][to(m, k)] /\ ~(m = l /\ to(m, k) = c)
  <2>1. CASE m = l
    BY <1>1, <2>1
  <2>2. CASE m # l
    BY <1>1, <2>2
  <2> QED
    BY <2>1, <2>2
<1>3. Apart(w)
  <2> SUFFICES ASSUME NEW m1 \in Lists, NEW m2 \in Lists, NEW j \in 1..Len(w[m1]), NEW k \in 1..Len(w[m2]), w[m1][j] = w[m2][k]
               PROVE  m1 = m2 /\ j = k
    BY DEF Apart
  <2>1. m1 = m2 /\ to(m1, j) = to(m2, k)
    <3>1. /\ to(m1, j) \in 1..Len(q[m1]) /\ to(m2, k) \in 1..Len(q[m2])
          /\ q[m1][to(m1, j)] = q[m2][to(m2, k)]
      BY <1>2
    <3> HIDE DEF to
    <3> QED
      BY <3>1 DEF Apart
  <2> QED
    BY <1>1, <2>1
<1>4. ~Queues!Linked(w, i)
  <2> SUFFICES ASSUME NEW m \in Lists, NEW k \in 1..Len(w[m]), w[m][k] = i PROVE FALSE
    BY DEF Queues!Linked, Queues!Holds
  <2>1. to(m, k) \in 1..Len(q[m]) /\ q[m][to(m, k)] = q[l][c] /\ ~(m = l /\ to(m, k) = c)
    BY <1>2
  <2> HIDE DEF to
  <2> QED
    BY <2>1 DEF Apart
<1>5. ASSUME NEW j \in Items \ {i}, Queues!Linked(q, j)  PROVE Queues!Linked(w, j)
  <2>1. PICK m \in Lists : \E k \in 1..Len(q[m]) : q[m][k] = j
    BY <1>5 DEF Queues!Linked, Queues!Holds
  <2> PICK k \in 1..Len(q[m]) : q[m][k] = j
    BY <2>1
  <2>2. CASE m # l
    BY <1>1, <2>1, <2>2 DEF Queues!Linked, Queues!Holds
  <2>3. CASE m = l /\ k < c
    <3>1. k \in 1..Len(w[l]) /\ w[l][k] = j
      BY <1>1, <2>1, <2>3
    <3> QED
      BY <3>1 DEF Queues!Linked, Queues!Holds
  <2>4. CASE m = l /\ k > c
    <3>1. k - 1 \in 1..Len(w[l]) /\ w[l][k - 1] = j
      BY <1>1, <2>1, <2>4
    <3> QED
      BY <3>1 DEF Queues!Linked, Queues!Holds
  <2>5. ~(m = l /\ k = c)
    BY <2>1
  <2>6. k \in Int /\ c \in Int
    BY <1>1
  <2> QED
    BY <2>2, <2>3, <2>4, <2>5, <2>6
<1> QED
  BY <1>3, <1>4, <1>5 DEF w

(* remove takes the item out of the queue it stands in, if any. *)
LEMMA RemovedFromQueue ==
  ASSUME NEW n, NEW p, NEW own, Consistent(n, p, own), NEW q, Represents(p, q), NEW i \in Items
  PROVE  /\ Represents(Unlinked(i, n, p)[2], Queues!Without(q, i))
         /\ ~Queues!Linked(Queues!Without(q, i), i)
<1> DEFINE u == Unlinked(i, n, p)[2]
           w == Queues!Without(q, i)
<1>1. /\ q \in [Lists -> Seq(Items)] /\ Apart(q) /\ Loose(p, q)
      /\ i \in Nodes /\ i \notin Lists /\ i # null /\ null \notin Nodes
  BY NodesAssumption DEF Represents, Nodes
<1>2. /\ u[i] = null /\ (n[i] = null => u = p)
      /\ n[i] # null => \A x \in Nodes \ {i} : u[x] = IF x = n[i] THEN p[i] ELSE p[x]
  BY UnlinkedBack
<1>3. \A l \in Lists : At(l, q[l], 0) = l /\ \A k \in 0..Len(q[l]) : p[At(l, q[l], k)] = At(l, q[l], k + 1)
  BY AtFacts DEF Represents, Follows
<1> HIDE DEF u, w
<1>4. CASE ~Queues!Linked(q, i)
  <2>1. w = q
    <3>1. \A l \in Lists : ~Queues!Holds(q, l, i)
      BY <1>4 DEF Queues!Linked
    <3>2. w = [l \in Lists |-> q[l]]
      BY <3>1 DEF w, Queues!Without
    <3> QED
      BY <1>1, <3>2
  <2>2. \A x \in Nodes \ {i} : u[x] = p[x]
    <3>1. p[i] \in {null, i}
      BY <1>1, <1>4 DEF Loose
    <3>2. n[i] \in {null, i}
      BY <1>1, <3>1 DEF Consistent
    <3> QED
      BY <1>2, <3>2
  <2>3. ASSUME NEW l \in Lists, NEW k \in 0..Len(q[l])  PROVE u[At(l, q[l], k)] = At(l, q[l], k + 1)
    <3>1. At(l, q[l], k) \in Nodes /\ At(l, q[l], k) # i
      <4>1. CASE k = 0
        BY <1>1, <1>3, <4>1, AtFacts
      <4>2. CASE k \in 1..Len(q[l])
        BY <1>1, <1>4, <4>2, AtFacts DEF Queues!Linked, Queues!Holds, Nodes
      <4> QED
        BY <1>1, <4>1, <4>2, AtFacts
    <3> QED
      BY <1>3, <2>2, <3>1
  <2>4. Loose(u, q)
    BY <1>1, <1>2, <2>2 DEF Loose, Nodes
  <2>5. Represents(u, q)
    BY <1>1, <2>3, <2>4 DEF Represents, Follows
  <2> QED
    BY <1>4, <2>1, <2>5 DEF u, w
<1>5. CASE Queues!Linked(q, i)
  <2>1. PICK l \in Lists : \E c \in 1..Len(q[l]) : q[l][c] = i
    BY <1>5 DEF Queues!Linked, Queues!Holds
  <2> PICK c \in 1..Len(q[l]) : q[l][c] = i
    BY <2>1
  <2> DEFINE m == Len(q[l])
             x(k) == At(l, q[l], k)
  <2>2. /\ m \in Nat /\ c \in 1..m /\ x(0) = l /\ x(c) = i /\ x(m + 1) = l
        /\ \A k \in 1..m : x(k) = q[l][k] /\ x(k) \in Items /\ x(k) # l
        /\ l \in Nodes /\ l # null
    BY <1>1, AtFacts
  <2>3. \A k \in 0..m : p[x(k)] = x(k + 1)
    BY <1>3
  <2>4. \A j, k \in 0..m : x(j) = x(k) => j = k
    <3>1. \A j, k \in 1..m : q[l][j] = q[l][k] => j = k
      BY <1>1 DEF Apart
    <3> HIDE DEF m, x
    <3> QED
      BY <2>2, <3>1
  <2>5. \A k \in 0..m : x(k) \in Nodes
    <3> HIDE DEF m, x
    <3> QED
      BY <2>2 DEF Nodes
  <2> HIDE DEF m, x
  <2>6. n[i] = x(c - 1) /\ p[i] = x(c + 1) /\ n[i] # null
    <3>1. c - 1 \in 0..m /\ c \in 0..m /\ (c - 1) + 1 = c
      BY <2>2
    <3>2. p[x(c - 1)] = i /\ x(c - 1) \in Nodes
      BY <2>2, <2>3, <2>5, <3>1
    <3>3. n[i] = x(c - 1)
      BY <1>1, <3>2 DEF Consistent
    <3> QED
      BY <1>1, <2>2, <2>3, <3>1, <3>2, <3>3
  <2>7. \A y \in Nodes \ {i} : u[y] = IF y = x(c - 1) THEN x(c + 1) ELSE p[y]
    BY <1>2, <2>6
  <2>8. /\ w \in [Lists -> Seq(Items)] /\ Apart(w) /\ ~Queues!Linked(w, i)
        /\ \A k \in Lists \ {l} : w[k] = q[k]
        /\ w[l] = [k \in 1..(m - 1) |-> IF k < c THEN q[l][k] ELSE q[l][k + 1]]
        /\ Len(w[l]) = m - 1
        /\ \A j \in Items \ {i} : Queues!Linked(q, j) => Queues!Linked(w, j)
    BY <1>1, WithoutFacts, WithoutApart DEF m, w
  <2>9. Follows(u, l, w[l])
    <3>1. ASSUME NEW k \in 0..m  PROVE At(l, w[l], k) = IF k < c THEN x(k) ELSE x(k + 1)
      <4>1. CASE k = 0
        BY <2>2, <4>1 DEF At
      <4>2. CASE k = m
        BY <2>2, <2>8, <4>2 DEF At
      <4>3. CASE k \in 1..(m - 1)
        <5>1. At(l, w[l], k) = IF k < c THEN q[l][k] ELSE q[l][k + 1]
          BY <2>8, <4>3 DEF At
        <5>2. k \in 1..m /\ k + 1 \in 1..m
          BY <2>2, <4>3
        <5> QED
          BY <2>2, <5>1, <5>2
      <4> QED
        BY <2>2, <4>1, <4>2, <4>3
    <3>2. ASSUME NEW k \in 0..(m - 1)  PROVE u[At(l, w[l], k)] = At(l, w[l], k + 1)
      <4>1. k \in 0..m /\ k + 1 \in 0..m /\ k \in Nat /\ c \in Nat
        BY <2>2
      <4>2. CASE k < c - 1
        <5>1. At(l, w[l], k) = x(k) /\ At(l, w[l], k + 1) = x(k + 1)
          BY <2>2, <3>1, <4>1, <4>2
        <5>2. k # c - 1 /\ k # c /\ c - 1 \in 0..m /\ c \in 0..m
          BY <2>2, <4>2
        <5>3. x(k) \in Nodes \ {i} /\ x(k) # x(c - 1)
          BY <2>2, <2>4, <2>5, <4>1, <5>2
        <5> QED
          BY <2>3, <2>7, <4>1, <5>1, <5>3
      <4>3. CASE k = c - 1
        <5>1. At(l, w[l], k) = x(c - 1) /\ At(l, w[l], k + 1) = x(c + 1)
          <6>1. k < c /\ ~(k + 1 < c) /\ (k + 1) + 1 = c + 1
            BY <2>2, <4>3
          <6>2. At(l, w[l], k) = x(k) /\ At(l, w[l], k + 1) = x((k + 1) + 1)
            BY <3>1, <4>1, <6>1
          <6> QED
            BY <4>3, <6>1, <6>2
        <5>2. c - 1 \in 0..m /\ c \in 0..m /\ c - 1 # c
          BY <2>2
        <5>3. x(c - 1) \in Nodes \ {i}
          BY <2>2, <2>4, <2>5, <5>2
        <5> QED
          BY <2>7, <5>1, <5>3
      <4>4. CASE k >= c
        <5>1. At(l, w[l], k) = x(k + 1) /\ At(l, w[l], k + 1) = x((k + 1) + 1)
          BY <2>2, <3>1, <4>1, <4>4
        <5>2. k + 1 # c - 1 /\ k + 1 # c /\ c - 1 \in 0..m /\ c \in 0..m
          BY <2>2, <4>4
        <5>3. x(k + 1) \in Nodes \ {i} /\ x(k + 1) # x(c - 1)
          BY <2>2, <2>4, <2>5, <4>1, <5>2
        <5> QED
          BY <2>3, <2>7, <4>1, <5>1, <5>3
      <4>5. k < c - 1 \/ k = c - 1 \/ k >= c
        BY <2>2
      <4> QED
        BY <4>2, <4>3, <4>4, <4>5
    <3> QED
      BY <2>8, <3>2 DEF Follows
  <2>10. ASSUME NEW l2 \in Lists, l2 # l  PROVE Follows(u, l2, w[l2])
    <3>1. ASSUME NEW k \in 0..Len(q[l2])  PROVE u[At(l2, q[l2], k)] = At(l2, q[l2], k + 1)
      <4> DEFINE y == At(l2, q[l2], k)
      <4>1. y \in Nodes /\ y # i /\ y # x(c - 1)
        <5>1. c = 1 \/ c - 1 \in 1..m
          BY <2>2
        <5>2. \A j \in 1..m : x(j) = q[l][j] /\ x(j) \in Items
          BY <2>2
        <5>3. CASE k = 0
          <6>1. y = l2 /\ l2 \notin Items /\ l2 \in Nodes
            BY <1>1, <5>3, AtFacts
          <6> HIDE DEF y
          <6> QED
            BY <1>1, <2>2, <2>10, <5>1, <5>2, <6>1
        <5>4. CASE k \in 1..Len(q[l2])
          <6>1. y = q[l2][k] /\ y \in Items
            BY <1>1, <5>4, AtFacts
          <6>2. \A j \in 1..Len(q[l]) : q[l][j] # q[l2][k]
            BY <1>1, <2>10, <5>4 DEF Apart
          <6>3. y # l
            BY <1>1, <6>1, AtFacts
          <6> HIDE DEF y
          <6> QED
            BY <2>2, <5>1, <5>2, <6>1, <6>2, <6>3 DEF m, Nodes
        <5> QED
          BY <1>1, <5>3, <5>4, AtFacts
      <4>2. u[y] = p[y]
        <5> HIDE DEF y
        <5> QED
          BY <2>7, <4>1
      <4> QED
        BY <1>3, <4>2
    <3> QED
      BY <2>8, <2>10, <3>1 DEF Follows
  <2>11. Loose(u, w)
    <3> SUFFICES ASSUME NEW j \in Items, ~Queues!Linked(w, j) PROVE u[j] \in {null, j}
      BY DEF Loose
    <3>1. CASE j = i
      BY <1>2, <3>1
    <3>2. CASE j # i
      <4>1. ~Queues!Linked(q, j)
        BY <2>8, <3>2
      <4>2. p[j] \in {null, j}
        BY <1>1, <4>1 DEF Loose
      <4>3. j # x(c - 1)
        <5>1. c = 1 \/ c - 1 \in 1..m
          BY <2>2
        <5>2. CASE c = 1
          <6>1. x(c - 1) = l /\ l \notin Items
            BY <1>1, <2>2, <5>2, AtFacts
          <6> QED
            BY <6>1
        <5>3. CASE c - 1 \in 1..m
          <6>1. x(c - 1) = q[l][c - 1]
            BY <2>2, <5>3
          <6> QED
            BY <4>1, <5>3, <6>1 DEF Queues!Linked, Queues!Holds, m
        <5> QED
          BY <5>1, <5>2, <5>3
      <4> QED
        BY <2>7, <3>2, <4>2, <4>3 DEF Nodes
    <3> QED
      BY <3>1, <3>2
  <2>12. Represents(u, w)
    BY <2>8, <2>9, <2>10, <2>11 DEF Represents
  <2> QED
    BY <2>8, <2>12 DEF u, w
<1> QED
  BY <1>4, <1>5

(* append links an item that is in no queue in behind the last of its list. *)
LEMMA AppendedToQueue ==
  ASSUME NEW n, NEW p, NEW own, Consistent(n, p, own), NEW q, Represents(p, q),
         NEW l \in Lists, NEW i \in Items, n[i] = null, ~Queues!Linked(q, i)
  PROVE  Represents([[p EXCEPT ![n[l]] = i] EXCEPT ![i] = l], [q EXCEPT ![l] = Append(@, i)])
<1> DEFINE u == [[p EXCEPT ![n[l]] = i] EXCEPT ![i] = l]
           m == Len(q[l])
           x(k) == At(l, q[l], k)
           w == [q EXCEPT ![l] = Append(@, i)]
<1>1. /\ q \in [Lists -> Seq(Items)] /\ Apart(q) /\ Loose(p, q)
      /\ i \in Nodes /\ i \notin Lists /\ i # null /\ null \notin Nodes /\ i # l
  BY NodesAssumption DEF Represents, Nodes
<1>2. /\ m \in Nat /\ x(0) = l /\ x(m + 1) = l /\ l \in Nodes /\ l # null /\ l \notin Items
      /\ \A k \in 1..m : x(k) = q[l][k] /\ x(k) \in Items /\ x(k) # l
  BY <1>1, AtFacts
<1>3. \A k \in 0..m : p[x(k)] = x(k + 1)
  BY DEF Represents, Follows
<1>4. /\ w \in [Lists -> Seq(Items)] /\ \A k \in Lists \ {l} : w[k] = q[k]
      /\ Len(w[l]) = m + 1 /\ w[l][m + 1] = i /\ \A k \in 1..m : w[l][k] = q[l][k]
  <2>1. w \in [Lists -> Seq(Items)] /\ w[l] = Append(q[l], i) /\ \A k \in Lists \ {l} : w[k] = q[k]
    BY <1>1
  <2>2. q[l] \in Seq(Items)
    BY <1>1
  <2> QED
    BY <2>1, <2>2, AppendProperties
<1>5. \A j, k \in 0..m : x(j) = x(k) => j = k
  <2>1. \A j, k \in 1..m : q[l][j] = q[l][k] => j = k
    BY <1>1 DEF Apart
  <2> HIDE DEF m, x
  <2> QED
    BY <1>2, <2>1
<1>6. \A k \in Lists : \A j \in 1..Len(q[k]) : q[k][j] # i
  BY DEF Queues!Linked, Queues!Holds
<1> HIDE DEF m, x, w
<1>7. x(m) \in Nodes /\ x(m) # i /\ n[l] = x(m) /\ p[x(m)] = l
  <2>1. CASE m = 0
    BY <1>1, <1>2, <1>3, <2>1 DEF Consistent
  <2>2. CASE m \in 1..m
    <3>1. x(m) \in Nodes /\ x(m) # i
      BY <1>2, <1>6, <2>2 DEF Nodes, m
    <3>2. p[x(m)] = x(m + 1)
      BY <1>3, <2>2
    <3> QED
      BY <1>1, <1>2, <3>1, <3>2 DEF Consistent
  <2> QED
    BY <1>2, <2>1, <2>2
<1>8. /\ u[i] = l /\ u[x(m)] = i /\ \A y \in Nodes \ {i, x(m)} : u[y] = p[y]
  BY <1>1, <1>7 DEF Consistent
<1> HIDE DEF u
<1>9. Follows(u, l, w[l])
  <2>1. ASSUME NEW k \in 0..(m + 2)  PROVE At(l, w[l], k) = IF k = m + 1 THEN i ELSE IF k = m + 2 THEN l ELSE x(k)
    <3>1. CASE k = 0
      BY <1>2, <1>4, <3>1 DEF At
    <3>2. CASE k \in 1..m
      BY <1>2, <1>4, <3>2 DEF At
    <3>3. CASE k = m + 1 \/ k = m + 2
      BY <1>2, <1>4, <3>3 DEF At
    <3> QED
      BY <1>2, <3>1, <3>2, <3>3
  <2>2. ASSUME NEW k \in 0..(m + 1)  PROVE u[At(l, w[l], k)] = At(l, w[l], k + 1)
    <3>1. CASE k = m + 1
      <4>1. At(l, w[l], k) = i /\ At(l, w[l], k + 1) = l
        BY <1>2, <2>1, <3>1
      <4> QED
        BY <1>8, <4>1
    <3>2. CASE k = m
      <4>1. At(l, w[l], k) = x(m) /\ At(l, w[l], k + 1) = i
        BY <1>2, <2>1, <3>2
      <4> QED
        BY <1>8, <4>1
    <3>3. CASE k \in 0..(m - 1)
      <4>1. At(l, w[l], k) = x(k) /\ At(l, w[l], k + 1) = x(k + 1)
        BY <1>2, <2>1, <3>3
      <4>2. k \in 0..m /\ m \in 0..m /\ k # m
        BY <1>2, <3>3
      <4>3. x(k) # x(m)
        BY <1>5, <4>2
      <4>4. x(k) \in Nodes /\ x(k) # i
        <5>1. k = 0 \/ k \in 1..m
          BY <4>2
        <5> QED
          BY <1>1, <1>2, <1>6, <5>1 DEF Nodes, m
      <4> QED
        BY <1>3, <1>8, <4>1, <4>2, <4>3, <4>4
    <3> QED
      BY <1>2, <3>1, <3>2, <3>3
  <2> QED
    BY <1>4, <2>2 DEF Follows
<1>10. ASSUME NEW l2 \in Lists, l2 # l  PROVE Follows(u, l2, w[l2])
  <2>1. ASSUME NEW k \in 0..Len(q[l2])  PROVE u[At(l2, q[l2], k)] = At(l2, q[l2], k + 1)
    <3> DEFINE y == At(l2, q[l2], k)
    <3>1. y \in Nodes /\ y # i /\ y # x(m)
      <4>1. m = 0 \/ m \in 1..m
        BY <1>2
      <4>2. \A j \in 1..m : x(j) = q[l][j] /\ x(j) \in Items
        BY <1>2
      <4>3. CASE k = 0
        <5>1. y = l2 /\ l2 \notin Items /\ l2 \in Nodes
          BY <1>1, <4>3, AtFacts
        <5> HIDE DEF y
        <5> QED
          BY <1>1, <1>2, <1>10, <4>1, <4>2, <5>1
      <4>4. CASE k \in 1..Len(q[l2])
        <5>1. y = q[l2][k] /\ y \in Items
          BY <1>1, <4>4, AtFacts
        <5>2. \A j \in 1..Len(q[l]) : q[l][j] # q[l2][k]
          BY <1>1, <1>10, <4>4 DEF Apart
        <5>3. y # l
          BY <1>1, <5>1, AtFacts
        <5> HIDE DEF y
        <5> QED
          BY <1>2, <1>6, <4>1, <4>2, <4>4, <5>1, <5>2, <5>3 DEF m, Nodes
      <4> QED
        BY <1>1, <4>3, <4>4, AtFacts
    <3>2. u[y] = p[y]
      <4> HIDE DEF y
      <4> QED
        BY <1>8, <3>1
    <3>3. p[y] = At(l2, q[l2], k + 1)
      BY DEF Represents, Follows
    <3> QED
      BY <3>2, <3>3
  <2> QED
    BY <1>4, <1>10, <2>1 DEF Follows
<1>11. Apart(w)
  <2> SUFFICES ASSUME NEW k1 \in Lists, NEW k2 \in Lists, NEW j1 \in 1..Len(w[k1]), NEW j2 \in 1..Len(w[k2]), w[k1][j1] = w[k2][j2]
               PROVE  k1 = k2 /\ j1 = j2
    BY DEF Apart
  <2>1. \A k \in Lists : \A j \in 1..Len(w[k]) :
          (k = l /\ j = m + 1) \/ (j \in 1..Len(q[k]) /\ w[k][j] = q[k][j])
    BY <1>2, <1>4 DEF m
  <2>2. CASE k1 = l /\ j1 = m + 1
    BY <1>4, <1>6, <2>1, <2>2
  <2>3. CASE k2 = l /\ j2 = m + 1
    BY <1>4, <1>6, <2>1, <2>3
  <2>4. CASE ~(k1 = l /\ j1 = m + 1) /\ ~(k2 = l /\ j2 = m + 1)
    <3>1. j1 \in 1..Len(q[k1]) /\ j2 \in 1..Len(q[k2]) /\ q[k1][j1] = q[k2][j2]
      BY <2>1, <2>4
    <3> QED
      BY <1>1, <3>1 DEF Apart
  <2> QED
    BY <2>2, <2>3, <2>4
<1>12. Loose(u, w)
  <2> SUFFICES ASSUME NEW j \in Items, ~Queues!Linked(w, j) PROVE u[j] \in {null, j}
    BY DEF Loose
  <2>1. j # i
    <3>1. m + 1 \in 1..Len(w[l])
      BY <1>2, <1>4
    <3> QED
      BY <1>4, <3>1 DEF Queues!Linked, Queues!Holds
  <2>2. ~Queues!Linked(q, j)
    <3> SUFFICES ASSUME NEW k \in Lists, NEW c \in 1..Len(q[k]), q[k][c] = j PROVE FALSE
      BY DEF Queues!Linked, Queues!Holds
    <3>1. c \in 1..Len(w[k]) /\ w[k][c] = j
      BY <1>2, <1>4 DEF m
    <3> QED
      BY <3>1 DEF Queues!Linked, Queues!Holds
  <2>3. p[j] \in {null, j}
    BY <1>1, <2>2 DEF Loose
  <2>4. j # x(m)
    <3>1. m = 0 \/ m \in 1..m
      BY <1>2
    <3> QED
      BY <1>2, <2>2, <3>1 DEF Queues!Linked, Queues!Holds, m
  <2> QED
    BY <1>8, <2>1, <2>3, <2>4 DEF Nodes
<1> QED
  BY <1>4, <1>9, <1>10, <1>11, <1>12 DEF Represents, u, w

-----------------------------------------------------------------------------
QueueInv == \E q : Represents(idlePrev, q)

(* Queues given by links that have a representation are that representation. *)
LEMMA QueuesAre ==
  ASSUME NEW p, NEW q, Represents(p, q)
  PROVE  [l \in Lists |-> Chain(p, l)] = q
<1>1. q = [l \in Lists |-> q[l]]
  BY DEF Represents
<1>2. \A l \in Lists : Chain(p, l) = q[l]
  BY ChainIsQueue
<1> QED
  BY <1>1, <1>2

LEMMA QueueInit == Init => QueueInv /\ Queues!Init
<1> SUFFICES ASSUME Init PROVE QueueInv /\ Queues!Init
  OBVIOUS
<1> DEFINE none == [l \in Lists |-> <<>>]
<1>1. \A l \in Lists : idlePrev[l] = l /\ l \in Nodes
  BY DEF Init, Nodes
<1>2. \A i \in Items : idlePrev[i] = null
  BY NodesAssumption DEF Init, Nodes
<1>3. none \in [Lists -> Seq(Items)] /\ \A l \in Lists : none[l] = <<>> /\ Len(none[l]) = 0
  OBVIOUS
<1> HIDE DEF none
<1>4. \A l \in Lists : Follows(idlePrev, l, none[l])
  BY <1>1, <1>3 DEF Follows, At
<1>5. Represents(idlePrev, none)
  BY <1>2, <1>3, <1>4 DEF Represents, Apart, Loose
<1> QED
  BY <1>5, QueuesAre DEF QueueInv, Queues!Init, none

(* Every step does to the queues what IdleQueue says, or nothing. *)
LEMMA QueueStep ==
  ASSUME Inv, QueueInv, [Next]_vars
  PROVE  QueueInv' /\ [Queues!Next]_([l \in Lists |-> Chain(idlePrev, l)])
<1> DEFINE queue == [l \in Lists |-> Chain(idlePrev, l)]
<1>1. PICK own : Consistent(idleNext, idlePrev, own)
  BY DEF Inv
<1>2. PICK q : Represents(idlePrev, q)
  BY DEF QueueInv
<1>3. queue = q /\ q \in [Lists -> Seq(Items)]
  BY <1>2, QueuesAre DEF Represents
<1>4. \A r : Represents(idlePrev', r) => QueueInv' /\ queue' = r
  BY QueuesAre DEF QueueInv
<1> HIDE DEF queue
<1>5. ASSUME NEW i \in Items, init(i)  PROVE QueueInv' /\ queue' = queue
  <2>1. idlePrev' = [idlePrev EXCEPT ![i] = i] /\ idlePrev[i] = null /\ i \in Nodes /\ i \notin Lists /\ i # null
    BY <1>1, <1>5, NodesAssumption DEF init, Consistent, Nodes
  <2>2. idlePrev'[i] = i /\ \A y \in Nodes \ {i} : idlePrev'[y] = idlePrev[y]
    BY <1>1, <2>1 DEF Consistent
  <2>3. ASSUME NEW l \in Lists, NEW k \in 0..Len(q[l])
        PROVE  idlePrev'[At(l, q[l], k)] = At(l, q[l], k + 1)
    <3>1. idlePrev[At(l, q[l], k)] = At(l, q[l], k + 1)
      BY <1>2 DEF Represents, Follows
    <3>2. At(l, q[l], k + 1) # null /\ At(l, q[l], k) \in Nodes
      <4>1. Len(q[l]) \in Nat /\ k + 1 \in 1..(Len(q[l]) + 1) /\ (k = 0 \/ k \in 1..Len(q[l])) /\ q[l] \in Seq(Items)
        BY <1>3, AtFacts
      <4>2. k + 1 \in 1..Len(q[l]) \/ k + 1 = Len(q[l]) + 1
        BY <4>1
      <4>3. \A j \in 1..Len(q[l]) : At(l, q[l], j) \in Items
        BY <4>1, AtFacts
      <4> QED
        BY <4>1, <4>2, <4>3, AtFacts, NodesAssumption DEF Nodes
    <3> QED
      BY <2>1, <2>2, <3>1, <3>2
  <2>4. Represents(idlePrev', q)
    <3>1. \A l \in Lists : Follows(idlePrev', l, q[l])
      BY <2>3 DEF Follows
    <3>2. Loose(idlePrev', q)
      BY <1>2, <2>2 DEF Represents, Loose, Nodes
    <3> QED
      BY <1>2, <3>1, <3>2 DEF Represents
  <2> QED
    BY <1>3, <1>4, <2>4
<1>6. ASSUME NEW i \in Items, remove(i)  PROVE QueueInv' /\ Queues!Remove(i)
  <2>1. Represents(idlePrev', Queues!Without(q, i))
    BY <1>1, <1>2, <1>6, RemovedFromQueue DEF remove
  <2> QED
    BY <1>3, <1>4, <2>1 DEF Queues!Remove, queue
<1>7. ASSUME NEW l \in Lists, shift(l)  PROVE QueueInv' /\ Queues!Shift(l)
  <2>1. ~isEmpty(l) /\ remove(idlePrev[l]) /\ q[l] \in Seq(Items)
    BY <1>3, <1>7 DEF shift
  <2>2. Len(q[l]) \in Nat /\ Len(q[l]) # 0
    <3> SUFFICES ASSUME Len(q[l]) = 0 PROVE FALSE
      BY <2>1, AtFacts
    <3>1. idlePrev[l] = l
      <4>1. idlePrev[At(l, q[l], 0)] = At(l, q[l], 0 + 1)
        BY <1>2, <2>1 DEF Represents, Follows
      <4> QED
        BY <2>1, <4>1, AtFacts
    <3>2. l \in Nodes /\ l # null
      BY NodesAssumption DEF Nodes
    <3>3. idleNext[l] = l
      BY <1>1, <3>1, <3>2 DEF Consistent
    <3> QED
      BY <2>1, <3>3 DEF isEmpty
  <2>3. 1 \in 1..Len(q[l]) /\ 0 \in 0..Len(q[l]) /\ q[l] # <<>>
    BY <2>1, <2>2
  <2>4. idlePrev[l] = q[l][1] /\ q[l][1] \in Items
    <3>1. idlePrev[At(l, q[l], 0)] = At(l, q[l], 0 + 1)
      BY <1>2, <2>3 DEF Represents, Follows
    <3> QED
      BY <2>1, <2>3, <3>1, AtFacts
  <2> DEFINE i == q[l][1]
             w == Queues!Without(q, i)
  <2>5. Represents(idlePrev', w)
    BY <1>1, <1>2, <2>1, <2>4, RemovedFromQueue DEF remove
  <2>6. w = [q EXCEPT ![l] = Tail(@)]
    <3>1. /\ w \in [Lists -> Seq(Items)] /\ \A m \in Lists \ {l} : w[m] = q[m]
          /\ w[l] = [k \in 1..(Len(q[l]) - 1) |-> IF k < 1 THEN q[l][k] ELSE q[l][k + 1]]
      BY <1>2, <1>3, <2>3, <2>4, WithoutFacts DEF Represents
    <3>2. w[l] = Tail(q[l])
      <4>1. Tail(q[l]) = [k \in 1..(Len(q[l]) - 1) |-> q[l][k + 1]]
        BY <2>1, <2>3 DEF Tail
      <4>2. \A k \in 1..(Len(q[l]) - 1) : ~(k < 1)
        BY <2>2
      <4> QED
        BY <3>1, <4>1, <4>2
    <3> HIDE DEF w
    <3> QED
      BY <1>3, <3>1, <3>2
  <2> QED
    BY <1>3, <1>4, <2>3, <2>5, <2>6 DEF Queues!Shift, queue
<1>8. ASSUME NEW l \in Lists, NEW i \in Items, append(l, i)  PROVE QueueInv' /\ Queues!Add(l, i)
  <2> DEFINE n == Unlinked(i, idleNext, idlePrev)[1]
             p == Unlinked(i, idleNext, idlePrev)[2]
             w == Queues!Without(q, i)
             n1 == [n EXCEPT ![i] = n[l]]
  <2>1. Consistent(n, p, own) /\ n[i] = null
    BY <1>1, UnlinkedFacts
  <2>2. Represents(p, w) /\ ~Queues!Linked(w, i)
    BY <1>1, <1>2, RemovedFromQueue
  <2>3. idlePrev' = [[p EXCEPT ![n1[l]] = i] EXCEPT ![i] = l]
    BY <1>8 DEF append
  <2> HIDE DEF n, p, w
  <2>4. n1[l] = n[l]
    BY <2>1, NodesAssumption DEF Consistent, Nodes
  <2>5. Represents(idlePrev', [w EXCEPT ![l] = Append(@, i)])
    BY <2>1, <2>2, <2>3, <2>4, AppendedToQueue
  <2> QED
    BY <1>3, <1>4, <2>5 DEF Queues!Add, Queues!AppendTo, queue, w
<1>9. ASSUME UNCHANGED vars  PROVE QueueInv' /\ queue' = queue
  <2>1. idlePrev' = idlePrev
    BY <1>9 DEF vars
  <2> QED
    BY <1>2, <1>3, <1>4, <2>1
<1>10. QueueInv' /\ (Queues!Next \/ queue' = queue)
  BY <1>5, <1>6, <1>7, <1>8, <1>9 DEF Next, Queues!Next
<1> QED
  BY <1>10 DEF queue

(* The pointers of lib/_linklist.js implement the queues of IdleQueue, for any
   number of lists and items and any sequence of calls. *)
THEOREM PointersImplementQueues == Spec => ImplementsQueues
<1>1. Inv /\ QueueInv /\ [Next]_vars => QueueInv'
  BY QueueStep
<1>2. Inv /\ QueueInv /\ [Next]_vars => [Queues!Next]_([l \in Lists |-> Chain(idlePrev, l)])
  BY QueueStep
<1> QED
  BY InitInv, StepInv, QueueInit, <1>1, <1>2, PTL DEF Spec, ImplementsQueues, Queues!Spec
=============================================================================
