------------------------------ MODULE LinkList ------------------------------
(***************************************************************************)
(* lib/_linklist.js: circular doubly linked lists threaded through the     *)
(* fields _idleNext and _idlePrev of the items themselves, with the list   *)
(* object as sentinel.  lib/timers.js keeps its idle lists and the         *)
(* immediate queue in them.                                                *)
(***************************************************************************)
EXTENDS Naturals, Sequences, FiniteSets

CONSTANTS
  Lists,  \* list objects: one Timer for each duration, immediateQueue
  Items,  \* Timeouts, sockets, immediates
  null    \* null, and undefined before the first init

ASSUME NodesAssumption == Lists \cap Items = {} /\ null \notin Lists \cup Items
ASSUME ItemsAssumption == IsFiniteSet(Items)

VARIABLES
  idleNext,  \* _idleNext of every item and list object
  idlePrev   \* _idlePrev

vars == <<idleNext, idlePrev>>
Nodes == Lists \cup Items

-----------------------------------------------------------------------------
\* Mutant: forgets the backward link of the successor.
Unlinked_OneSided(i, n, p) ==
  LET p1 == p
      n1 == IF p1[i] # null THEN [n EXCEPT ![p1[i]] = n[i]] ELSE n
  IN  <<[n1 EXCEPT ![i] = null], [p1 EXCEPT ![i] = null]>>

\* remove(item): the four assignments in the order of the code, as a function
\* of the two fields.
Unlinked(i, n, p) ==
  LET p1 == IF n[i] # null THEN [p EXCEPT ![n[i]] = p[i]] ELSE p
      n1 == IF p1[i] # null THEN [n EXCEPT ![p1[i]] = n[i]] ELSE n
  IN  <<[n1 EXCEPT ![i] = null], [p1 EXCEPT ![i] = null]>>

\* init(list), for the list objects when the program starts using them.
Init ==
  /\ idleNext = [x \in Nodes |-> IF x \in Lists THEN x ELSE null]
  /\ idlePrev = [x \in Nodes |-> IF x \in Lists THEN x ELSE null]

\* init(item): enroll and setImmediate call it on an item that is in no list.
init(i) ==
  /\ idleNext[i] = null
  /\ idleNext' = [idleNext EXCEPT ![i] = i]
  /\ idlePrev' = [idlePrev EXCEPT ![i] = i]

peek(l) == IF idlePrev[l] = l THEN null ELSE idlePrev[l]

isEmpty(l) == idleNext[l] = l

remove(i) ==
  LET u == Unlinked(i, idleNext, idlePrev)
  IN  idleNext' = u[1] /\ idlePrev' = u[2]

\* shift: its callers have seen that the list is not empty.
shift(l) == ~isEmpty(l) /\ remove(idlePrev[l])

\* Mutant: puts the item at the end that shift takes from.
append_Front(l, i) ==
  LET u == Unlinked(i, idleNext, idlePrev)
      p1 == [u[2] EXCEPT ![i] = u[2][l]]
      n1 == [u[1] EXCEPT ![p1[l]] = i]
  IN  /\ idleNext' = [n1 EXCEPT ![i] = l]
      /\ idlePrev' = [p1 EXCEPT ![l] = i]

\* append(list, item): remove, then four assignments in the order of the code.
append(l, i) ==
  LET u == Unlinked(i, idleNext, idlePrev)
      n1 == [u[1] EXCEPT ![i] = u[1][l]]
      p1 == [u[2] EXCEPT ![n1[l]] = i]
  IN  /\ idlePrev' = [p1 EXCEPT ![i] = l]
      /\ idleNext' = [n1 EXCEPT ![l] = i]

Next ==
  \/ \E i \in Items : init(i) \/ remove(i)
  \/ \E l \in Lists : shift(l)
  \/ \E l \in Lists, i \in Items : append(l, i)

Spec == Init /\ [][Next]_vars
-----------------------------------------------------------------------------
TypeOK ==
  /\ idleNext \in [Nodes -> Nodes \cup {null}]
  /\ idlePrev \in [Nodes -> Nodes \cup {null}]

\* The two directions agree: following one link and then the opposite one leads
\* back, so no remove or append can tear a list apart; and peek and isEmpty, which
\* read opposite links of the list object, agree on whether it is empty.
Mirrored ==
  /\ \A x \in Nodes :
       /\ idleNext[x] = null <=> idlePrev[x] = null
       /\ idleNext[x] # null => idlePrev[idleNext[x]] = x
       /\ idlePrev[x] # null => idleNext[idlePrev[x]] = x
  /\ \A l \in Lists : idleNext[l] # null /\ (isEmpty(l) <=> peek(l) = null)

(***************************************************************************)
(* The queue a list object stands for: the items met by following          *)
(* _idlePrev from it until it is reached again.                            *)
(***************************************************************************)
\* Position k of the ring of l, which starts and ends with l.
At(l, q, k) == IF k \in 1..Len(q) THEN q[k] ELSE l
Follows(prev, l, q) == \A k \in 0..Len(q) : prev[At(l, q, k)] = At(l, q, k + 1)

Chains == UNION {[1..n -> Items] : n \in 0..Cardinality(Items)}
Chain(prev, l) == CHOOSE q \in Chains : Follows(prev, l, q)

Queues == INSTANCE IdleQueue WITH queue <- [l \in Lists |-> Chain(idlePrev, l)]

\* The pointer manipulation implements the FIFO queues of IdleQueue: append moves
\* an item to the end of its list, remove deletes it wherever it is (or nothing,
\* when it is in no list), shift takes the item peek shows.
ImplementsQueues == Queues!Spec
=============================================================================
