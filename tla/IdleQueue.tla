------------------------------ MODULE IdleQueue ------------------------------
(***************************************************************************)
(* What lib/_linklist.js promises its callers: every list is a FIFO queue, *)
(* an item is in at most one of them, appending an item moves it to the    *)
(* end of its new list, and the most idle item is the one at the front.    *)
(***************************************************************************)
EXTENDS Sequences, Naturals

CONSTANTS Lists, Items

VARIABLE queue  \* queue[l]: the items of list l, the most idle first

Holds(q, l, i) == \E k \in 1..Len(q[l]) : q[l][k] = i
Linked(q, i) == \E l \in Lists : Holds(q, l, i)

\* Every list without i, which stands in one of them at most, and there once.
Without(q, i) ==
  [l \in Lists |->
     IF ~Holds(q, l, i) THEN q[l]
     ELSE LET at == CHOOSE k \in 1..Len(q[l]) : q[l][k] = i
          IN  [k \in 1..(Len(q[l]) - 1) |-> IF k < at THEN q[l][k] ELSE q[l][k + 1]]]
AppendTo(q, l, i) == [Without(q, i) EXCEPT ![l] = Append(@, i)]

Init == queue = [l \in Lists |-> <<>>]

Add(l, i) == queue' = AppendTo(queue, l, i)

Remove(i) == queue' = Without(queue, i)

Shift(l) == queue[l] # <<>> /\ queue' = [queue EXCEPT ![l] = Tail(@)]

Next ==
  \/ \E l \in Lists, i \in Items : Add(l, i)
  \/ \E i \in Items : Remove(i)
  \/ \E l \in Lists : Shift(l)

Spec == Init /\ [][Next]_queue
=============================================================================
