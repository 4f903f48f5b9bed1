-------------------------- MODULE DependencyGraph ---------------------------
(***************************************************************************)
(* gyp/input.py: DependencyGraphNode.FlattenToList, the topological sort   *)
(* of targets and of build files.  in_degree_zeros is a set of objects     *)
(* whose pop() may give any of them.                                       *)
(***************************************************************************)
EXTENDS Naturals, Sequences, FiniteSets

VARIABLES
  graph,            \* node -> the set of its dependencies
  flat_list,
  in_degree_zeros

graphVars == <<graph, flat_list, in_degree_zeros>>

Elements(s) == {s[i] : i \in DOMAIN s}
NoGraph == graph = <<>> /\ flat_list = <<>> /\ in_degree_zeros = {}

\* The nodes without dependencies are the dependents of the root node.
StartFlatten(g) ==
  /\ graph' = g
  /\ flat_list' = <<>>
  /\ in_degree_zeros' = {n \in DOMAIN g : g[n] = {}}

\* Mutant: a node is ready when one of its dependencies is in the list.
Ready_Any(n, list) == graph[n] \intersect Elements(list) # {}

Ready(n, list) == graph[n] \subseteq Elements(list)

Pop(node) ==
  /\ node \in in_degree_zeros
  /\ flat_list' = Append(flat_list, node)
  /\ in_degree_zeros' = (in_degree_zeros \ {node})
                          \union {d \in DOMAIN graph : node \in graph[d] /\ Ready(d, Append(flat_list, node))}
  /\ UNCHANGED graph

Flattened == in_degree_zeros = {}
\* len(flat_list) != len(targets): some node is in a cycle or depends on one.
Circular == Len(flat_list) # Cardinality(DOMAIN graph)

-----------------------------------------------------------------------------
(* Sorting one graph after the other: first that of the build files, then that
   of the targets.  Both functions that build a graph refuse a dependency that
   is not one of its nodes. *)
NewGraph ==
  /\ IsFiniteSet(DOMAIN graph')
  /\ \A n \in DOMAIN graph' : graph'[n] \subseteq DOMAIN graph'
  /\ StartFlatten(graph')

GraphNext == NewGraph \/ \E n \in in_degree_zeros : Pop(n)
GraphSpec == NoGraph /\ [][GraphNext]_graphVars

-----------------------------------------------------------------------------
(* The order FlattenToList promises: "Every target will appear in flat_list
   after all of its dependencies", and no target twice. *)
FlatSorted ==
  \A i \in DOMAIN flat_list :
    /\ \A j \in DOMAIN flat_list : flat_list[i] = flat_list[j] => i = j
    /\ \A d \in graph[flat_list[i]] : \E j \in 1..(i - 1) : flat_list[j] = d

\* Nodes each of which depends on one of them: one can follow dependencies for ever.
Cyclic(nodes) == \A n \in nodes : graph[n] \intersect nodes # {}

(* A graph is refused, with the error that BuildDependencyList raises, if and
   only if it has a cycle. *)
CyclesRefused == Flattened => (Circular <=> \E nodes \in SUBSET DOMAIN graph : nodes # {} /\ Cyclic(nodes))

(* Whatever pop() takes from the set, what comes out is sorted, and all of it
   comes out unless there is a cycle. *)
SortedForGenerators == FlatSorted /\ CyclesRefused
=============================================================================
