------------------------------ MODULE KahnSort ------------------------------
(***************************************************************************)
(* Kahn's algorithm as TaskGraph::validate and topological_sort run it     *)
(* (src/src/core/task_graph.cpp), one step per task taken off the queue.   *)
(* Both methods hold mutex_ throughout, so the graph does not change.  The *)
(* queue is a set here: the order tasks enter it comes from the iteration  *)
(* order of an unordered_map, and nothing may depend on it.  validate      *)
(* counts the tasks that topological_sort returns.                         *)
(***************************************************************************)
EXTENDS GraphOps, Sequences

CONSTANT Nodes   \* the ids of the tasks

ASSUME NodesAssumption == IsFiniteSet(Nodes)

VARIABLES
    edges,      \* adjacency_list_
    inDegrees,  \* in_degrees
    queue,      \* queue
    result      \* result; its length is validate's `processed`

kahnVars == <<edges, inDegrees, queue, result>>

(* add_dependency refuses self-loops. *)
Digraphs == {adj \in [Nodes -> SUBSET Nodes] : \A t \in Nodes : t \notin adj[t]}
Sorted == {result[i] : i \in 1 .. Len(result)}

InDegree(t) == Cardinality(Predecessors(edges, t))

(* Any graph, cycles included: validate() does not rely on add_dependency  *)
(* having kept them out.                                                   *)
KahnInit ==
    /\ edges \in Digraphs
    /\ inDegrees = [t \in Nodes |-> InDegree(t)]
    /\ queue = {t \in Nodes : InDegree(t) = 0}
    /\ result = <<>>

(* Plausible bug: the count falls by one only when it will reach zero.      *)
BugSkipsSharedSuccessor(t) ==
    /\ t \in queue
    /\ inDegrees' = [u \in Nodes |->
           IF u \in edges[t] /\ inDegrees[u] = 1 THEN 0 ELSE inDegrees[u]]
    /\ queue' = (queue \ {t}) \cup {u \in edges[t] : inDegrees[u] = 1}
    /\ result' = Append(result, t)
    /\ UNCHANGED edges

Take(t) ==
    /\ t \in queue
    /\ inDegrees' = [u \in Nodes |->
           IF u \in edges[t] THEN inDegrees[u] - 1 ELSE inDegrees[u]]
    /\ queue' = (queue \ {t}) \cup {u \in edges[t] : inDegrees[u] = 1}
    /\ result' = Append(result, t)
    /\ UNCHANGED edges

KahnNext == \E t \in Nodes : Take(t)

KahnSpec == KahnInit /\ [][KahnNext]_kahnVars

KahnDone == queue = {}
-----------------------------------------------------------------------------
(* Every task in the result comes after all its predecessors, and no task  *)
(* is returned twice.                                                      *)
TopologicalOrder ==
    \A i \in 1 .. Len(result) :
        /\ \A p \in Predecessors(edges, result[i]) :
               \E k \in 1 .. i - 1 : result[k] = p
        /\ \A k \in 1 .. i - 1 : result[k] # result[i]

(* validate() answers true for exactly the acyclic graphs. *)
ValidateCorrect ==
    KahnDone => (Len(result) = Cardinality(Nodes) <=> IsAcyclic(edges))

(* Both answers that are read off the result are right. *)
SortCorrect == TopologicalOrder /\ ValidateCorrect
==============================================================================
