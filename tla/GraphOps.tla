------------------------------- MODULE GraphOps -------------------------------
(***************************************************************************)
(* What the graph algorithms of src/src/core/task_graph.cpp answer, stated *)
(* without an algorithm.  A graph is a function from each task to the set  *)
(* of its successors.  KahnSort and CycleCheck run the algorithms,         *)
(* step by step, against these definitions.                                *)
(***************************************************************************)
EXTENDS Naturals, FiniteSets

(* A set of tasks that no edge of adj leaves. *)
Closed(adj, C) == \A t \in C : adj[t] \subseteq C

(* dfs_has_path(start, target): every set that holds start and that no     *)
(* edge leaves holds target.                                               *)
HasPath(adj, start, target) ==
    \A C \in SUBSET DOMAIN adj : start \in C /\ Closed(adj, C) => target \in C

(* What validate() decides: no set of tasks in which each task has a       *)
(* predecessor in the set.                                                 *)
IsAcyclic(adj) ==
    \A S \in SUBSET DOMAIN adj :
        S # {} => \E t \in S : \A s \in S : t \notin adj[s]

Predecessors(adj, t) == {s \in DOMAIN adj : t \in adj[s]}
==============================================================================
