----------------------------- MODULE CycleCheck -----------------------------
(***************************************************************************)
(* The depth-first search dfs_has_path of src/src/core/task_graph.cpp with *)
(* its shared visited set, run with an explicit stack: a frame is a call,  *)
(* the task it was called for and the successors its loop has not come to. *)
(* The search runs under TaskGraph's mutex_, on a graph that does not      *)
(* change and that has no cycle: the search itself keeps them out, see     *)
(* Acyclic in TaskGraph.tla.                                               *)
(***************************************************************************)
EXTENDS GraphOps, Sequences

CONSTANT Vertices   \* the ids of the tasks

VARIABLES
    adj,      \* adjacency_list_
    origin,   \* start of the outermost call
    target,   \* target
    visited,  \* visited
    stack,    \* the calls in progress, innermost last
    found     \* a call returned true, and so do all around it

searchVars == <<adj, origin, target, visited, stack, found>>

Frame == [task : Vertices, todo : SUBSET Vertices]

Top == stack[Len(stack)]
Called(t) == [task |-> t, todo |-> adj[t]]

SearchInit ==
    /\ adj \in {a \in [Vertices -> SUBSET Vertices] : IsAcyclic(a)}
    /\ origin \in Vertices
    /\ target \in Vertices
    /\ found = (origin = target)
    /\ visited = IF found THEN {} ELSE {origin}
    /\ stack = IF found THEN <<>> ELSE <<Called(origin)>>

(* Plausible bug: the loop returns what its first call returns.            *)
BugFirstCallDecides(t) ==
    /\ ~ found
    /\ stack # <<>>
    /\ t \in Top.todo
    /\ IF t = target
       THEN found' = TRUE /\ UNCHANGED <<visited, stack>>
       ELSE /\ visited' = visited \cup {t}
            /\ stack' = IF t \in visited THEN <<>>
                        ELSE Append([stack EXCEPT ![Len(stack)].todo = {}], Called(t))
            /\ UNCHANGED found
    /\ UNCHANGED <<adj, origin, target>>

(* The loop of the innermost call goes on to successor t: the target, a    *)
(* visited task, or a task to search from.                                 *)
Descend(t) ==
    /\ ~ found
    /\ stack # <<>>
    /\ t \in Top.todo
    /\ IF t = target
       THEN found' = TRUE /\ UNCHANGED <<visited, stack>>
       ELSE /\ visited' = visited \cup {t}
            /\ LET rest == [stack EXCEPT ![Len(stack)].todo = @ \ {t}]
               IN  stack' = IF t \in visited THEN rest ELSE Append(rest, Called(t))
            /\ UNCHANGED found
    /\ UNCHANGED <<adj, origin, target>>

(* The loop is over: the call returns false. *)
Backtrack ==
    /\ ~ found
    /\ stack # <<>>
    /\ Top.todo = {}
    /\ stack' = SubSeq(stack, 1, Len(stack) - 1)
    /\ UNCHANGED <<adj, origin, target, visited, found>>

SearchNext == Backtrack \/ \E t \in Vertices : Descend(t)

SearchSpec == SearchInit /\ [][SearchNext]_searchVars

SearchDone == found \/ stack = <<>>
-----------------------------------------------------------------------------
(* The search answers whether there is a path: a task visited earlier, on  *)
(* another branch, may be skipped without missing one.                     *)
SearchCorrect == SearchDone => (found <=> HasPath(adj, origin, target))
==============================================================================
