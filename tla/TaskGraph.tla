------------------------------ MODULE TaskGraph ------------------------------
(***************************************************************************)
(* hts::TaskGraph (src/src/core/task_graph.cpp): the tasks a client builds *)
(* and the dependencies between them.  Every public method takes mutex_    *)
(* for its whole body, so each is one atomic step here.  An adjacency      *)
(* vector never holds a task twice (add_dependency looks before it         *)
(* pushes), so it is modelled by the set of its members; the maps have one *)
(* entry for each task (add_task makes all three).                         *)
(***************************************************************************)
EXTENDS GraphOps

CONSTANT MaxTasks   \* bound: tasks the client adds between two clear() calls

ASSUME MaxTasksAssumption == MaxTasks \in Nat

VARIABLES
    tasks,             \* tasks_: the ids that exist
    adjacencyList,     \* adjacency_list_: from -> its successors
    reverseAdjacency,  \* reverse_adjacency_: to -> its predecessors
    nextId             \* next_id_

graphVars == <<tasks, adjacencyList, reverseAdjacency, nextId>>

TypeOK ==
    /\ nextId \in 1 .. MaxTasks + 1
    /\ tasks = 1 .. nextId - 1
    /\ adjacencyList \in [tasks -> SUBSET tasks]
    /\ reverseAdjacency \in [tasks -> SUBSET tasks]

-----------------------------------------------------------------------------
(* get_root_tasks() *)
Roots == {t \in tasks : reverseAdjacency[t] = {}}

(* Plausible bug: only a direct edge back is looked for. *)
BugDirectEdgeOnly(from, to) == from \in adjacencyList[to]

WouldCreateCycle(from, to) == HasPath(adjacencyList, to, from)
-----------------------------------------------------------------------------
Init ==
    /\ tasks = {}
    /\ adjacencyList = [t \in {} |-> {}]
    /\ reverseAdjacency = [t \in {} |-> {}]
    /\ nextId = 1

AddTask ==
    /\ nextId <= MaxTasks
    /\ tasks' = tasks \cup {nextId}
    /\ adjacencyList' =
           [t \in tasks' |-> IF t = nextId THEN {} ELSE adjacencyList[t]]
    /\ reverseAdjacency' =
           [t \in tasks' |-> IF t = nextId THEN {} ELSE reverseAdjacency[t]]
    /\ nextId' = nextId + 1

(* Plausible bug: the reverse map is indexed by the wrong end of the edge. *)
BugReverseSwapped(from, to) ==
    /\ {from, to} \subseteq tasks
    /\ from # to
    /\ to \notin adjacencyList[from]
    /\ ~ WouldCreateCycle(from, to)
    /\ adjacencyList' = [adjacencyList EXCEPT ![from] = @ \cup {to}]
    /\ reverseAdjacency' = [reverseAdjacency EXCEPT ![from] = @ \cup {to}]
    /\ UNCHANGED <<tasks, nextId>>

(* The call that adds an edge.  The other outcomes leave the graph alone:  *)
(* an unknown id throws, a self-loop or an edge that would close a cycle   *)
(* returns false, an edge that exists returns true.                        *)
AddDependency(from, to) ==
    /\ {from, to} \subseteq tasks
    /\ from # to
    /\ to \notin adjacencyList[from]
    /\ ~ WouldCreateCycle(from, to)
    /\ adjacencyList' = [adjacencyList EXCEPT ![from] = @ \cup {to}]
    /\ reverseAdjacency' = [reverseAdjacency EXCEPT ![to] = @ \cup {from}]
    /\ UNCHANGED <<tasks, nextId>>

Clear ==
    /\ tasks' = {}
    /\ adjacencyList' = [t \in {} |-> {}]
    /\ reverseAdjacency' = [t \in {} |-> {}]
    /\ nextId' = 1

Next ==
    \/ AddTask
    \/ \E from, to \in tasks : AddDependency(from, to)
    \/ Clear

Spec == Init /\ [][Next]_graphVars
-----------------------------------------------------------------------------
(* No sequence of add_task, add_dependency and clear builds a cycle, so    *)
(* validate() is always true and Scheduler::execute_internal never takes   *)
(* its "contains cycles" throw.                                            *)
Acyclic == IsAcyclic(adjacencyList)

(* The two adjacency maps, updated one after the other, always describe    *)
(* the same edges: what in_degree, get_predecessors and get_root_tasks     *)
(* answer is what the dependency manager counts from get_successors.       *)
MapsAgree ==
    \A s, t \in tasks : t \in adjacencyList[s] <=> s \in reverseAdjacency[t]

(* A graph that has a task has one to start from: a run of a non-empty     *)
(* graph always dispatches something.                                      *)
RootExists == tasks # {} => Roots # {}
==============================================================================
