------------------------------ MODULE MCGraph ------------------------------
(* The task graph, one question at a time: a behaviour builds a graph with *)
(* a group and a builder, or builds one without them, or runs one of the   *)
(* two searches over a graph of its choice, or follows the dependencies of *)
(* one through a run.  What is not in focus stands in its first state.     *)
EXTENDS TaskGroup, KahnSort, CycleCheck, DependencyManager

CONSTANT GroupTasks   \* bound on the tasks of a graph that groups build

VARIABLE focus

NoEdges == [t \in Nodes |-> {}]

(* Up to renaming, every acyclic graph: edges lead to higher ids. *)
Dags == {a \in Digraphs : \A s, t \in Nodes : t \in a[s] => s < t}

(* The dependencies of the graph without tasks. *)
NoGraph ==
    successors = <<>> /\ pending = <<>> /\ completed = {} /\ failed = {} /\ blocked = {}

WithinGroupTasks ==
    /\ nextId <= GroupTasks + 1
    /\ \A c \in GraphClients :
           /\ after[c] \subseteq 1 .. GroupTasks
           /\ call[c].all \subseteq (1 .. GroupTasks) \X (1 .. GroupTasks)

MCInit ==
    /\ GroupInit
    /\ \/ focus \in {"groups", "graph", "dependencies"} /\ edges = NoEdges /\ adj = NoEdges
       \/ focus = "search" /\ edges = NoEdges /\ adj \in Dags
       \/ focus = "sort" /\ adj = NoEdges
    /\ focus # "search" => origin = 1 /\ target = 1
    /\ SearchInit /\ KahnInit
    /\ \/ focus = "dependencies" /\ DepInit
       \/ focus # "dependencies" /\ NoGraph

MCNext ==
    /\ \/ focus = "groups" /\ GroupNext /\ WithinGroupTasks'
              /\ UNCHANGED <<kahnVars, searchVars, depVars>>
       \/ focus = "graph" /\ Next /\ UNCHANGED <<groupVars, kahnVars, searchVars, depVars>>
       \/ focus = "sort" /\ KahnNext
              /\ UNCHANGED <<graphVars, groupVars, searchVars, depVars>>
       \/ focus = "search" /\ SearchNext
              /\ UNCHANGED <<graphVars, groupVars, kahnVars, depVars>>
       \/ focus = "dependencies" /\ DepNext
              /\ UNCHANGED <<graphVars, groupVars, kahnVars, searchVars>>
    /\ UNCHANGED focus

MCSpec ==
    MCInit /\ [][MCNext]_<<graphVars, groupVars, kahnVars, searchVars, depVars, focus>>
==============================================================================
