-------------------------- MODULE DependencyManager --------------------------
(***************************************************************************)
(* hts::DependencyManager (src/src/core/dependency_manager.cpp): which     *)
(* tasks of a graph may start, given which completed and which failed.     *)
(* Every method takes mutex_ for its whole body and is one atomic step.    *)
(* The specification lets a client call mark_completed and mark_failed for *)
(* any id, in any order, ready or not, known or not: the public interface  *)
(* does not ask for less, and Scheduler.tla adds the order the scheduler   *)
(* keeps.                                                                  *)
(***************************************************************************)
EXTENDS GraphOps

CONSTANT Ids   \* the task ids a client may name, those of the graph among them

ASSUME IdsAssumption == IsFiniteSet(Ids)

VARIABLES
    successors,  \* successors_: the snapshot of the graph's edges
    pending,     \* pending_deps_
    completed,   \* completed_
    failed,      \* failed_
    blocked      \* blocked_

depVars == <<successors, pending, completed, failed, blocked>>

Known == DOMAIN successors
Terminal == completed \cup failed \cup blocked
SuccessorsOf(id) == IF id \in Known THEN successors[id] ELSE {}

DepTypeOK ==
    /\ Known \subseteq Ids
    /\ successors \in [Known -> SUBSET Known]
    /\ pending \in [Known -> Nat]
    /\ Terminal \subseteq Ids
-----------------------------------------------------------------------------
(* get_ready_tasks(), and the set is_ready() tests membership of *)
ReadyTasks == {t \in Known : pending[t] = 0 /\ t \notin Terminal}

(* init_from_graph: the snapshot of graph adj, and its in-degrees *)
InitFromGraph(adj) ==
    /\ successors' = adj
    /\ pending' = [t \in DOMAIN adj |-> Cardinality(Predecessors(adj, t))]
    /\ completed' = {}
    /\ failed' = {}
    /\ blocked' = {}

(* What mark_completed(id) returns *)
NewlyReady(id) ==
    IF id \in Terminal THEN {} ELSE {t \in SuccessorsOf(id) : pending[t] = 1}

(* Plausible bug: a task completed twice is counted twice. *)
BugCountsTwice(id) ==
    /\ completed' = completed \cup {id}
    /\ pending' = [t \in Known |->
           IF t \in SuccessorsOf(id) /\ pending[t] > 0
           THEN pending[t] - 1 ELSE pending[t]]
    /\ UNCHANGED <<successors, failed, blocked>>

MarkCompleted(id) ==
    \/ /\ id \in Terminal
       /\ UNCHANGED depVars
    \/ /\ id \notin Terminal
       /\ completed' = completed \cup {id}
       /\ pending' = [t \in Known |->
              IF t \in SuccessorsOf(id) /\ pending[t] > 0
              THEN pending[t] - 1 ELSE pending[t]]
       /\ UNCHANGED <<successors, failed, blocked>>

(* The search of mark_failed(id) goes through tasks without a verdict only *)
Open(id) == Known \ (Terminal \cup {id})

(* Plausible bugs: the direct successors are blocked, not theirs; nothing  *)
(* is blocked.                                                             *)
BugBlocksDirectOnly(id) ==
    IF id \in Terminal THEN {} ELSE SuccessorsOf(id) \cap Open(id)
BugBlocksNothing(id) == {}

(* What mark_failed(id) returns: the least set of open tasks that holds    *)
(* the open successors of id and of its own members.                       *)
NewlyBlocked(id) ==
    {t \in Open(id) :
        /\ id \notin Terminal
        /\ \A C \in SUBSET Open(id) :
               (\A s \in C \cup {id} : SuccessorsOf(s) \cap Open(id) \subseteq C)
                   => t \in C}

MarkFailed(id) ==
    \/ /\ id \in Terminal
       /\ UNCHANGED depVars
    \/ /\ id \notin Terminal
       /\ failed' = failed \cup {id}
       /\ blocked' = blocked \cup NewlyBlocked(id)
       /\ UNCHANGED <<successors, pending, completed>>

(* Plausible bug: reset forgets a set of verdicts. *)
BugResetKeepsBlocked ==
    /\ pending' = [t \in Known |-> Cardinality(Predecessors(successors, t))]
    /\ completed' = {}
    /\ failed' = {}
    /\ UNCHANGED <<successors, blocked>>

(* reset(): the counters are counted again from the snapshot *)
Reset == InitFromGraph(successors)
-----------------------------------------------------------------------------
(* The constructor, given any graph TaskGraph can hold *)
DepInit ==
    \E T \in SUBSET Ids :
        /\ successors \in {adj \in [T -> SUBSET T] : IsAcyclic(adj)}
        /\ pending = [t \in T |-> Cardinality(Predecessors(successors, t))]
        /\ completed = {}
        /\ failed = {}
        /\ blocked = {}

DepNext ==
    \/ \E id \in Ids : MarkCompleted(id)
    \/ \E id \in Ids : MarkFailed(id)
    \/ Reset

DepSpec == DepInit /\ [][DepNext]_depVars
-----------------------------------------------------------------------------
(* The counter of a task is the number of its predecessors not completed,  *)
(* whatever was completed in whatever order, and however often.            *)
PendingExact ==
    \A t \in Known :
        pending[t] = Cardinality(Predecessors(successors, t) \ completed)

(* No task has two verdicts. *)
VerdictsDisjoint ==
    /\ completed \cap failed = {}
    /\ completed \cap blocked = {}
    /\ failed \cap blocked = {}

(* The tasks a failure of id leads to: those along the paths that start at *)
(* id and go through tasks not reported completed only.                    *)
OpenDescendants(id) ==
    {t \in Known \ completed :
        \A C \in SUBSET (Known \ completed) :
            (\A s \in C \cup {id} : SuccessorsOf(s) \ completed \subseteq C)
                => t \in C}

(* No task is left open, nor offered as ready, at any distance behind a    *)
(* failure, whatever verdicts the tasks between them had when the search   *)
(* of mark_failed met them: it goes through tasks without a verdict only.  *)
(* The paths end at completed tasks.  A client that reports b completed    *)
(* before its predecessor a failed leaves what waits for b alone to run;   *)
(* that is what the code does, and the scheduler, which completes no task  *)
(* before its predecessors, never does so.                                 *)
FailureClosure ==
    \A id \in failed : OpenDescendants(id) \subseteq failed \cup blocked

(* A task is blocked only because of a predecessor that failed or is       *)
(* blocked itself: a failure never takes down work it does not lead to.    *)
BlockedHasCause ==
    \A t \in blocked :
        \E s \in failed \cup blocked : s \in Predecessors(successors, t)

(* Whatever order the verdicts arrived in, a graph that still has a task   *)
(* without a verdict has one that is ready: the scheduler never runs out   *)
(* of work early.                                                          *)
NoStall == Known \subseteq Terminal \/ ReadyTasks # {}

(* A task the manager reports ready has every predecessor completed. *)
ReadyIsSound ==
    \A t \in ReadyTasks : Predecessors(successors, t) \subseteq completed
==============================================================================
