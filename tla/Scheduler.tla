------------------------------ MODULE Scheduler ------------------------------
(***************************************************************************)
(* hts::Scheduler::execute_internal (src/src/core/scheduler.cpp) composed  *)
(* with the dependency manager it owns, the execution engine it feeds and  *)
(* the tasks they share.  The thread of execute_async is one process, the  *)
(* engine's workers and GPU threads are the others, and any thread of the  *)
(* client may cancel a task at any moment.                                 *)
(*                                                                         *)
(* The thread's loop is cut where another thread can tell the difference:  *)
(* one step per dispatched task, one per future it polls, one to collect   *)
(* the tasks that may be dispatched next.                                  *)
(***************************************************************************)
EXTENDS ExecutionEngine, DependencyManager

CONSTANTS
    Graphs,          \* the graphs the client may have built
    Devices,         \* Devices[t]: where the policy may send task t
    Rank,            \* Rank[t]: where the policy sorts task t, high first
    CallbackThrows,  \* whether the error callback may throw
    Cancellable,     \* the tasks the client may cancel
    MaxRuns          \* bound: how often the graph is executed

ASSUME SchedulerAssumption ==
    /\ Tasks = Ids
    /\ Graphs \subseteq [Tasks -> SUBSET Tasks]
    /\ \A adj \in Graphs : IsAcyclic(adj)
    /\ Devices \in [Tasks -> (SUBSET Device) \ {{}}]
    /\ Rank \in [Tasks -> Nat]
    /\ CallbackThrows \in BOOLEAN
    /\ Cancellable \subseteq Tasks
    /\ MaxRuns \in Nat

VARIABLES
    graph,      \* graph_: the edges, as TaskGraph holds them
    pc,         \* where execute_internal is; "idle" when it is not running
    batch,      \* ready_tasks / newly_ready_tasks not yet dispatched
    futures,    \* task_futures: task -> job
    toPoll,     \* tasks the current pass over task_futures has not come to
    harvested,  \* the local vector `completed` of the pass
    runs,       \* executions started
    ended,      \* how the last execution ended
    everThrew,  \* some execution ended by an exception
    runBase     \* jobs that earlier executions dispatched

schedVars == <<graph, pc, batch, futures, toPoll, harvested, runs, ended, everThrew, runBase>>
vars == <<schedVars, engineVars, taskVars, depVars>>

InFlight == DOMAIN futures
RunJobs == JobIds \ 1 .. runBase   \* the jobs of the current execution

SchedTypeOK ==
    /\ EngineTypeOK
    /\ DepTypeOK
    /\ graph \in Graphs
    /\ pc \in {"idle", "dispatch", "poll"}
    /\ batch \subseteq Tasks
    /\ InFlight \subseteq Tasks
    /\ futures \in [InFlight -> JobIds]
    /\ toPoll \subseteq InFlight
    /\ harvested \subseteq InFlight
    /\ runs \in 0 .. MaxRuns
    /\ ended \in {"none", "normal", "threw"}
    /\ everThrew \in BOOLEAN
    /\ runBase \in 0 .. Len(jobs)
-----------------------------------------------------------------------------
Init ==
    /\ EngineInit
    /\ graph \in Graphs
    /\ successors = graph   \* dep_manager_ is null until the first execution
    /\ pending = [t \in Tasks |-> Cardinality(Predecessors(graph, t))]
    /\ completed = {} /\ failed = {} /\ blocked = {}
    /\ pc = "idle"
    /\ batch = {}
    /\ futures = [t \in {} |-> 0]
    /\ toPoll = {}
    /\ harvested = {}
    /\ runs = 0
    /\ ended = "none"
    /\ everThrew = FALSE
    /\ runBase = 0

(* execute_internal up to its first dispatch: lock, validate, a new        *)
(* dependency manager, and the first batch, whatever state its tasks have. *)
Start ==
    /\ pc = "idle"
    /\ runs < MaxRuns
    /\ IsAcyclic(graph)
    /\ InitFromGraph(graph)
    /\ batch' = ReadyTasks'
    /\ futures' = [t \in {} |-> 0]
    /\ toPoll' = {}
    /\ harvested' = {}
    /\ pc' = "dispatch"
    /\ runs' = runs + 1
    /\ ended' = "none"
    /\ UNCHANGED everThrew
    /\ runBase' = Len(jobs)
    /\ UNCHANGED <<graph, engineVars, taskVars>>

(* One iteration of a dispatch loop: the next task of the sorted batch.    *)
Dispatch(t, d) ==
    /\ pc = "dispatch"
    /\ t \in batch
    /\ \A u \in batch : Rank[u] <= Rank[t]
    /\ d \in Devices[t]
    /\ ExecuteTask(t, d)
    /\ futures' = [u \in InFlight \cup {t} |->
                      IF u = t THEN Len(jobs) + 1 ELSE futures[u]]
    /\ batch' = batch \ {t}
    /\ UNCHANGED <<graph, pc, toPoll, harvested, runs, ended, everThrew, runBase, depVars>>

(* The batch is out and futures remain: the next pass over them begins.    *)
BeginPass ==
    /\ pc = "dispatch"
    /\ batch = {}
    /\ InFlight # {}
    /\ pc' = "poll"
    /\ toPoll' = InFlight
    /\ UNCHANGED <<graph, batch, futures, harvested, runs, ended, everThrew, runBase,
                   engineVars, taskVars, depVars>>

(* wait_for times out: the task is left for the next pass.                 *)
PollPending(t) ==
    /\ pc = "poll"
    /\ t \in toPoll
    /\ ~ Resolved(futures[t])
    /\ toPoll' = toPoll \ {t}
    /\ UNCHANGED <<graph, pc, batch, futures, harvested, runs, ended, everThrew, runBase,
                   engineVars, taskVars, depVars>>

PollResolved(t, outcome) ==
    /\ pc = "poll"
    /\ t \in toPoll
    /\ Resolved(futures[t])
    /\ jobs[futures[t]].outcome = outcome

(* future.get() returns: on_task_completed. *)
HarvestCompleted(t) ==
    /\ PollResolved(t, "ok")
    /\ MarkCompleted(t)
    /\ MarkTasksReady(NewlyReady(t))
    /\ toPoll' = toPoll \ {t}
    /\ harvested' = harvested \cup {t}
    /\ UNCHANGED <<graph, pc, batch, futures, runs, ended, everThrew, runBase, engineVars>>

(* Leaving execute_internal: the locals go, executing_ is reset, and the   *)
(* jobs still in flight stay with the engine.                              *)
Leave(how) ==
    /\ pc' = "idle"
    /\ ended' = how
    /\ everThrew' = (everThrew \/ how = "threw")
    /\ futures' = [t \in {} |-> 0]
    /\ batch' = {}
    /\ toPoll' = {}
    /\ harvested' = {}
    /\ UNCHANGED <<graph, runs, runBase, engineVars>>

(* Plausible bugs: a failure releases the successors; the tasks a failure  *)
(* blocks are not told.                                                    *)
BugFailureCompletes(t) ==
    /\ PollResolved(t, "std")
    /\ MarkCompleted(t)
    /\ MarkTasksReady(NewlyReady(t))
    /\ toPoll' = toPoll \ {t}
    /\ harvested' = harvested \cup {t}
    /\ UNCHANGED <<graph, pc, batch, futures, runs, ended, everThrew, runBase, engineVars>>

BugBlockedUnmarked(t) ==
    /\ PollResolved(t, "std")
    /\ MarkFailed(t)
    /\ toPoll' = toPoll \ {t}
    /\ harvested' = harvested \cup {t}
    /\ UNCHANGED <<graph, pc, batch, futures, runs, ended, everThrew, runBase,
                   engineVars, taskVars>>

(* future.get() throws a std::exception: on_task_failed, whose callback    *)
(* returns ...                                                             *)
HarvestFailed(t) ==
    /\ PollResolved(t, "std")
    /\ MarkFailed(t)
    /\ MarkTasksBlocked(NewlyBlocked(t))
    /\ toPoll' = toPoll \ {t}
    /\ harvested' = harvested \cup {t}
    /\ UNCHANGED <<graph, pc, batch, futures, runs, ended, everThrew, runBase, engineVars>>

(* ... or throws, out of the handler and out of execute_internal.          *)
CallbackAborts(t) ==
    /\ CallbackThrows
    /\ PollResolved(t, "std")
    /\ MarkFailed(t)
    /\ MarkTasksBlocked(NewlyBlocked(t))
    /\ Leave("threw")

(* future.get() throws something no handler catches.                       *)
ForeignAborts(t) ==
    /\ PollResolved(t, "other")
    /\ Leave("threw")
    /\ UNCHANGED <<taskVars, depVars>>

(* The end of a pass: the futures kept, the harvest carried over and the   *)
(* tasks to dispatch.                                                      *)
CollectWith(keep, harvest, ready) ==
    /\ pc = "poll"
    /\ toPoll = {}
    /\ futures' = [t \in keep |-> futures[t]]
    /\ harvested' = harvest
    /\ batch' = ready
    /\ pc' = "dispatch"
    /\ UNCHANGED <<graph, toPoll, runs, ended, everThrew, runBase,
                   engineVars, taskVars, depVars>>

(* The state still allows the task to run: a client's cancel() may have    *)
(* come since it was marked ready.                                         *)
Collectable(t) == state[t] \in {"Pending", "Ready"}

(* Plausible bugs of the end of a pass: all futures are dropped, or none;  *)
(* a task that is ready is collected although it is in flight.             *)
BugDropsAll == CollectWith({}, {}, {t \in ReadyTasks : Collectable(t)})
BugDropsNone == CollectWith(InFlight, {}, {t \in ReadyTasks \ InFlight : Collectable(t)})
BugIgnoresInFlight == CollectWith(InFlight \ harvested, {}, ReadyTasks)

(* The pass is over: forget the harvested futures and collect what may run *)
(* now, if its state still says so.                                        *)
Collect ==
    CollectWith(InFlight \ harvested, {},
                {t \in ReadyTasks \ (InFlight \ harvested) : Collectable(t)})

(* Nothing dispatched is left: the loop ends.                              *)
Finish ==
    /\ pc = "dispatch"
    /\ batch = {}
    /\ InFlight = {}
    /\ Leave("normal")
    /\ UNCHANGED <<taskVars, depVars>>

Loop ==
    \/ \E t \in Tasks, d \in Device : Dispatch(t, d)
    \/ BeginPass
    \/ \E t \in Tasks : PollPending(t)
    \/ \E t \in Tasks : HarvestCompleted(t)
    \/ \E t \in Tasks : HarvestFailed(t)
    \/ \E t \in Tasks : CallbackAborts(t)
    \/ \E t \in Tasks : ForeignAborts(t)
    \/ Collect
    \/ Finish

EngineStep == EngineNext /\ UNCHANGED <<schedVars, depVars>>
ClientCancels ==
    \E t \in Cancellable : Cancel(t) /\ UNCHANGED <<schedVars, engineVars, depVars>>

Next == Start \/ Loop \/ EngineStep \/ ClientCancels

Spec == Init /\ [][Next]_vars

(* The scheduler's thread, each worker and each GPU thread run on; a user  *)
(* function ends.  The client need neither execute nor cancel.             *)
MaxJobs == MaxRuns * Cardinality(Tasks)
Fairness ==
    /\ WF_vars(Loop)
    /\ WF_vars(TakeFromQueue /\ UNCHANGED <<schedVars, depVars>>)
    /\ \A j \in 1 .. MaxJobs :
           WF_vars(j \in JobIds /\ JobStep(j) /\ UNCHANGED <<schedVars, depVars>>)

FairSpec == Spec /\ Fairness
-----------------------------------------------------------------------------
(* No task is handed to the engine before each of its predecessors ran and *)
(* returned normally in the same execution, whatever earlier executions    *)
(* left behind in the engine.                                              *)
DependencyOrder ==
    \A j \in RunJobs : \A p \in Predecessors(graph, jobs[j].task) :
        \E i \in RunJobs :
            i < j /\ jobs[i].task = p /\ jobs[i].outcome = "ok" /\ Resolved(i)

(* An execution hands each task to the engine at most once.                *)
OncePerRun ==
    \A i, j \in RunJobs : jobs[i].task = jobs[j].task => i = j

(* A task blocked by a failure never ran in the execution that blocked it. *)
BlockedNeverRan == \A j \in RunJobs : jobs[j].task \notin blocked

(* A failure takes down everything behind it, however far: completions are *)
(* reported after those of the predecessors, so no path out of a failed    *)
(* task meets a completed one.                                             *)
FailureTakesAll ==
    \A s \in failed, t \in Tasks : HasPath(graph, s, t) => t \in blocked \cup {s}

(* The verdict the manager holds of a task is the one its job gave.        *)
VerdictsFromJobs ==
    /\ \A t \in completed \cup failed : \E j \in RunJobs :
           /\ jobs[j].task = t
           /\ Resolved(j)
           /\ jobs[j].outcome = IF t \in completed THEN "ok" ELSE "std"
    /\ ended = "normal" =>
           \A j \in RunJobs : jobs[j].task \in completed \cup failed

(* While no execution has ended by an exception: when one ends normally,   *)
(* each task completed, failed or was blocked, unless it or a task it      *)
(* waits for was cancelled.                                                *)
DrainedUnlessCancelled ==
    ended = "normal" /\ ~ everThrew =>
        \A t \in Tasks : t \in Terminal
            \/ \E c \in Tasks : cancelled[c] /\ HasPath(graph, c, t)

(* While no execution has ended by an exception: between executions the    *)
(* engine has answered for every job ...                                   *)
QuietBetweenRuns ==
    pc = "idle" /\ ~ everThrew => \A j \in JobIds : Resolved(j)

(* ... and the state of a task with a verdict is that verdict, unless the  *)
(* client cancelled it, although the workers, the scheduler and the client *)
(* all store into it.  (A task that waits for one skipped as cancelled has *)
(* no verdict and keeps the state an earlier execution left.)              *)
StatesAgree ==
    ended = "normal" /\ ~ everThrew =>
        \A t \in Tasks : state[t] # "Cancelled" =>
            /\ t \in completed => state[t] = "Completed"
            /\ t \in failed => state[t] = "Failed"
            /\ t \in blocked => state[t] = "Blocked"

(* The same of every execution, which the code does not promise.           *)
QuietAlways == pc = "idle" => \A j \in JobIds : Resolved(j)

(* A normal end leaves every task decided, which the code does not promise *)
(* either: a cancelled task is skipped, and so is one that a job of an     *)
(* abandoned execution marks when it should be collected.                  *)
Drained == ended = "normal" => Tasks \subseteq Terminal

(* Every execution ends, whatever its tasks do except run forever.         *)
RunEnds == pc # "idle" ~> pc = "idle"
-----------------------------------------------------------------------------
(* What the scheduler's state says of a task to someone who knows only     *)
(* DagExecution.                                                           *)
Verdict == [t \in Tasks |->
    IF t \in completed THEN "completed"
    ELSE IF t \in failed THEN "failed"
    ELSE IF t \in blocked THEN "blocked"
    ELSE IF \E j \in RunJobs : jobs[j].task = t THEN "started"
    ELSE "none"]

Dag == INSTANCE DagExecution WITH running <- pc # "idle", abandoned <- everThrew,
                                    verdict <- Verdict

(* The scheduler implements the abstract execution. *)
ImplementsDag == Dag!DagSpec
==============================================================================
