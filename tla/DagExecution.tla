---------------------------- MODULE DagExecution ----------------------------
(***************************************************************************)
(* What executing a graph of tasks promises, with no scheduler, engine or  *)
(* dependency manager in sight: each task gets at most one verdict in an   *)
(* execution, starts only when all it depends on completed, and takes its  *)
(* descendants down when it fails.  Scheduler.tla implements this.         *)
(***************************************************************************)
EXTENDS GraphOps

CONSTANTS Tasks, Graphs

VARIABLES
    graph,      \* the edges, fixed
    running,    \* an execution is in progress
    abandoned,  \* an execution ended while tasks it had started went on
    verdict,    \* what the current or last execution says of each task
    cancelled   \* tasks the client has cancelled

dagVars == <<graph, running, abandoned, verdict, cancelled>>

Undecided == [t \in Tasks |-> "none"]

DagInit ==
    /\ graph \in Graphs
    /\ running = FALSE
    /\ abandoned = FALSE
    /\ verdict = Undecided
    /\ cancelled = [t \in Tasks |-> FALSE]

Begin ==
    /\ ~ running
    /\ running' = TRUE
    /\ verdict' = Undecided
    /\ UNCHANGED <<graph, abandoned, cancelled>>

StartTask(t) ==
    /\ running
    /\ verdict[t] = "none"
    /\ \A p \in Predecessors(graph, t) : verdict[p] = "completed"
    /\ verdict' = [verdict EXCEPT ![t] = "started"]
    /\ UNCHANGED <<graph, running, abandoned, cancelled>>

CompleteTask(t) ==
    /\ running
    /\ verdict[t] = "started"
    /\ verdict' = [verdict EXCEPT ![t] = "completed"]
    /\ UNCHANGED <<graph, running, abandoned, cancelled>>

(* The failure may end the execution, when the client's callback throws.   *)
FailTask(t) ==
    /\ running
    /\ verdict[t] = "started"
    /\ verdict' = [u \in Tasks |->
           IF u = t THEN "failed"
           ELSE IF verdict[u] = "none" /\ HasPath(graph, t, u) THEN "blocked"
           ELSE verdict[u]]
    /\ running' \in BOOLEAN
    /\ abandoned' = (abandoned \/ ~ running')
    /\ UNCHANGED <<graph, cancelled>>

(* A normal return leaves nothing started, and nothing undecided that does *)
(* not depend on a cancelled task - unless an earlier execution was        *)
(* abandoned: what it left running may make a task look as if it ran.      *)
Return ==
    /\ running
    /\ \A t \in Tasks : verdict[t] # "started"
    /\ \A t \in Tasks : verdict[t] = "none" /\ ~ abandoned =>
           \E c \in Tasks : cancelled[c] /\ HasPath(graph, c, t)
    /\ running' = FALSE
    /\ UNCHANGED <<graph, abandoned, verdict, cancelled>>

(* A started task throws what the scheduler does not catch. *)
Abandon ==
    /\ running
    /\ \E t \in Tasks : verdict[t] = "started"
    /\ running' = FALSE
    /\ abandoned' = TRUE
    /\ UNCHANGED <<graph, verdict, cancelled>>

CancelTask(t) ==
    /\ cancelled' = [cancelled EXCEPT ![t] = TRUE]
    /\ UNCHANGED <<graph, running, abandoned, verdict>>

DagNext ==
    \/ Begin
    \/ \E t \in Tasks : StartTask(t) \/ CompleteTask(t) \/ FailTask(t) \/ CancelTask(t)
    \/ Return
    \/ Abandon

DagSpec == DagInit /\ [][DagNext]_dagVars
==============================================================================
