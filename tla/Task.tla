-------------------------------- MODULE Task --------------------------------
(***************************************************************************)
(* The runtime state of hts::Task (src/src/core/task.cpp).  Each mark_     *)
(* method takes runtime_mutex_ and stores a state whatever the state was   *)
(* before; nothing in src/ looks at the old value.  The actions that mark  *)
(* several tasks stand for the loops that mark them one by one.            *)
(***************************************************************************)
CONSTANT Tasks   \* the tasks of the graph

VARIABLES
    state,      \* runtime_state_.state
    cancelled   \* runtime_state_.cancelled

taskVars == <<state, cancelled>>

TaskState == {"Pending", "Ready", "Running", "Completed", "Failed",
              "Blocked", "Cancelled"}

TaskTypeOK ==
    /\ state \in [Tasks -> TaskState]
    /\ cancelled \in [Tasks -> BOOLEAN]

TaskInit ==
    /\ state = [t \in Tasks |-> "Pending"]
    /\ cancelled = [t \in Tasks |-> FALSE]

Mark(S, s) ==
    /\ state' = [t \in Tasks |-> IF t \in S THEN s ELSE state[t]]
    /\ UNCHANGED cancelled

MarkTasksReady(S) == Mark(S, "Ready")
MarkTaskRunning(t) == Mark({t}, "Running")
MarkTaskCompleted(t) == Mark({t}, "Completed")
MarkTaskFailed(t) == Mark({t}, "Failed")
MarkTasksBlocked(S) == Mark(S, "Blocked")

(* cancel(): mark_cancelled() *)
Cancel(t) ==
    /\ state' = [state EXCEPT ![t] = "Cancelled"]
    /\ cancelled' = [cancelled EXCEPT ![t] = TRUE]
==============================================================================
