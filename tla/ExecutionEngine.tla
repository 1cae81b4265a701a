--------------------------- MODULE ExecutionEngine ---------------------------
(***************************************************************************)
(* hts::ExecutionEngine (src/src/core/execution_engine.cpp): the CPU       *)
(* worker pool with its queue, the GPU threads with their streams, and the *)
(* promises they fulfil.  A job is one call of execute_task: a task and    *)
(* the promise made for it.  Jobs are numbered in the order of the calls.  *)
(*                                                                         *)
(* A job goes through these phases:                                        *)
(*   "waiting"   in cpu_task_queue_, or a thread inside acquire_stream()   *)
(*   "holding"   has its worker or stream, may block on func_mutex_        *)
(*   "body"      inside the user's function, holding func_mutex_           *)
(*   "returned"  the function is over and func_mutex_ given back           *)
(*   "marked"    the task's state is stored                                *)
(*   "resolved"  the promise is set                                        *)
(*   "retired"   worker or stream given back, active count decremented     *)
(* Workers are alike, and so are streams: what matters is how many are     *)
(* held.  That a waiting job is noticed at all is the subject of           *)
(* EngineWakeup.tla.                                                       *)
(***************************************************************************)
EXTENDS Task, Naturals, Sequences, FiniteSets

CONSTANTS
    CpuThreads,   \* cpu_thread_count_
    GpuStreams,   \* streams of the stream manager
    Outcomes      \* how a user function may end, a subset of OutcomeKinds

Device == {"CPU", "GPU"}

(* A function returns, throws something derived from std::exception, or    *)
(* throws something else.                                                  *)
OutcomeKinds == {"ok", "std", "other"}

ASSUME EngineAssumption ==
    /\ CpuThreads \in Nat \ {0}
    /\ GpuStreams \in Nat \ {0}
    /\ Outcomes \subseteq OutcomeKinds

VARIABLES
    jobs,      \* the calls of execute_task so far
    cpuQueue,  \* cpu_task_queue_
    active     \* active_cpu_tasks_ and active_gpu_tasks_

engineVars == <<jobs, cpuQueue, active>>

Phase == {"waiting", "holding", "body", "returned", "marked", "resolved", "retired"}

Job == [task : Tasks, device : Device, phase : Phase,
        outcome : OutcomeKinds \cup {"none"}]

JobIds == 1 .. Len(jobs)

EngineTypeOK ==
    /\ TaskTypeOK
    /\ jobs \in Seq(Job)
    /\ cpuQueue \in Seq(JobIds)
    /\ active \in [Device -> Nat]

InPhase(P) == {j \in JobIds : jobs[j].phase \in P}
OnDevice(d) == {j \in JobIds : jobs[j].device = d}
Capacity(d) == IF d = "CPU" THEN CpuThreads ELSE GpuStreams

(* Jobs that hold a worker or a stream *)
Holders(d) == OnDevice(d) \cap InPhase({"holding", "body", "returned", "marked", "resolved"})

(* The future of job j is ready *)
Resolved(j) == jobs[j].phase \in {"resolved", "retired"}

-----------------------------------------------------------------------------
EngineInit ==
    /\ TaskInit
    /\ jobs = <<>>
    /\ cpuQueue = <<>>
    /\ active = [d \in Device |-> 0]

Advance(j, from, to) ==
    /\ jobs[j].phase = from
    /\ jobs' = [jobs EXCEPT ![j].phase = to]

(* execute_task: mark_running, count, and queue the closure or start a     *)
(* thread for it.                                                          *)
ExecuteTask(t, d) ==
    /\ MarkTaskRunning(t)
    /\ active' = [active EXCEPT ![d] = @ + 1]
    /\ jobs' = Append(jobs, [task |-> t, device |-> d, phase |-> "waiting",
                             outcome |-> "none"])
    /\ cpuQueue' = IF d = "CPU" THEN Append(cpuQueue, Len(jobs) + 1) ELSE cpuQueue

(* Plausible bug: the last job queued is taken first. *)
BugTakesLast ==
    /\ cpuQueue # <<>>
    /\ Cardinality(Holders("CPU")) < Capacity("CPU")
    /\ Advance(cpuQueue[Len(cpuQueue)], "waiting", "holding")
    /\ cpuQueue' = SubSeq(cpuQueue, 1, Len(cpuQueue) - 1)
    /\ UNCHANGED <<active, taskVars>>

(* cpu_worker_loop: an idle worker takes the front of the queue. *)
TakeFromQueue ==
    /\ cpuQueue # <<>>
    /\ Cardinality(Holders("CPU")) < Capacity("CPU")
    /\ Advance(Head(cpuQueue), "waiting", "holding")
    /\ cpuQueue' = Tail(cpuQueue)
    /\ UNCHANGED <<active, taskVars>>

(* acquire_stream returns: any of the waiting GPU threads may be next. *)
AcquireStream(j) ==
    /\ j \in OnDevice("GPU")
    /\ Cardinality(Holders("GPU")) < Capacity("GPU")
    /\ Advance(j, "waiting", "holding")
    /\ UNCHANGED <<cpuQueue, active, taskVars>>

(* Task::execute_cpu / execute_gpu: the function runs under func_mutex_, so *)
(* two jobs of one task run one after the other.                           *)
EnterBody(j) ==
    /\ \A i \in InPhase({"body"}) : jobs[i].task # jobs[j].task
    /\ Advance(j, "holding", "body")
    /\ UNCHANGED <<cpuQueue, active, taskVars>>

(* The function is over (a missing function and a failed stream            *)
(* synchronisation throw a std::runtime_error).                            *)
LeaveBody(j) ==
    /\ jobs[j].phase = "body"
    /\ \E o \in Outcomes :
           jobs' = [jobs EXCEPT ![j].phase = "returned", ![j].outcome = o]
    /\ UNCHANGED <<cpuQueue, active, taskVars>>

(* mark_completed() or mark_failed(), without func_mutex_: another job of  *)
(* the task may have been in the function since.                           *)
MarkOutcome(j) ==
    /\ Advance(j, "returned", "marked")
    /\ IF jobs[j].outcome = "ok" THEN MarkTaskCompleted(jobs[j].task)
                                 ELSE MarkTaskFailed(jobs[j].task)
    /\ UNCHANGED <<cpuQueue, active>>

(* promise->set_value() or set_exception() *)
Resolve(j) ==
    /\ Advance(j, "marked", "resolved")
    /\ UNCHANGED <<cpuQueue, active, taskVars>>

(* Plausible bug: a GPU job is counted off the CPU. *)
BugWrongCounter(j) ==
    /\ Advance(j, "resolved", "retired")
    /\ active' = [active EXCEPT !["CPU"] = @ - 1]
    /\ UNCHANGED <<cpuQueue, taskVars>>

(* The stream is released and the active count decremented; only after the *)
(* promise was set.                                                        *)
Retire(j) ==
    /\ Advance(j, "resolved", "retired")
    /\ active' = [active EXCEPT ![jobs[j].device] = @ - 1]
    /\ UNCHANGED <<cpuQueue, taskVars>>

(* A step of the thread that carries job j *)
JobStep(j) ==
    \/ AcquireStream(j)
    \/ EnterBody(j)
    \/ LeaveBody(j)
    \/ MarkOutcome(j)
    \/ Resolve(j)
    \/ Retire(j)

EngineNext ==
    \/ TakeFromQueue
    \/ \E j \in JobIds : JobStep(j)
-----------------------------------------------------------------------------
(* The active counters, updated by the scheduler's thread and by the       *)
(* workers, count the jobs not retired, and so are never taken below zero. *)
(* They count queued jobs too.                                             *)
ActiveExact ==
    \A d \in Device :
        active[d] = Cardinality(OnDevice(d) \ InPhase({"retired"}))

(* CPU jobs start in the order they were handed over, so the order the     *)
(* policy sorted a batch in is the order its CPU tasks start in.           *)
StartsInOrder ==
    \A i, j \in OnDevice("CPU") :
        i < j /\ jobs[i].phase = "waiting" => jobs[j].phase = "waiting"
==============================================================================
