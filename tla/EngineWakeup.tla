---------------------------- MODULE EngineWakeup ----------------------------
(***************************************************************************)
(* How threads sleep and are woken in hts::ExecutionEngine                 *)
(* (src/src/core/execution_engine.cpp): the CPU workers and a caller of    *)
(* wait_all() wait on the one condition variable cpu_cv_ with different    *)
(* predicates; execute_task() wakes one of them, a finished job wakes all  *)
(* without taking cpu_mutex_, and the destructor sets stop_flag_ and wakes *)
(* all.  Jobs are alike here: ExecutionEngine.tla says what they do.       *)
(*                                                                         *)
(* A critical section of cpu_mutex_ is one step, with one exception:       *)
(* wait_all's predicate reads active_cpu_tasks_, which workers change      *)
(* without the mutex, so a step of theirs may come after the predicate was *)
(* found false and before the caller is asleep.  The caller holds the      *)
(* mutex between the two.                                                  *)
(***************************************************************************)
EXTENDS Naturals, FiniteSets

CONSTANTS
    Workers,   \* cpu_workers_
    Waiter,    \* the thread that may call wait_all()
    MaxSubmits \* bound: CPU jobs handed over

ASSUME WakeupAssumption ==
    /\ IsFiniteSet(Workers) /\ Workers # {}
    /\ Waiter \notin Workers
    /\ MaxSubmits \in Nat

VARIABLES
    queued,     \* size of cpu_task_queue_
    active,     \* active_cpu_tasks_
    stop,       \* stop_flag_
    asleep,     \* threads blocked inside cpu_cv_.wait
    worker,     \* where each worker is
    client,     \* where the thread that calls execute_task, then the destructor, is
    waiter,     \* where the thread that may call wait_all is
    submits     \* jobs handed over

wakeVars == <<queued, active, stop, asleep, worker, client, waiter, submits>>

WakeTypeOK ==
    /\ queued \in 0 .. MaxSubmits
    /\ active \in 0 .. MaxSubmits
    /\ stop \in BOOLEAN
    /\ asleep \subseteq Workers \cup {Waiter}
    /\ worker \in [Workers -> {"test", "run", "notify", "exit"}]
    /\ client \in {"ready", "counted", "pushed", "stopping", "joining"}
    /\ waiter \in {"absent", "outside", "test", "holding", "returned"}
    /\ submits \in 0 .. MaxSubmits

MutexFree == waiter # "holding"
Awake(t) == t \notin asleep
-----------------------------------------------------------------------------
WakeInit ==
    /\ queued = 0
    /\ active = 0
    /\ stop = FALSE
    /\ asleep = {}
    /\ worker = [w \in Workers |-> "test"]
    /\ client = "ready"
    /\ waiter \in {"absent", "outside"}
    /\ submits = 0

(* execute_task: count the job, push it under the mutex, wake one sleeper. *)
CountJob ==
    /\ client = "ready"
    /\ submits < MaxSubmits
    /\ active' = active + 1
    /\ submits' = submits + 1
    /\ client' = "counted"
    /\ UNCHANGED <<queued, stop, asleep, worker, waiter>>

PushJob ==
    /\ client = "counted"
    /\ MutexFree
    /\ queued' = queued + 1
    /\ client' = "pushed"
    /\ UNCHANGED <<active, stop, asleep, worker, waiter, submits>>

(* A mutant: the push notifies nobody. *)
BugNotifiesNobody ==
    /\ client = "pushed"
    /\ client' = "ready"
    /\ UNCHANGED <<queued, active, stop, asleep, worker, waiter, submits>>

(* notify_one(): some sleeper, whoever it is, or nobody if none sleeps.    *)
WakeOne ==
    /\ client = "pushed"
    /\ \/ asleep = {} /\ UNCHANGED asleep
       \/ \E t \in asleep : asleep' = asleep \ {t}
    /\ client' = "ready"
    /\ UNCHANGED <<queued, active, stop, worker, waiter, submits>>

(* ~ExecutionEngine: stop_flag_ under the mutex, then notify_all.  No call *)
(* of a method may overlap it.                                             *)
SetStop ==
    /\ client = "ready"
    /\ waiter \notin {"test", "holding"}
    /\ stop' = TRUE
    /\ client' = "stopping"
    /\ UNCHANGED <<queued, active, asleep, worker, waiter, submits>>

(* A mutant: notify_one() in the destructor. *)
BugStopWakesOne ==
    /\ client = "stopping"
    /\ \/ asleep = {} /\ UNCHANGED asleep
       \/ \E t \in asleep : asleep' = asleep \ {t}
    /\ client' = "joining"
    /\ UNCHANGED <<queued, active, stop, worker, waiter, submits>>

WakeToStop ==
    /\ client = "stopping"
    /\ asleep' = {}
    /\ client' = "joining"
    /\ UNCHANGED <<queued, active, stop, worker, waiter, submits>>

(* Mutants of the loop: front() of a queue that only stop_flag_ let past   *)
(* the wait, a return that forgets the queue, a wait without predicate.    *)
BugTakesWhenStopped(w) ==
    /\ worker[w] = "test" /\ Awake(w) /\ MutexFree
    /\ queued > 0 \/ stop
    /\ queued' = queued - 1
    /\ worker' = [worker EXCEPT ![w] = "run"]
    /\ UNCHANGED <<active, stop, asleep, client, waiter, submits>>

BugLeavesQueue(w) ==
    /\ worker[w] = "test" /\ Awake(w) /\ MutexFree
    /\ stop
    /\ worker' = [worker EXCEPT ![w] = "exit"]
    /\ UNCHANGED <<queued, active, stop, asleep, client, waiter, submits>>

(* cpu_worker_loop under the mutex: take a job, leave, or go to sleep.     *)
TakeJob(w) ==
    /\ worker[w] = "test" /\ Awake(w) /\ MutexFree
    /\ queued > 0
    /\ queued' = queued - 1
    /\ worker' = [worker EXCEPT ![w] = "run"]
    /\ UNCHANGED <<active, stop, asleep, client, waiter, submits>>

ExitLoop(w) ==
    /\ worker[w] = "test" /\ Awake(w) /\ MutexFree
    /\ queued = 0 /\ stop
    /\ worker' = [worker EXCEPT ![w] = "exit"]
    /\ UNCHANGED <<queued, active, stop, asleep, client, waiter, submits>>

Sleep(w) ==
    /\ worker[w] = "test" /\ Awake(w) /\ MutexFree
    /\ queued = 0 /\ ~ stop
    /\ asleep' = asleep \cup {w}
    /\ UNCHANGED <<queued, active, stop, worker, client, waiter, submits>>

(* A mutant: a job that ends is not counted out. *)
BugNotCountedOut(w) ==
    /\ worker[w] = "run"
    /\ worker' = [worker EXCEPT ![w] = "notify"]
    /\ UNCHANGED <<queued, active, stop, asleep, client, waiter, submits>>

(* The end of execute_on_cpu: decrement, then notify_all, without the      *)
(* mutex.                                                                  *)
FinishJob(w) ==
    /\ worker[w] = "run"
    /\ active' = active - 1
    /\ worker' = [worker EXCEPT ![w] = "notify"]
    /\ UNCHANGED <<queued, stop, asleep, client, waiter, submits>>

WakeAll(w) ==
    /\ worker[w] = "notify"
    /\ asleep' = {}
    /\ worker' = [worker EXCEPT ![w] = "test"]
    /\ UNCHANGED <<queued, active, stop, client, waiter, submits>>

(* wait_all(): call, test the predicate, return or go to sleep.            *)
CallWaitAll ==
    /\ waiter = "outside"
    /\ ~ stop
    /\ waiter' = "test"
    /\ UNCHANGED <<queued, active, stop, asleep, worker, client, submits>>

ReturnFromWaitAll ==
    /\ waiter = "test" /\ Awake(Waiter)
    /\ queued = 0 /\ active = 0
    /\ waiter' = "returned"
    /\ UNCHANGED <<queued, active, stop, asleep, worker, client, submits>>

FindBusy ==
    /\ waiter = "test" /\ Awake(Waiter)
    /\ queued > 0 \/ active > 0
    /\ waiter' = "holding"
    /\ UNCHANGED <<queued, active, stop, asleep, worker, client, submits>>

BlockInWaitAll ==
    /\ waiter = "holding"
    /\ asleep' = asleep \cup {Waiter}
    /\ waiter' = "test"
    /\ UNCHANGED <<queued, active, stop, worker, client, submits>>

(* A condition variable may wake a thread that nobody notified. *)
SpuriousWakeup ==
    /\ \E t \in asleep : asleep' = asleep \ {t}
    /\ UNCHANGED <<queued, active, stop, worker, client, waiter, submits>>

WorkerStep(w) == TakeJob(w) \/ ExitLoop(w) \/ Sleep(w) \/ FinishJob(w) \/ WakeAll(w)
WaiterStep == ReturnFromWaitAll \/ FindBusy \/ BlockInWaitAll
Submit == CountJob \/ PushJob \/ WakeOne
Destroy == SetStop \/ WakeToStop

(* All workers joined: nothing is left to do. *)
Joined ==
    /\ client = "joining"
    /\ \A w \in Workers : worker[w] = "exit"
    /\ UNCHANGED wakeVars

WakeNext ==
    \/ Submit
    \/ Destroy
    \/ \E w \in Workers : WorkerStep(w)
    \/ CallWaitAll
    \/ WaiterStep
    \/ SpuriousWakeup
    \/ Joined

(* Threads run on, and get a mutex that is free; the client finishes the   *)
(* call it is in, but need not submit or destroy; nothing promises a       *)
(* spurious wakeup.                                                        *)
WakeSpec ==
    /\ WakeInit /\ [][WakeNext]_wakeVars
    /\ WF_wakeVars(PushJob) /\ WF_wakeVars(WakeOne) /\ WF_wakeVars(WakeToStop)
    /\ \A w \in Workers : WF_wakeVars(WorkerStep(w))
    /\ WF_wakeVars(WaiterStep)
-----------------------------------------------------------------------------
(* Without a caller of wait_all: while a job is queued and no push is      *)
(* about to notify, some worker is awake, so none is left behind.          *)
NoLostWakeup ==
    waiter = "absent" /\ queued > 0 /\ client # "pushed" =>
        \E w \in Workers : Awake(w) /\ worker[w] # "exit"

(* The count covers every job that is counted, queued or running: when it  *)
(* is zero there is nothing to wait for.                                   *)
ActiveCovers ==
    active = queued + Cardinality({w \in Workers : worker[w] = "run"})
                    + (IF client = "counted" THEN 1 ELSE 0)

(* The destructor leaves no job behind: a worker leaves its loop only with *)
(* the queue empty for good.                                               *)
ShutdownDrains ==
    (\E w \in Workers : worker[w] = "exit") => queued = 0 /\ stop

(* Without a caller of wait_all, queued jobs are taken and the destructor  *)
(* joins every worker.                                                     *)
JobsAreTaken ==
    [](waiter = "absent") => (queued > 0 ~> queued = 0)
WorkersJoin ==
    [](waiter = "absent") => (stop ~> \A w \in Workers : worker[w] = "exit")

(* The workers make progress on both accounts. *)
EngineLive == JobsAreTaken /\ WorkersJoin

(* A call of wait_all returns once the jobs are done; the code does not    *)
(* guarantee it.                                                           *)
WaitAllReturns == waiter = "test" ~> waiter = "returned"
==============================================================================
