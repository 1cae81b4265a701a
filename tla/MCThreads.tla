----------------------------- MODULE MCThreads -----------------------------
(* The components whose threads wait for each other, one at a time: a      *)
(* behaviour is that of the component in focus, the others stand in their  *)
(* first states.  They share no state in the code, and neither do the byte *)
(* budget of the limiter and its slots and task count.                     *)
EXTENDS EngineWakeup, ResourceLimiter, TaskBarrier, StreamManager, TaskFuture

VARIABLE focus

(* Two slots for the CPU, no limit for the GPU. *)
MCSlots == [d \in Devices |-> IF d = "cpu" THEN 2 ELSE 0]

threadVars == <<wakeVars, limiterVars, barrierVars, streamVars, futureVars>>

(* What varies in the first states of a component is fixed for the others. *)
MCInit ==
    /\ focus \in {"engine", "limiter", "budget", "barrier", "streams", "future"}
    /\ WakeInit /\ LimiterInit /\ BarrierInit /\ StreamInit /\ FutureInit
    /\ focus # "engine" => waiter = "absent"
    /\ focus # "barrier" => listed = <<>>
    /\ focus # "streams" => build = "cpu"

InEngine == focus = "engine"
InBarrier == focus = "barrier"
InFuture == focus = "future"

MCNext ==
    /\ \/ InEngine /\ WakeNext /\ UNCHANGED <<limiterVars, barrierVars, streamVars, futureVars>>
       \/ focus = "limiter" /\ LimiterNext /\ UNCHANGED BudgetVars
              /\ UNCHANGED <<wakeVars, barrierVars, streamVars, futureVars>>
       \/ focus = "budget" /\ LimiterNext /\ UNCHANGED <<SlotVars, TaskVars>>
              /\ UNCHANGED <<wakeVars, barrierVars, streamVars, futureVars>>
       \/ InBarrier /\ BarrierNext /\ UNCHANGED <<wakeVars, limiterVars, streamVars, futureVars>>
       \/ focus = "streams" /\ StreamNext
              /\ UNCHANGED <<wakeVars, limiterVars, barrierVars, futureVars>>
       \/ InFuture /\ FutureNext /\ UNCHANGED <<wakeVars, limiterVars, barrierVars, streamVars>>
    /\ UNCHANGED focus

(* The fairness of WakeSpec, BarrierSpec and FutureSpec, each where its    *)
(* component is in focus.                                                  *)
MCSpec ==
    /\ MCInit /\ [][MCNext]_<<threadVars, focus>>
    /\ WF_wakeVars(InEngine /\ PushJob)
    /\ WF_wakeVars(InEngine /\ WakeOne)
    /\ WF_wakeVars(InEngine /\ WakeToStop)
    /\ WF_wakeVars(InEngine /\ WaiterStep)
    /\ \A w \in Workers : WF_wakeVars(InEngine /\ WorkerStep(w))
    /\ WF_barrierVars(InBarrier /\ NotifyAll)
    /\ \A w \in Waiters : WF_barrierVars(InBarrier /\ GoOn(w))
    /\ \A r \in Readers : WF_futureVars(InFuture /\ (WakeUp(r) \/ TakeAnswer(r)))

ThreadTypesOK ==
    WakeTypeOK /\ LimiterTypeOK /\ BarrierTypeOK /\ StreamTypeOK /\ FutureTypeOK
==============================================================================
