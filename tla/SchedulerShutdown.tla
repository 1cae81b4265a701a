-------------------------- MODULE SchedulerShutdown --------------------------
(***************************************************************************)
(* The life of a hts::Scheduler around its executions                      *)
(* (src/src/core/scheduler.cpp): execute_async starts a thread for each    *)
(* call, execution_mutex_ lets one of them in at a time, and ~Scheduler    *)
(* looks at executing_ once before the members are destroyed.  executing_  *)
(* is set while execute_internal runs, from where the mutex is held and    *)
(* the graph was validated: where pc is not "idle".                        *)
(*                                                                         *)
(* A client may keep the futures of execute_async longer than the          *)
(* scheduler; only the destructor then stands between the two.  Nothing is *)
(* said of what happens to an execution once the members are gone.         *)
(***************************************************************************)
EXTENDS Scheduler

VARIABLES
    asked,   \* threads of execute_async that are not in execute_internal yet
    life     \* "alive", the destructor in wait_all ("cpu", "gpu"), "gone"

lifeVars == <<asked, life>>

LifeInit == Init /\ asked = 0 /\ life = "alive"

(* execute_async: a thread of its own, the loop of which comes later. *)
ExecuteAsync ==
    /\ life = "alive"
    /\ runs + asked < MaxRuns
    /\ asked' = asked + 1
    /\ UNCHANGED <<vars, life>>

(* One of the threads gets the mutex and sets executing_. *)
EnterExecution ==
    /\ life # "gone" /\ asked > 0
    /\ Start
    /\ asked' = asked - 1
    /\ UNCHANGED life

RunOn ==
    /\ life # "gone"
    /\ Loop \/ EngineStep \/ ClientCancels
    /\ UNCHANGED lifeVars

(* ~Scheduler: waits for the engine if executing_ is set when it looks. *)
Destruct ==
    /\ life = "alive"
    /\ life' = IF pc = "idle" THEN "gone" ELSE "cpu"
    /\ UNCHANGED <<vars, asked>>

(* wait_all, in its two parts; then the members are destroyed. *)
CpuIsQuiet ==
    /\ life = "cpu"
    /\ cpuQueue = <<>> /\ active["CPU"] = 0
    /\ life' = "gpu"
    /\ UNCHANGED <<vars, asked>>

GpuIsQuiet ==
    /\ life = "gpu"
    /\ \A j \in OnDevice("GPU") : jobs[j].phase = "retired"
    /\ life' = "gone"
    /\ UNCHANGED <<vars, asked>>

LifeNext == ExecuteAsync \/ EnterExecution \/ RunOn \/ Destruct \/ CpuIsQuiet \/ GpuIsQuiet

LifeSpec == LifeInit /\ [][LifeNext]_<<vars, lifeVars>>
-----------------------------------------------------------------------------
(* When the members are destroyed no execution that had begun is still     *)
(* using them: the graceful shutdown scheduler.hpp promises of the         *)
(* destructor.                                                             *)
GracefulShutdown == life = "gone" => pc = "idle"
==============================================================================
