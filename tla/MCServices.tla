----------------------------- MODULE MCServices -----------------------------
(* The components that nothing waits for, one at a time: a behaviour is    *)
(* that of the component in focus, the others stand in their first states. *)
(* They share no state in the code, but for the event system a profiler    *)
(* listens to.                                                             *)
EXTENDS MemoryPool, CpuMemoryPool, Profiler, SchedulingPolicy, RetryPolicy, CudaBuffers

CONSTANTS
    Heard,         \* types subscribed to where the event system is in focus
    MaxHandlers    \* bound on the subscriptions there

VARIABLE focus

eventTypes == {"GraphStarted", "GraphCompleted", "TaskStarted", "TaskCompleted",
               "TaskFailed", "MemoryAllocated", "MemoryFreed"}
serviceVars == <<poolVars, cpuPoolVars, eventVars, profilerVars, policyVars, retryVars, bufferVars>>

Services == {"pool", "cpuPool", "events", "profiler", "policy", "retry", "buffers"}

(* What varies in the first states of a component is fixed for the others. *)
MCInit ==
    /\ focus \in Services
    /\ PoolInit
    /\ ProfilerInit
    /\ \/ focus = "cpuPool"
       \/ focus # "cpuPool" /\ size = 2 /\ total = 2
    /\ CpuPoolInit
    /\ \/ focus = "policy"
       \/ /\ focus # "policy"
          /\ policy = "Default"
          /\ profile = [t \in PolicyTasks |-> [preferred |-> "Any", cpu |-> TRUE,
                                               gpu |-> TRUE, priority |-> 0]]
    /\ PolicyInit
    /\ \/ focus = "retry"
       \/ focus # "retry" /\ retryPolicy = [kind |-> "none", conditional |-> FALSE]
    /\ RetryInit
    /\ \/ focus = "buffers"
       \/ focus # "buffers" /\ kindOf = [w \in Wrappers |-> "device"]
    /\ BufferInit

(* Few handlers, of few types, and in one system only. *)
FewHandlers ==
    \A s \in Systems : /\ nextId[s] <= (IF s = Home THEN MaxHandlers ELSE 0) + 1
                       /\ \A h \in handlers[s] : h.type \in Heard \cup {AllTypes}

MCNext ==
    /\ \/ focus = "pool" /\ PoolNext
              /\ UNCHANGED <<cpuPoolVars, eventVars, profilerVars, policyVars, retryVars, bufferVars>>
       \/ focus = "cpuPool" /\ CpuPoolNext
              /\ UNCHANGED <<poolVars, eventVars, profilerVars, policyVars, retryVars, bufferVars>>
       \/ focus = "events" /\ EventNext /\ FewHandlers'
              /\ UNCHANGED <<poolVars, cpuPoolVars, profilerVars, policyVars, retryVars, bufferVars>>
       \/ focus = "profiler" /\ ProfilerNext
              /\ UNCHANGED <<poolVars, cpuPoolVars, policyVars, retryVars, bufferVars>>
       \/ focus = "policy" /\ PolicyNext
              /\ UNCHANGED <<poolVars, cpuPoolVars, eventVars, profilerVars, retryVars, bufferVars>>
       \/ focus = "retry" /\ RetryNext
              /\ UNCHANGED <<poolVars, cpuPoolVars, eventVars, profilerVars, policyVars, bufferVars>>
       \/ focus = "buffers" /\ BufferNext
              /\ UNCHANGED <<poolVars, cpuPoolVars, eventVars, profilerVars, policyVars, retryVars>>
    /\ UNCHANGED focus

MCSpec == MCInit /\ [][MCNext]_<<serviceVars, focus>>

ServiceTypesOK ==
    /\ PoolTypeOK /\ CpuPoolTypeOK /\ EventTypeOK /\ ProfilerTypeOK
    /\ PolicyTypeOK /\ RetryTypeOK /\ BufferTypeOK
==============================================================================
