-------------------------- MODULE SchedulingPolicy --------------------------
(***************************************************************************)
(* hts::SchedulingPolicy and the five policies of                          *)
(* src/src/core/scheduling_policy.cpp, as execute_internal uses them: the  *)
(* tasks that became ready are put in order, and each in turn is given a   *)
(* device by its functions, its wish and the engine's two loads, of which  *)
(* only the comparison matters.  std::sort is not stable: tasks that the   *)
(* comparator does not order come in any order.                            *)
(***************************************************************************)
EXTENDS Naturals, Sequences, FiniteSets

CONSTANTS
    PolicyTasks,   \* tasks of a batch
    Priorities     \* TaskPriority values considered

ASSUME PolicyAssumption == IsFiniteSet(PolicyTasks) /\ Priorities \subseteq Nat

VARIABLES
    policy,     \* which policy is set
    useGpu,     \* use_gpu_ of a RoundRobinPolicy
    profile,    \* what the policies look at of each task
    queue,      \* the batch, in order, that is not yet dispatched
    sent        \* the devices chosen in this batch

policyVars == <<policy, useGpu, profile, queue, sent>>

Policies == {"Default", "GPU-First", "CPU-First", "Round-Robin", "Shortest-Job-First"}
Profile == [preferred : {"CPU", "GPU", "Any"}, cpu : BOOLEAN, gpu : BOOLEAN,
            priority : Priorities]
Has(t, d) == IF d = "GPU" THEN t.gpu ELSE t.cpu

PolicyTypeOK ==
    /\ policy \in Policies
    /\ useGpu \in BOOLEAN
    /\ profile \in [PolicyTasks -> Profile]
    /\ queue \in Seq(PolicyTasks)
    /\ sent \subseteq [task : PolicyTasks, device : {"CPU", "GPU"}]

PolicyInit ==
    /\ policy \in Policies
    /\ useGpu = FALSE
    /\ profile \in [PolicyTasks -> Profile]
    /\ queue = <<>>
    /\ sent = {}
-----------------------------------------------------------------------------
(* The comparators: a comes before b under a policy that takes the tasks   *)
(* of device d first, and under one that does not care.                    *)
Wants(t, d) == t.preferred = d \/ (t.preferred = "Any" /\ Has(t, d))
Urgent(a, b) == a.priority > b.priority
DeviceFirst(d, a, b) ==
    \/ Wants(a, d) /\ ~ Wants(b, d)
    \/ Wants(a, d) = Wants(b, d) /\ Urgent(a, b)

Before(p, a, b) ==
    CASE p = "GPU-First" -> DeviceFirst("GPU", a, b)
      [] p = "CPU-First" -> DeviceFirst("CPU", a, b)
      [] OTHER           -> Urgent(a, b)

(* select_device of DefaultSchedulingPolicy and ShortestJobFirstPolicy *)
Balanced(t, gpuIdler) ==
    IF t.preferred # "Any" THEN t.preferred
    ELSE IF t.gpu /\ (gpuIdler \/ ~ t.cpu) THEN "GPU" ELSE "CPU"

GpuFirst(t) == IF t.gpu /\ t.preferred # "CPU" THEN "GPU" ELSE "CPU"
CpuFirst(t) == IF t.cpu /\ t.preferred # "GPU" THEN "CPU" ELSE "GPU"

(* Plausible bug: the task is sent where the turn is. *)
BugTurnDecides(t, turn) ==
    IF t.preferred # "Any" THEN t.preferred ELSE IF turn THEN "GPU" ELSE "CPU"

RoundRobin(t, turn) ==
    IF t.preferred # "Any" THEN t.preferred
    ELSE IF t.gpu /\ (turn \/ ~ t.cpu) THEN "GPU" ELSE "CPU"

(* Scheduler::select_device; turn is use_gpu_ after it was flipped. *)
SelectDevice(t, gpuIdler, turn) ==
    CASE policy = "GPU-First"   -> GpuFirst(t)
      [] policy = "CPU-First"   -> CpuFirst(t)
      [] policy = "Round-Robin" -> RoundRobin(t, turn)
      [] OTHER                  -> Balanced(t, gpuIdler)

(* prioritize *)
Sorted(s) ==
    \A i, j \in DOMAIN s : i < j => ~ Before(policy, profile[s[j]], profile[s[i]])

Prioritize ==
    /\ queue = <<>> /\ sent = {}
    /\ queue' \in {s \in [1 .. Cardinality(PolicyTasks) -> PolicyTasks] :
                       /\ \A i, j \in DOMAIN s : s[i] = s[j] => i = j
                       /\ Sorted(s)}
    /\ UNCHANGED <<policy, useGpu, profile, sent>>

SendNext(gpuIdler) ==
    /\ queue # <<>>
    /\ LET t == profile[Head(queue)]
           flips == policy = "Round-Robin" /\ t.preferred = "Any"
       IN  /\ useGpu' = IF flips THEN ~ useGpu ELSE useGpu
           /\ sent' = sent \cup {[task |-> Head(queue),
                                  device |-> SelectDevice(t, gpuIdler, useGpu')]}
    /\ queue' = Tail(queue)
    /\ UNCHANGED <<policy, profile>>

(* The batch was handed over; the next one may be under another policy,    *)
(* which is a new object.                                                  *)
NextBatch(p) ==
    /\ queue = <<>> /\ sent # {}
    /\ policy' = p
    /\ useGpu' = (IF p = policy THEN useGpu ELSE FALSE)
    /\ sent' = {}
    /\ UNCHANGED <<profile, queue>>

PolicyNext ==
    \/ Prioritize
    \/ \E gpuIdler \in BOOLEAN : SendNext(gpuIdler)
    \/ \E p \in Policies : NextBatch(p)

PolicySpec == PolicyInit /\ [][PolicyNext]_policyVars
-----------------------------------------------------------------------------
(* A task that has a function for some device is not sent to the other     *)
(* one, where ExecutionEngine's worker would throw, unless it asked for    *)
(* it: whatever the policy, the loads and whose turn it is.                *)
DeviceFits ==
    \A s \in sent :
        LET t == profile[s.task]
        IN  Has(t, s.device) \/ t.preferred = s.device \/ ~ (t.cpu \/ t.gpu)
==============================================================================
