--------------------------- MODULE ResourceLimiter ---------------------------
(***************************************************************************)
(* hts::Semaphore, its guards and hts::ResourceLimiter                     *)
(* (src/include/hts/resource_limiter.hpp).  A semaphore's methods hold its *)
(* mutex, so each is one step; what interleaves is who is woken, who gets  *)
(* the permit first, and the calls that are two: can_add_task and then     *)
(* add_task.  A caller that waits is the guard it is constructing:         *)
(* SemaphoreGuard and ResourceSlotGuard acquire in their constructors (a   *)
(* caller of try_acquire_for is shown as one, too).                        *)
(*                                                                         *)
(* Clients give back what they took and nothing else: release(),           *)
(* free_memory() and remove_task() do not look (a release too many raises  *)
(* the limit for good).  They ask for any size, one whose sum with the     *)
(* bytes in use does not fit size_t included.  A limit of 0 means          *)
(* unlimited, and the semaphore stands aside.                              *)
(***************************************************************************)
EXTENDS Integers, FiniteSetsExt

CONSTANTS
    Devices,       \* the device kinds with a semaphore
    SlotLimit,     \* max_concurrent_cpu_tasks, max_concurrent_gpu_tasks
    Guards,        \* guard objects
    MemoryLimit,   \* max_memory_bytes; the GPU's budget is the same code
    Requests,      \* arguments of try_allocate_memory
    MaxGrants,     \* bound: grants of one size not yet freed
    SizeBits,      \* width of size_t
    TotalLimit,    \* max_total_tasks
    Adders         \* threads that ask can_add_task and then call add_task

Unlimited == 1000000   \* the count of a semaphore nobody asked for

ASSUME LimiterAssumption ==
    /\ Devices # {} /\ SlotLimit \in [Devices -> Nat]
    /\ SizeBits \in Nat
    /\ MemoryLimit \in 1 .. 2 ^ SizeBits - 1
    /\ TotalLimit \in 1 .. 2 ^ SizeBits - 1
    /\ IsFiniteSet(Guards) /\ IsFiniteSet(Adders)
    /\ Cardinality(Adders) < 2 ^ SizeBits
    /\ Requests \subseteq 0 .. 2 ^ SizeBits - 1
    /\ MaxGrants \in Nat

VARIABLES
    permits,     \* count_ of each semaphore
    guard,       \* phase and device of each guard object
    taken,       \* slots a client holds by acquire_*_slot, without a guard
    memory,      \* current_memory_
    grants,      \* the sizes granted and not yet freed, with their owners
    wrapped,     \* history: a request was granted by a sum that did not fit
    totalTasks,  \* total_tasks_
    adder        \* where each adder is: outside, allowed, or with its task in

limiterVars == <<permits, guard, taken, memory, grants, wrapped, totalTasks, adder>>

(* A guard that is moved from stays an object: "spent". *)
Phases == {"none", "asleep", "woken", "armed", "spent"}
NoGuard == [phase |-> "none", device |-> CHOOSE d \in Devices : TRUE]
In(phase, d) == {g \in Guards : guard[g].phase = phase /\ guard[g].device = d}
Limited(d) == SlotLimit[d] > 0

LimiterTypeOK ==
    /\ permits \in [Devices -> Nat]
    /\ guard \in [Guards -> [phase : Phases, device : Devices]]
    /\ taken \in [Devices -> Nat]
    /\ memory \in 0 .. 2 ^ SizeBits - 1
    /\ grants \in [Requests -> 0 .. MaxGrants]
    /\ wrapped \in BOOLEAN
    /\ totalTasks \in 0 .. 2 ^ SizeBits - 1
    /\ adder \in [Adders -> {"outside", "allowed", "added"}]

LimiterInit ==
    /\ permits = [d \in Devices |-> IF Limited(d) THEN SlotLimit[d] ELSE Unlimited]
    /\ guard = [g \in Guards |-> NoGuard]
    /\ taken = [d \in Devices |-> 0]
    /\ memory = 0
    /\ grants = [r \in Requests |-> 0]
    /\ wrapped = FALSE
    /\ totalTasks = 0
    /\ adder = [a \in Adders |-> "outside"]
-----------------------------------------------------------------------------
SlotVars == <<permits, guard, taken>>
BudgetVars == <<memory, grants, wrapped>>
TaskVars == <<totalTasks, adder>>

(* The constructor of a guard finds a permit, or none to be had ... *)
AcquireAtOnce(g, d) ==
    /\ guard[g].phase = "none"
    /\ permits[d] > 0
    /\ permits' = [permits EXCEPT ![d] = IF Limited(d) THEN @ - 1 ELSE @]
    /\ guard' = [guard EXCEPT ![g] = [phase |-> "armed", device |-> d]]
    /\ UNCHANGED <<taken, BudgetVars, TaskVars>>

(* ... and then sleeps on the condition variable. *)
SleepForPermit(g, d) ==
    /\ guard[g].phase = "none"
    /\ permits[d] = 0
    /\ guard' = [guard EXCEPT ![g] = [phase |-> "asleep", device |-> d]]
    /\ UNCHANGED <<permits, taken, BudgetVars, TaskVars>>

(* The predicate of wait, evaluated again by one that woke: notified, or   *)
(* for no reason.  Somebody else may have had the permit since.            *)
Reacquire(g) ==
    /\ guard[g].phase \in {"asleep", "woken"}
    /\ LET d == guard[g].device
       IN  \/ /\ permits[d] > 0
              /\ permits' = [permits EXCEPT ![d] = @ - 1]
              /\ guard' = [guard EXCEPT ![g].phase = "armed"]
           \/ /\ permits[d] = 0
              /\ guard' = [guard EXCEPT ![g].phase = "asleep"]
              /\ UNCHANGED permits
    /\ UNCHANGED <<taken, BudgetVars, TaskVars>>

(* try_acquire_for: the time is over.  wait_for looks a last time, and a   *)
(* permit that is there is taken.                                          *)
TimeOut(g) ==
    /\ guard[g].phase \in {"asleep", "woken"}
    /\ permits[guard[g].device] = 0
    /\ guard' = [guard EXCEPT ![g] = NoGuard]
    /\ UNCHANGED <<permits, taken, BudgetVars, TaskVars>>

(* Plausible bug: the permit is given back and nobody is told. *)
BugTellsNobody(d, guards) ==
    /\ permits' = [permits EXCEPT ![d] = IF Limited(d) THEN @ + 1 ELSE @]
    /\ guard' = guards

(* Semaphore::release: one more permit, and one of the sleepers is woken.  *)
Release(d, guards) ==
    /\ permits' = [permits EXCEPT ![d] = IF Limited(d) THEN @ + 1 ELSE @]
    /\ LET sleepers == {h \in In("asleep", d) : guards[h].phase = "asleep"}
       IN  \/ Limited(d) /\ \E h \in sleepers :
                  guard' = [guards EXCEPT ![h].phase = "woken"]
           \/ (~ Limited(d) \/ sleepers = {}) /\ guard' = guards

(* The destructor of a guard; one that was moved from has nothing to give. *)
DestroyGuard(g) ==
    /\ \/ /\ guard[g].phase = "armed"
          /\ Release(guard[g].device, [guard EXCEPT ![g] = NoGuard])
       \/ /\ guard[g].phase = "spent"
          /\ guard' = [guard EXCEPT ![g] = NoGuard]
          /\ UNCHANGED permits
    /\ UNCHANGED <<taken, BudgetVars, TaskVars>>

(* Plausible bug: the moved-from guard still believes it holds the slot. *)
BugMoveCopies(g, h) ==
    /\ guard[g].phase = "armed" /\ guard[h].phase = "none"
    /\ guard' = [guard EXCEPT ![h] = guard[g]]
    /\ UNCHANGED <<permits, taken, BudgetVars, TaskVars>>

(* The move constructor makes guard h out of g. *)
MoveGuard(g, h) ==
    /\ guard[g].phase = "armed" /\ guard[h].phase = "none"
    /\ guard' = [guard EXCEPT ![h] = guard[g], ![g].phase = "spent"]
    /\ UNCHANGED <<permits, taken, BudgetVars, TaskVars>>

(* acquire_cpu_slot and acquire_gpu_slot do not wait. *)
TrySlot(d) ==
    /\ Limited(d) /\ permits[d] > 0
    /\ permits' = [permits EXCEPT ![d] = @ - 1]
    /\ taken' = [taken EXCEPT ![d] = @ + 1]
    /\ UNCHANGED <<guard, BudgetVars, TaskVars>>

ReleaseSlot(d) ==
    /\ taken[d] > 0
    /\ Release(d, guard)
    /\ taken' = [taken EXCEPT ![d] = @ - 1]
    /\ UNCHANGED <<BudgetVars, TaskVars>>
-----------------------------------------------------------------------------
(* try_allocate_memory, granted; the sum is one of size_t, and a request   *)
(* large enough to wrap it is granted too.  A refusal changes nothing.     *)
TryAllocate(bytes) ==
    /\ grants[bytes] < MaxGrants
    /\ (memory + bytes) % 2 ^ SizeBits <= MemoryLimit
    /\ memory' = (memory + bytes) % 2 ^ SizeBits
    /\ grants' = [grants EXCEPT ![bytes] = @ + 1]
    /\ wrapped' = (wrapped \/ memory + bytes >= 2 ^ SizeBits)
    /\ UNCHANGED <<SlotVars, TaskVars>>

FreeMemory(bytes) ==
    /\ grants[bytes] > 0
    /\ memory' = IF bytes > memory THEN 0 ELSE memory - bytes
    /\ grants' = [grants EXCEPT ![bytes] = @ - 1]
    /\ UNCHANGED <<wrapped, SlotVars, TaskVars>>

(* can_add_task() answers true. *)
CanAddTask(a) ==
    /\ adder[a] = "outside"
    /\ totalTasks < TotalLimit
    /\ adder' = [adder EXCEPT ![a] = "allowed"]
    /\ UNCHANGED <<SlotVars, BudgetVars, totalTasks>>

AddTaskCount(a) ==
    /\ adder[a] = "allowed"
    /\ totalTasks' = (totalTasks + 1) % 2 ^ SizeBits
    /\ adder' = [adder EXCEPT ![a] = "added"]
    /\ UNCHANGED <<SlotVars, BudgetVars>>

RemoveTaskCount(a) ==
    /\ adder[a] = "added"
    /\ totalTasks' = (totalTasks - 1) % 2 ^ SizeBits
    /\ adder' = [adder EXCEPT ![a] = "outside"]
    /\ UNCHANGED <<SlotVars, BudgetVars>>

LimiterNext ==
    \/ \E g \in Guards, d \in Devices : AcquireAtOnce(g, d)
    \/ \E g \in Guards, d \in Devices : SleepForPermit(g, d)
    \/ \E g \in Guards : Reacquire(g)
    \/ \E g \in Guards : TimeOut(g)
    \/ \E g \in Guards : DestroyGuard(g)
    \/ \E g, h \in Guards : MoveGuard(g, h)
    \/ \E d \in Devices : TrySlot(d)
    \/ \E d \in Devices : ReleaseSlot(d)
    \/ \E bytes \in Requests : TryAllocate(bytes)
    \/ \E bytes \in Requests : FreeMemory(bytes)
    \/ \E a \in Adders : CanAddTask(a)
    \/ \E a \in Adders : AddTaskCount(a)
    \/ \E a \in Adders : RemoveTaskCount(a)

LimiterSpec == LimiterInit /\ [][LimiterNext]_limiterVars
-----------------------------------------------------------------------------
(* get_stats(): the slots in use, by the semaphore's count *)
CurrentTasks(d) == IF Limited(d) THEN SlotLimit[d] - permits[d] ELSE 0

(* The sum of the sizes granted and not yet freed *)
BytesGranted == MapThenSumSet(LAMBDA r : r * grants[r], Requests)

(* What get_stats reports is what the clients hold, however the guards     *)
(* were moved, timed out, woken in vain and destroyed: no permit is lost   *)
(* and none given back twice.  The bytes are exact until a sum wraps.      *)
(* From then on the counter may be too small (and the grants may exceed    *)
(* the limit), but never too large: free_memory stops at zero, and when    *)
(* all was freed nothing of the budget is missing.                         *)
StatsTrue ==
    /\ \A d \in Devices :
           Limited(d) => CurrentTasks(d) = Cardinality(In("armed", d)) + taken[d]
    /\ memory <= MemoryLimit
    /\ memory <= BytesGranted
    /\ ~ wrapped => memory = BytesGranted
    /\ totalTasks = Cardinality({a \in Adders : adder[a] = "added"})

(* A permit is never left lying while somebody sleeps for it: each one     *)
(* that is free has a waiter on its way, though notify_one tells only one  *)
(* and others may take the permit before it gets there.                    *)
NoIdlePermit ==
    \A d \in Devices :
        In("asleep", d) # {} => permits[d] <= Cardinality(In("woken", d))
==============================================================================
