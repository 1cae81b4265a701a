# A TLA+ model of the heterogeneous task scheduler

HTS is a C++ library that runs a graph of tasks on CPU worker threads and GPU
streams. A client builds a `TaskGraph`, a `Scheduler` executes it: tasks whose
predecessors completed are handed to an `ExecutionEngine`, the descendants of a
failed task are blocked. These modules model that program; TLC checks them on
small instances and TLAPS proves the main invariants, and that the scheduler
implements an abstract execution, for every instance. Paths below are relative
to the repository (`src/...` in `PROJECT.json` adds one level).

## 1. The system

### Components

| Component (source) | State | Operations | Correct when |
|---|---|---|---|
| `TaskGraph` (`src/core/task_graph.cpp`) | `tasks_`, two adjacency maps, `next_id_`; one mutex | `add_task`, `add_dependency`, `clear`, `validate`, `topological_sort`, queries | never cyclic; the maps describe the same edges; the searches answer what they are meant to |
| `Task` (`src/core/task.cpp`) | state, cancelled flag, timing; `runtime_mutex_`, `func_mutex_` | `mark_*`, `cancel`, `execute_cpu/gpu` | the last of several unconditional stores is the one that counts |
| `DependencyManager` (`src/core/dependency_manager.cpp`) | snapshot of edges, counters, completed/failed/blocked sets | `mark_completed`, `mark_failed`, `reset`, `get_ready_tasks` | counters exact, one verdict per task, a failure reaches every descendant not behind a completed task, work never runs out early |
| `Scheduler` (`src/core/scheduler.cpp`) | `dep_manager_`, `task_futures`, `executing_`, statistics | `execute`, `execute_async`, callbacks, destructor | dependency order, each task once, ends with all decided |
| `ExecutionEngine` (`src/core/execution_engine.cpp`) | worker threads, `cpu_task_queue_`, active counts, GPU futures | `execute_task`, worker loop, GPU thread, `wait_all`, destructor | no job lost, counts exact, no missed wakeup, drains before joining |
| `SchedulingPolicy` (`src/core/scheduling_policy.cpp`) | none; an atomic flag in `RoundRobinPolicy` | `select_device`, `prioritize` | answers only devices the task supports |
| `MemoryPool`, CUDA (`src/cuda/memory_pool.cu`) | free lists, allocated blocks, extra regions, statistics | `allocate`, `free`, `reset`, `expand_pool` | blocks tile the pool, none given twice, none outside its region |
| `MemoryPool`, `StreamManager`, CPU-only (`src/cuda/cuda_stubs.cpp`) | as above, host memory | as above | as above |
| `StreamManager` (`src/cuda/stream_manager.cu`) | all streams, free streams, leases, events, condition variable | `acquire_stream`, `release_stream`, `create_event`, `destroy_event` | a stream has one holder, no sleeper is forgotten, no event leaks |
| `TaskContext` (`src/core/task_context.cpp`) | maps of inputs and outputs | setters, getters | - |
| `Semaphore`, `ResourceLimiter` (`include/hts/resource_limiter.hpp`) | count, waiters, bytes, tasks | acquire/try/timed/release, budget | limits are never passed |
| `TaskBarrier`, `BarrierGroup` (`src/core/task_barrier.cpp`) | predecessors, completed count | `notify_completion`, `wait`, `wait_for` | opens when all predecessors completed, early only if one reports twice |
| `TaskFuture` (`include/hts/task_future.hpp`) | value or error, their flags | `set_value`, `set_error`, `get`, `try_get`, `wait_for` | every reader is answered, an error is final |
| `EventSystem` (`include/hts/event_system.hpp`), `Profiler` (`include/hts/profiler.hpp`) | handlers; pending and finished records | subscribe, publish; start/stop, pairing | every end is paired with its start |
| `TaskGroup`, `TaskBuilder` | lists of tasks | loops over `add_task`, `add_dependency` | an order asked for is an order of the graph |
| `RetryPolicy` (`include/hts/retry_policy.hpp`) | none | delay of an attempt | bounded delay |
| `GraphSerializer`, `Logger`, CUDA wrappers | - | formatting, output, wrappers | - |

### How they interact

`execute_async` runs `execute_internal` on a thread of its own under
`execution_mutex_`. It validates the graph, builds a new `DependencyManager`
from it, and dispatches the ready tasks in the policy's order.
`ExecutionEngine::execute_task` marks the task Running, counts it and queues a
closure for the workers, or starts a thread that leases a stream. The worker
runs the function under `func_mutex_`, marks the task Completed or Failed,
fulfils the promise and only then gives its slot back. The scheduler's thread
polls the futures one after the other, passes each outcome to the dependency
manager, marks the newly ready or blocked tasks, and at the end of a pass
dispatches what has become ready. Shared state: the tasks' runtime states
(stored into by the scheduler, the workers and the client's `cancel()` without
a look at the old value), the promises, the queue and the counts.

### What is hard

* Three kinds of threads store into a task's state; the order decides.
* A future becomes ready while the pass over the futures is under way, and
  before the worker has given back its slot.
* An exception may leave `execute_internal` in the middle of a pass, with jobs
  in the engine; the next execution shares tasks and engine with them.
* Cancellation is looked at in one place only, the end of a pass.
* Workers and `wait_all` sleep on one condition variable with different
  predicates, one of which reads a counter that is not under its mutex.
* `allocate` drops the pool's lock between finding nothing and growing.
* The depth-first searches share visited sets or stop at decided tasks.
* `~Scheduler` looks at `executing_` once and then waits for the engine, not for
  the execution.
* A semaphore, a barrier, a future and the stream manager each wake sleepers who
  find that somebody else was quicker, or who give up at that moment.
* `publish` calls handlers after it gave up the mutex; the profiler relies on
  events of a run it was not subscribed for from its beginning.

`PROJECT.json` lists each of these as a hazard at its line, with the property
that covers it or the reason none does yet.

## 2. Modules and how they correspond to the code

| Module | Models | Steps |
|---|---|---|
| `GraphOps` | - | definitions: path, acyclic, predecessors |
| `TaskGraph` | `TaskGraph`'s edits | one per call that changes the graph; a method is one critical section |
| `TaskGroup` | the loops of `TaskGroup` and `TaskBuilder` over the graph, EXTENDS `TaskGraph` | one per turn of a loop, as each turn takes the mutex on its own |
| `KahnSort` | loop of `validate` and `topological_sort` | one per task taken off the queue |
| `CycleCheck` | `dfs_has_path` | one per call, successor and return; the stack is explicit |
| `DependencyManager` | all of the class | one per call, for any id in any order |
| `Task` | runtime state of `Task` | operators used by the modules above it |
| `ExecutionEngine` | the life of a job from `execute_task` to the return of its slot | queue or lease, enter the function, leave it, mark the task, set the promise, retire |
| `Scheduler` | `execute_internal`, EXTENDS the two before it | start, one per dispatch, one per future polled, collect, the exits |
| `SchedulerShutdown` | `execute_async` and `~Scheduler` around it | ask, enter, the loop, look at `executing_`, the two halves of `wait_all` |
| `DagExecution` | abstract specification of an execution | begin, start, complete, fail, return, abandon, cancel |
| `EngineWakeup` | sleeping and waking in the engine, its destructor | one per critical section of `cpu_mutex_`; `wait_all`'s predicate and its going to sleep are two |
| `ResourceLimiter` | `Semaphore`, both guards, the budget and the task count | one per critical section; a caller that waits is asleep, woken or through |
| `TaskBarrier` | waiting for a barrier and reporting to it | the counter and the notification are two, the test and the sleep of a waiter are two |
| `StreamManager` | both builds: construction, leases, events, destructor | one per critical section; the CPU-only `create_event` is three, as the runtime stub it calls has no lock |
| `TaskFuture` | producers and readers of a future | seeing that there is an outcome and reading it are two |
| `MemoryPool` | `memory_pool.cu` | one per critical section; `allocate` has two with `expand_pool` between |
| `CpuMemoryPool` | the pool of `cuda_stubs.cpp` | one per method, each holds the mutex to its end |
| `EventSystem` | subscriptions, `ScopedSubscription`, `publish` | copying the handlers and calling each of them are separate |
| `Profiler` | pairing of events into records, EXTENDS `EventSystem` | start, stop, one per event the scheduler publishes and the profiler hears |
| `SchedulingPolicy` | the five policies | sort the batch, choose a device for the next task, change the policy |
| `RetryPolicy` | all policies, and a client that asks them | try, ask, wait |
| `CudaBuffers` | `PinnedMemory`, `DeviceMemory` and the allocations under them | construct, move, assign, destroy |
| `MCScheduler`, `MCShutdown`, `MCGraph`, `MCThreads`, `MCServices` | - | instances for TLC |
| `FiniteInduction`, `TaskGraphProofs`, `DependencyManagerProofs`, `ThreadProofs`, `SchedulerProofs`, `ExecutionProofs`, `PoolProofs`, `ServiceProofs` | - | theorems (section 4) |

`MCGraph`, `MCThreads` and `MCServices` put components that share no state in
one exploration. The variable `focus` is chosen in the first state and never
changes: a behaviour is that of one component, all others stay in one fixed
first state, so the state spaces add up and do not multiply. `MCThreads` takes
over the fairness of each component where it is in focus. Components that do
interact are composed by EXTENDS and move together: `Scheduler` over
`DependencyManager`, `ExecutionEngine` and `Task`; `Profiler` over
`EventSystem`; `TaskGroup` over `TaskGraph`.

Correspondence worth knowing:

* Adjacency vectors are sets, since `add_dependency` looks for the edge before
  it pushes. Queues whose order comes from an `unordered_map` are sets as well.
* `Scheduler` cuts the scheduler's thread where another thread can see the
  difference. `Collect` (erase the harvested futures, look at the ready tasks'
  states) is one step, as its reads of different tasks' states commute with the
  workers' stores, and a `cancel()` in between is one that came before or after.
  `harvested` is the local `completed` vector, `futures` is `task_futures`,
  `pc = "idle"` means `execution_mutex_` is free.
* The end of a function (`LeaveBody`, which gives `func_mutex_` back) and the
  mark of its outcome (`MarkOutcome`) are two steps: two jobs of one task, one of
  them left by an abandoned execution, may mark it in the other order than they
  ran. Workers are counted, not named, and so are streams: a job "holding" has
  one.
* The function of a task is an outcome: normal return, an exception derived from
  `std::exception`, any other exception. A failed stream synchronisation and a
  missing function are the second.
* A policy is the constants `Devices` (where it may send a task) and `Rank` (how
  it sorts).
* `DependencyManager` reads the graph in one step. `init_from_graph` takes the
  graph's mutex once per call, but `SECURITY.md:67-75` forbids edits during an
  execution.
* `SchedulingPolicy` says of each policy what `Scheduler` leaves to `Devices` and
  `Rank`; of the loads only the comparison is kept, and it may come out either
  way each time.
* In `ResourceLimiter` clients give back what they took. `release()` and
  `remove_task()` do not look; that a guard gives back once, over any moves, is
  what is checked.
* `TaskBarrier` allows any list of predecessors, one named twice included, and
  any number of reports by each up to `MaxReports`.
* Some variables record what happened and are read by properties only, by no
  guard and no effect: `late` in `EventSystem` (how often a handler was called
  after its subscription ended), `overlapped` in `StreamManager` (two clients
  were in the stub's unlocked `cudaEventCreate` at once, after which the code
  promises nothing of event ids), `wrapped` in `ResourceLimiter` (a sum of
  granted bytes has wrapped) and `stranded` in `CpuMemoryPool` (the regions that
  `reset()` has left in no list). `given` in `StreamManager` bounds what a client
  may do: it passes `destroy_event` an event it was given, again perhaps.
* In `RetryPolicy` a conversion to `long long` that does not fit gives the least
  or the greatest number, the two results the supported builds produce.
* In `CudaBuffers` the allocator may return an address as soon as it was freed.
* In `MemoryPool` a block knows its region and place (its address) and its
  logical offset, because the code takes buddies by the second and hands out the
  first. Which block of a size comes first is left open.
* The definitions named `Bug...` are plausible mistakes, each written before the
  definition it would replace; no specification uses them. `PROJECT.json` pairs
  every checked property with one that breaks it.

## 3. What TLC checks

| Run | Instance | Distinct states | Shows |
|---|---|---|---|
| `graph` | 4 tasks, all edit sequences; groups and a builder over 3 tasks beside other clients; every digraph of 4 tasks sorted; every pair searched in every DAG; every DAG of 4 ids with any calls in any order | 153,142 | `Acyclic`, `MapsAgree`, `GroupsKeepOrder`; `SortCorrect`, `SearchCorrect` against `GraphOps`; `PendingExact`, `FailureClosure`, `BlockedHasCause`, `NoStall` |
| `scheduler_one_run` | every DAG of 3 tasks, 1 worker, 1 stream, all outcomes, throwing callback, cancellation | 848,771 | dependency order, once per run, verdicts are the jobs', all decided unless cancelled, counts, FIFO |
| `scheduler_two_runs` | 3 tasks, two of them after the first, 2 workers, all outcomes, two executions, one of the two cancelled at any moment or never | 231,905 | quiet between runs, states agree with verdicts, every execution ends, `ImplementsDag` |
| `threads` | engine: 2 workers, 3 jobs, with and without a `wait_all` caller; limiter: 3 guards on 2 slots; budget of 3 in a word of 3 bits, up to 3 grants each of 1, 2 and 7; barrier: every list of up to 3 of 2 predecessors, 2 waiters; streams: 2 for 3 clients, both builds; future: 2 readers, 3 settings | 39,673 | nobody who waits is forgotten (`NoLostWakeup`, `NoIdlePermit`, `ResourcesExact`, and under fairness `EngineLive`, `BarrierOpens`, `FutureKept`); slots, bytes, streams, events and jobs are accounted for (`StatsTrue`, with the bytes never above the limit also after a sum wrapped, `ActiveCovers`, `ResourcesExact`); `EarlyOnlyByDuplicates`, `ShutdownDrains` |
| `services` | CUDA pool: 2 threads, base of 4 units, requests of 1 and 7, one growth; CPU-only pool: bases of 2 and 3, requests of 1, 2, 3, 5, two growths; 3 subscriptions, 2 publishers; 2 runs of 2 tasks under a profiler with 2 event systems; every policy and pair of profiles; every retry policy; 3 wrappers of 2 kinds, 3 addresses | 253,575 | `Tiled`, `NoHiddenSpace`, `CpuConserved`; `GuardsHold`, `LateCallsBounded`, `ProfileMatchesRun`; `DeviceFits`, `BackoffBounded`, `OwnersMatch` |

`ThreadTypesOK` and `ServiceTypesOK` are the type invariants of the modules those
two runs compose. The type invariants of the graph, the dependency manager and
the scheduler, and `RootExists`, `VerdictsDisjoint`, `ReadyIsSound` and
`BlockedNeverRan`, are theorems (section 4) and not listed in a run.

Bounds. Four tasks are the smallest graph with a diamond and a tail, which is
where a shared visited set, a second path to a blocked task and a task queued
early show. Three suffice for a loop over a group that another client's edge
crosses between two turns. Three tasks with one worker give a queue that is
longer than the pool, a pass in which one future is ready and another is not, a
failure with a descendant two edges away, and one task on the other device. Two
executions suffice for a job of the first to finish in the second: in
`scheduler_two_runs` one worker is busy with a task of an abandoned execution
while the other serves the next one. `Cancellable` says which tasks the client
may cancel: all of them in `scheduler_one_run`, one that waits for another in
`scheduler_two_runs`, so that the cancellation may come before the task becomes
ready, while it is, and after. Two workers and three jobs make a worker sleep while the other works
and a push find both asleep or both busy. Three clients on two slots or streams
make one sleep while a second comes for what the third gives back. A list of
three of two predecessors names one of them twice, and two reports repeat one.
In a word of 3 bits a request of 7 wraps the sum whenever something is charged,
so that more is granted than the budget of 3, and with 1 and 2 the counter meets
its limit and, when all is freed, zero. In the CUDA pool, 1 and 7 out of 4 make a request that
splits twice and one that has to grow, with the second thread between the two
critical sections. (These sizes halve evenly, and there is room for one growth at a
time; section 4 covers the rest.) In the CPU-only pool, 3 is no power of two, and 5 is more than
twice the smaller base. Two runs are what it takes to
pair the start of a task in an abandoned run with its end in the next. Five
attempts from a delay of 1 in a word of 5 bits pass first the cap and then the
word.

`MaxTasks`, `GroupTasks`, `MaxRuns`, `Cancellable`, `MaxSubmits`, `MaxListed`,
`MaxReports`, `MaxGrants`, `MaxEvents`, `MaxSets`, `MaxId`, `MaxHandlers`, `Heard`,
`MaxRegions`, `MaxGrowth`, `MaxPower`, `SizeBits` and `LongBits` are the only
bounds, each in a guard or in the range of a quantifier.

`CHECK_DEADLOCK FALSE` appears where the system may stop: the searches end, the
clients of the composed runs are done when they have made their calls, and in
`scheduler_two_runs` and `scheduler_not_drained` the client executes the graph
twice and is done.

`DagExecution` carries the variable `abandoned`, set for good when an execution
ends while tasks it had started go on. Until then a normal return owes every
task a verdict unless it waits for a cancelled one; afterwards the code keeps
its other promises but not that one (`scheduler_not_drained`).

### Fairness

`Scheduler!FairSpec`: weak fairness of the scheduler's loop (a thread that polls
with a timeout and never blocks), of taking a job off the queue and of every
step of a job (worker and GPU threads run on, and a user function ends; which of
several waiting jobs gets a stream next is left open, but a waiting one that
stays able to go does). No fairness of executing, cancelling or of any outcome.
`EngineWakeup!WakeSpec`: weak fairness of the steps of workers, of the caller of
`wait_all` and of the calls a client is in the middle of; none of starting a
call, none of spurious wakeups. `cpu_mutex_` is never held by a thread that
waits for something else, so a thread that wants it gets it.
`BarrierSpec`: a thread that will notify does, and a thread inside `wait` goes
on; nobody has to report, to call, or to time out. `FutureSpec`: a reader that
was woken goes on; nobody has to set anything. `MCThreads` repeats these, each
where its component is in focus.

### Disagreements found

Each of these runs checks one property that the repository states and that TLC
refutes.

| Run | What happens |
|---|---|
| `wait_all_lost_wakeup` | `execute_on_cpu` decrements and notifies without `cpu_mutex_` (`execution_engine.cpp:115`). `wait_all` has tested its predicate and is not yet asleep: it misses the last notification and sleeps for ever. Contradicts `execution_engine.hpp:41`. |
| `scheduler_returns_busy` | A function throws something that is no `std::exception`: `execute()` is left by it while other tasks of the graph run (`scheduler.cpp:121`). Contradicts `scheduler.hpp:43`. |
| `scheduler_not_drained` | An execution is abandoned while a worker runs one of its tasks; the client executes again; the task becomes ready, and before the pass ends the worker of the old job marks it Completed. It is no longer Pending or Ready, so it is skipped and never has a verdict, and `execute()` returns normally (`scheduler.cpp:150`). A `cancel()` at the same place skips a task in the same way. Contradicts `website/en/guide/architecture.md:23`. |
| `scheduler_shutdown` | `~Scheduler` waits until the engine has no job (`scheduler.cpp:47`), which is so before the first dispatch of an execution and between two batches: the members are destroyed under a running `execute_internal`. The promise is `scheduler.hpp:30`, graceful shutdown; the client here keeps the future of `execute_async` longer than the scheduler. |
| `cpu_pool_reset` | `reset()` of the CPU-only pool makes one block as long as the pool has grown to, in the first region, which is as long as it was (`cuda_stubs.cpp:119`, `:147`). The CUDA pool goes back to its base size. |
| `backoff_overflow` | `get_delay` converts to `long long` before it takes the minimum with the cap (`retry_policy.hpp:84`): from the attempt on where the product does not fit, the delay may fall from the cap to a negative number. Contradicts `test_retry_policy.cpp:60`, "Still capped". |
| `pool_merges_regions` | `expand_pool` continues the logical offsets of the last region, and `coalesce_blocks` merges by them: two free blocks of different `cudaMalloc`s become one (`memory_pool.cu:161`). |

## 4. What is proved

TLAPS proves the following for every value of the constants: any finite set of
tasks, any set of acyclic graphs, any number of workers, streams, jobs and
executions, any policy, any set of outcomes.

| Module | Theorems |
|---|---|
| `TaskGraphProofs` | types; `Acyclic`, `MapsAgree`, `RootExists`; `GroupsKeepOrder`, and that the groups' steps are steps of `TaskGraph`; `SearchCorrect`; `SortCorrect` |
| `DependencyManagerProofs` | types; `PendingExact`, `VerdictsDisjoint`, `FailureClosure`, `BlockedHasCause`, `ReadyIsSound`, `NoStall` |
| `ThreadProofs` | types of all five (`ThreadTypesOK`); engine: `ActiveCovers`, `NoLostWakeup` (without a caller of `wait_all`), `ShutdownDrains`; streams: `ResourcesExact`; limiter: `StatsTrue`, `NoIdlePermit`; future: `ErrorIsFinal`; barrier: `EarlyOnlyByDuplicates` |
| `SchedulerProofs` | engine and scheduler: types; `ActiveExact`, `StartsInOrder`, `DependencyOrder`, `OncePerRun`, `BlockedNeverRan`, `FailureTakesAll`, `VerdictsFromJobs` |
| `ExecutionProofs` | `QuietBetweenRuns`, `StatesAgree`, `DrainedUnlessCancelled`; `ImplementsDag` |
| `PoolProofs` | both pools: types; CPU-only: `CpuConserved`; CUDA: no overlap and true counters always, `Tiled` while every region halves evenly, and wherever no request outgrows a base region that does; `NoHiddenSpace` for such a region |
| `ServiceProofs` | types of all seven (`ServiceTypesOK`); `DeviceFits`; `OwnersMatch`; `LateCallsBounded`, `GuardsHold`; `ProfileMatchesRun`; `BackoffBounded` |
| `FiniteInduction` | lemmas: induction over finite data, recursion, sums |

The assumptions are those of the modules that declare the constants:
`IdsAssumption` (the ids are finite in number), `EngineAssumption` (at least one
worker and one stream), `SchedulerAssumption` (the graphs are acyclic, which
`TaskGraphProofs` proves of what the client can build; a policy answers a
device), `WakeupAssumption` (finitely many workers, at least one),
`MaxTasksAssumption`, `NodesAssumption`, `PolicyAssumption` and `EventAssumption`
(tasks, batches, guards and publishers are finite in number, there is an event
system), `StreamAssumption`, `FutureAssumption`, `BarrierAssumption`,
`ProfilerAssumption` (clients, readers, waiters, tasks and runs are finite in
number), `LimiterAssumption` (limits and requests are values of
their word, and fewer callers add tasks than a count can tell apart), `BufferAssumption` (null is
no address) and `CpuPoolAssumption` (sizes are numbers; the base pool is not
empty). Two of the assumptions hold arithmetic that is true of every choice of
the constants but that the prover does not know: in `PoolAssumption`, that there
is a power of two from n to 2n - 1; in `RetryAssumption`, that powers of two
grow. TLC evaluates both.

**FiniteInduction.** The library's induction theorems take an operator, which no
prover here can instantiate; what can be cited is that a set of numbers has a
least element and a set of finite sets one inside which no other lies. A proof by
induction is then that the set of counterexamples is empty. The lemmas about sums
(`MapThenSumSet` of the community modules is a choice of a recursive function)
come from these: that the function exists, that any element may be taken out
first, that a changed weight changes the sum as much.

**TaskGraph.** Acyclicity is inductive only together with the agreement of the
two maps (`GraphInv`). An edge is refused when its target reaches its source.
Take then a set C that holds the target, not the source, and that no old edge
leaves: a set of tasks inside C does not meet the new edge, and one that reaches
outside C has, out there, a first task of the old graph, where neither an edge
from C nor the new one arrives (`AddEdgeKeepsAcyclic`).

**Groups.** `GroupInv` adds that every pair a loop has dealt with, and every
pair of a loop that returned, is ordered in the graph (`LoopsKeepOrder`). It is
kept by what others do because a path stays when tasks and edges are added, and
`clear()` takes back what was done, also of the loops going on.

**Searches.** `dfs_has_path` is right because its calls are reached from the
origin (`CallsAreReached`) and an edge that leaves the visited tasks is one some
frame of the stack has yet to look at (`OpenEdgesInLoops`): with the stack empty
the visited tasks are closed, so what is not among them cannot be reached. For
the sort, the counter of a task is the number of its predecessors not sorted yet
(`CountsExact`) and the queue holds the unsorted tasks with counter zero
(`QueueExact`): when it is empty, every unsorted task has an unsorted
predecessor, so in an acyclic graph none is left.

**DependencyManager.** `DepInv` adds to the invariants that the snapshot stays
acyclic and that every successor of a failed or blocked task has a verdict
(`SuccessorsDecided`), which is what the search of `mark_failed` leaves: it takes
the least set of open tasks closed under open successors. `FailureClosure`, about
paths, follows: a path from a failed task leads over failed and blocked tasks
until it meets a completed one. There it may end: the class accepts a completion
of any task at any time, and after `mark_completed(b)`, `mark_failed(a)` in
a → b → c the task c is ready. `BlockedHasCause` rests on that set being the least. `NoStall` takes, by acyclicity, a task without a verdict
none of whose predecessors lacks one; none of these failed, or the task would be
blocked, so its counter is zero.

**Wakeups.** `WakeInv` ties the count of active jobs to the threads, says
that whoever sleeps is at its predicate and that a stopped engine gets no job.
With these, `NoLostWakeup` is inductive: a worker goes to sleep only with the
queue empty, and a push is followed by a notification that, when nobody else
sleeps on the condition variable, reaches a worker.

**Streams.** Each stream that exists is free or leased to one client; a sleeper
with a free stream about has somebody awake before it (`StreamPart`). Events are
those in the runtime, with a client or on the way between the two steps of the
stub, and the ids on the way are distinct unless two clients overlapped
(`EventPart`).

**Limiter.** `SlotPart`: permits and holders of a limited device make up its
limit (`SlotsExact`), an unlimited one counts nobody (`UnlimitedStandsAside`),
and while somebody sleeps at least as many were woken as permits are free.
`BudgetPart`: the counter of bytes is within the limit and no more than the sum of
the grants, and equal to it until `current_memory_ + bytes` wraps; a grant that
wraps adds less to the counter than was granted (`Wraps`), and `free_memory` takes
off what was granted or all there is. Requests are any values of `size_t`. `TaskPart`: the tasks are the adders between
their two calls.

**Future and barrier.** A reader given the error stands on `has_error`, one that
saw an outcome on there being one, and neither is ever undone. The barrier's
counter is the sum of the reports over the listed predecessors. When each
reported at most once and one did not, that sum is smaller than the list is
long: a thread that passed before owes it to one who reported twice.

**Scheduler.** `RunInv` holds whatever happens, exceptions that end an execution
included. A task handed to the engine has all predecessors completed
(`PredsDone`); it is in flight with the future of its job or has its verdict
(`Accounted`, `FuturesTrack`); a batch holds ready tasks not handed over yet
(`BatchFresh`). Without `Accounted` the collection at the end of a pass could
hand a task over again; without `PredsDone` the search of `mark_failed` could
block a task that runs. The engine's part, `EngineInv`, adds that the queue
holds the waiting CPU jobs in order (`QueueExact`), from which the exact count
and the order of starts follow. `NothingOutrunsAFailure` is what `FailureClosure`
becomes here: the scheduler reports a completion after those of the predecessors
only, so no path out of a failed task meets a completed one, and all behind a
failure is blocked (`FailureTakesAll`, in no run's list).

**Executions.** Until an execution is abandoned, three facts carry each other
from one execution to the next: all jobs of earlier executions are over
(`OldResolved`), so no stranger stores into a task's state; therefore a ready
task keeps a state that lets it be collected, or was cancelled
(`ReadyNotForgotten`); therefore the execution ends only when every job was
harvested, and the next one starts quietly (`QuietNow`). `StateFollows` relates
each state to the jobs: it needs that the tasks a completion makes ready are
neither blocked nor handed over (`NewlyReadyFresh`), which is a matter of the
counter having been exactly one.

**Refinement.** Each step of `Scheduler` is an action of `DagExecution` or
leaves its state alone. The step that needs an argument is a failure: what
`mark_failed` blocks is exactly what the abstract failure takes down, the
undecided descendants. The search skips decided tasks; a path from the failed
task to an undecided one never needs them, since a completed task has completed
predecessors only and what follows a failed or blocked task is decided. A normal
return needs `DrainedUnlessCancelled`.

**Services.** A policy's answer fits whatever the loads and the turn are
(`EveryPolicyFits`), by cases on the policy. `OwnersMatch` counts; its induction
is over two facts that do not: an address is allocated exactly when an object of
that kind points to it (`AllocatedIffOwned`), and no two of a kind point to the
same (`NoneShared`), without which the move's release could take what a third
object owns. `LateCallsBounded` needs to know who may still call: the late calls
of a handler are no more than the publishers whose copy no longer holds it, none
were made while it lives, and an id to come is in no copy. `GuardsHold` rests on
ids to come being held by no guard and ended by no `clear()`.

`RetryTypeOK` and `BackoffBounded` need that the two delays are the policy's
answers to consecutive attempts (`RetryInv`), that the products grow with the
attempt, and what a jitter can add to a delay.

**Profiler.** The seven subscriptions of a profiler are made together and end
together: ids are alive in batches of seven (`BatchesWhole`), although one
profiler may have several batches in one event system. A record that hears an
event twice is as if it had heard it once (`HeardTwice`, `ToldOnce`), so the
handlers left over from before do no harm. Then, while a profiled run goes on,
a task that started and has not ended is pending with the number of this run
(`StartsPending`), and the records are the ends of this run, one per task
(`RecordsPaired`).

**CPU-only pool.** Every block is at an address of its own (`Apart`) and regions
are numbered in the order they were made (`RegionsInOrder`), so that a new one
cannot be taken for an old one; the counters are sums over the blocks
(`BytesAgree`). The regions in blocks are those not stranded (`RegionsKept`), and
a block is as long as its region unless it is the base block after a `reset()` of
a grown pool (`BlocksWhole`), which is why a pool that has not grown must be as
long as its base region. After such a reset bytes are lost until destruction, the
base block counts bytes it never had, and the sums still agree: `CpuConserved`
excepts exactly these regions, and `cpu_pool_reset` shows what a client gets.

**CUDA pool.** The blocks, free or not, cut the logical bytes 0 to
`total_bytes` into pieces that do not overlap (`Tiling`), and the counters are
their sums (`PoolInv`). To cut a piece in two keeps a tiling; `allocate` cuts as
often as its loop turns, an induction over the halvings. To join two pieces one
after the other keeps it; `coalesce_blocks` joins the buddies of a size, which
are disjoint pairs because twice the size divides the place where a pair begins,
an induction over the pairs, and goes through the sizes, an induction over
these. `BlocksAlwaysDisjoint` follows for all sizes. That no byte is lost needs
more: `block.size / 2` drops a byte of an odd size, and a pool that grew by a
large request and then by its own size may have such regions (256 and 131072
bytes make a region of 131328, which halves to 513). `PoolAlwaysTiled` says that
this is the only way (`Smooth`: all regions halve evenly down to the smallest
blocks), and `PoolTiledUnlessOutgrown` that it does not arise as long as no
request is larger than the base region, when each growth doubles the pool.

`SpaceNeverHidden` is about the use of these blocks. While there is one region,
every block lies at a multiple of its size, the sizes double, the blocks leave no
gap, and no two free blocks are buddies (`SpaceInv`). The last part is what
`coalesce_blocks` establishes: going through the lists in order of size leaves no
pair of any size, because a merged block is larger than the list in hand
(`MergeLeavesNoPairs`). What follows is `SpaceFound`: were an aligned range free,
but in no one free block, take the smallest block in it; what lies in the other
half of its pair can be neither larger nor smaller, so it is its buddy, and free.
The hypotheses are that the base region halves evenly and that halving ends
within the bits of a `size_t`; a power of two, to which the constructor rounds,
meets both.

Only model-checked: the properties under fairness (`RunEnds`, `EngineLive`,
`BarrierOpens`, and of `FutureKept` that readers are answered), since liveness
and ENABLED are out of the prover's reach. `WaitAllReturns`, `QuietAlways`, `Drained`,
`InsideRegion`, `CpuRequestServed`, `GracefulShutdown` and `StillCapped` are
false.

## 5. What is not modelled, and why

* Statistics and timeline, the loads as numbers, the contexts, and
  `gpu_futures_`, which grows by one future per GPU job until `wait_all`: no
  doc bounds it.
* `TaskContext`: a map under a mutex, one per task; nothing wires outputs to
  inputs.
* Formatting and output (`GraphSerializer`, `Logger`, reports): no property
  depends on them. The umbrella header includes the others.
* The profiler's times and what is computed from them, and memory events, which
  nothing in `src/` publishes.
* A `BarrierGroup` is a vector of barriers, waited for one after the other; a
  group's setters and queries are calls on one task each.
* CUDA itself: a device allocation may fail at any time, a stream may fail to
  synchronise; kernels and copies are the function's outcome. Device selection
  and queries of `cuda_utils.hpp` are left out.
* Edits of the graph during an execution, which `SECURITY.md` calls undefined.
* `can_add_task()` and `add_task()` are two calls in `ResourceLimiter`, and two
  adders do overshoot the limit; no doc promises otherwise, and `StatsTrue`
  asks only that the count be right.
* Relaxed memory: every shared variable is atomic or under a mutex, except those
  named as hazards (the counter of the runtime stub among them, which
  `StreamManager` reads and stores in two steps); a step is sequentially
  consistent.

## 6. Plan

Done, in this order: `GraphOps`, `TaskGraph`, `DependencyManager`, `Task`,
`ExecutionEngine`, `Scheduler` over the three before it, `DagExecution` as its
abstract specification, the searches, `EngineWakeup`, `MemoryPool`, and the
refinement; then `ResourceLimiter`,
`TaskBarrier`, `StreamManager`, `TaskFuture`, `EventSystem`, `Profiler`,
`CpuMemoryPool`, `TaskGroup`, `SchedulingPolicy`, `RetryPolicy`, `CudaBuffers`,
`SchedulerShutdown` and the instances that compose them; then the proofs of all
safety properties the passing runs check.

Left: the GPU path under `SchedulerShutdown`, with the futures `wait_all` collects.
