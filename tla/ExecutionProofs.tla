---------------------------- MODULE ExecutionProofs ----------------------------
(***************************************************************************)
(* Proofs about the executions of Scheduler before one of them ended by an *)
(* exception: nothing runs between executions, a normal end leaves only    *)
(* cancelled work undone, and the tasks' states are the verdicts; and that *)
(* Scheduler implements DagExecution.                                      *)
(*                                                                         *)
(* The first three depend on each other over time.  A job left from an     *)
(* earlier execution would store into the state of a task that the current *)
(* one is about to collect, so each execution needs the one before it to   *)
(* end quietly (OldResolved), and it ends quietly because no ready task is *)
(* forgotten (ReadyNotForgotten) and every job is harvested (Accounted).   *)
(***************************************************************************)
EXTENDS SchedulerProofs

OldResolved == \A j \in 1 .. runBase : Resolved(j)

(* A ready task is about to be handed over, was handed over, was cancelled *)
(* or will be collected at the end of the pass.                            *)
ReadyNotForgotten ==
    pc # "idle" => \A t \in ReadyTasks :
        \/ t \in batch
        \/ \E j \in RunJobs : jobs[j].task = t
        \/ cancelled[t]
        \/ pc = "poll" /\ state[t] = "Ready"

EndedReady == ended = "normal" => \A t \in ReadyTasks : cancelled[t]

StateFollows ==
    /\ \A j \in RunJobs : Done(j) =>
           state[jobs[j].task] \in {Final(jobs[j].outcome), "Cancelled"}
    /\ \A t \in blocked : state[t] \in {"Blocked", "Cancelled"}
    /\ \A t \in Tasks : state[t] = "Cancelled" => cancelled[t]

QuietNow == pc = "idle" => \A j \in JobIds : Resolved(j)

Calm == OldResolved /\ ReadyNotForgotten /\ EndedReady /\ StateFollows /\ QuietNow

CalmInv == ~ everThrew => Calm
-----------------------------------------------------------------------------
LEMMA CalmInitHolds == Init => CalmInv
<1> SUFFICES ASSUME Init PROVE Calm
  BY DEF CalmInv
<1>1. /\ jobs = <<>> /\ runBase = 0 /\ pc = "idle" /\ ended = "none"
      /\ state = [t \in Tasks |-> "Pending"] /\ blocked = {}
  BY DEF Init, EngineInit, TaskInit
<1>2. JobIds = {} /\ RunJobs = {} /\ 1 .. runBase = {}
  BY <1>1 DEF JobIds, RunJobs
<1> QED
  BY <1>1, <1>2 DEF Calm, OldResolved, ReadyNotForgotten, EndedReady,
                    StateFollows, QuietNow

(* Steps after which jobs, states, verdicts and the batch are as before.   *)
LEMMA CalmKept ==
    ASSUME Calm, UNCHANGED <<runBase, ended, batch, pc>>, UNCHANGED engineVars,
           UNCHANGED taskVars, UNCHANGED depVars
    PROVE  Calm'
<1>1. /\ jobs' = jobs /\ state' = state /\ cancelled' = cancelled
      /\ blocked' = blocked /\ ReadyTasks' = ReadyTasks
  BY DEF engineVars, taskVars, depVars, ReadyTasks, Known, Terminal
<1>2. JobIds' = JobIds /\ RunJobs' = RunJobs
  BY <1>1 DEF JobIds, RunJobs
<1>3. OldResolved' /\ QuietNow' /\ EndedReady'
  BY <1>1, <1>2 DEF Calm, OldResolved, QuietNow, EndedReady, Resolved
<1>4. ReadyNotForgotten'
  BY <1>1, <1>2 DEF Calm, ReadyNotForgotten
<1>5. StateFollows'
  BY <1>1, <1>2 DEF Calm, StateFollows, Done
<1> QED
  BY <1>3, <1>4, <1>5 DEF Calm

LEMMA CalmStart ==
    ASSUME RunInv, Calm, Start
    PROVE  Calm'
<1>1. /\ pc = "idle" /\ InitFromGraph(graph) /\ batch' = ReadyTasks'
      /\ pc' = "dispatch" /\ ended' = "none" /\ runBase' = Len(jobs)
      /\ jobs' = jobs /\ state' = state /\ cancelled' = cancelled
  BY DEF Start, engineVars, taskVars
<1>2. blocked' = {}
  BY <1>1 DEF InitFromGraph
<1>3. JobIds' = JobIds /\ RunJobs' = {}
  BY <1>1 DEF JobIds, RunJobs
<1>4. OldResolved'
  BY <1>1, <1>3 DEF Calm, QuietNow, OldResolved, Resolved, JobIds
<1> QED
  BY <1>1, <1>2, <1>3, <1>4 DEF Calm, QuietNow, ReadyNotForgotten, EndedReady,
                               StateFollows

LEMMA CalmDispatch ==
    ASSUME RunInv, Calm, NEW t \in Tasks, NEW d \in Device, Dispatch(t, d)
    PROVE  Calm'
<1> DEFINE n == Len(jobs) + 1
<1>1. /\ pc = "dispatch" /\ t \in batch /\ ExecuteTask(t, d) /\ MarkTaskRunning(t)
      /\ batch' = batch \ {t} /\ pc' = pc /\ ended' = ended /\ runBase' = runBase
      /\ UNCHANGED depVars
  BY DEF Dispatch, ExecuteTask
<1>2. /\ JobIds' = JobIds \cup {n} /\ n \notin JobIds
      /\ \A i \in JobIds : jobs'[i] = jobs[i]
      /\ jobs'[n] = [task |-> t, device |-> d, phase |-> "waiting", outcome |-> "none"]
  BY <1>1, OneJobMore DEF RunInv, EngineInv
<1>3. Len(jobs) \in Nat /\ runBase \in 0 .. Len(jobs)
  BY JobTasks DEF RunInv, SchedTypeOK
<1>4. RunJobs' = RunJobs \cup {n} /\ RunJobs \subseteq JobIds /\ n \notin RunJobs
  BY <1>1, <1>2, <1>3 DEF RunJobs
<1>5. /\ ReadyTasks' = ReadyTasks /\ blocked' = blocked
      /\ cancelled' = cancelled
      /\ state' = [u \in Tasks |-> IF u = t THEN "Running" ELSE state[u]]
  BY <1>1, DepKept DEF RunInv, depVars, MarkTaskRunning, Mark
<1>6. t \in ReadyTasks /\ NotHandedOver(t)
  BY <1>1 DEF RunInv, BatchFresh
<1>7. jobs'[n].task = t /\ jobs'[n].phase = "waiting"
  BY <1>2
<1> HIDE DEF n
<1>8. OldResolved'
  BY <1>1, <1>2, <1>3 DEF Calm, OldResolved, Resolved, JobIds
<1>9. ReadyNotForgotten'
  <2> SUFFICES ASSUME NEW u \in ReadyTasks
               PROVE  \/ u \in batch' \/ \E j \in RunJobs' : jobs'[j].task = u
                      \/ cancelled[u]
    BY <1>5 DEF ReadyNotForgotten
  <2>1. CASE u = t
    BY <1>4, <1>7, <2>1
  <2>2. CASE u # t
    <3>1. u \in batch \/ (\E j \in RunJobs : jobs[j].task = u) \/ cancelled[u]
      BY <1>1 DEF Calm, ReadyNotForgotten
    <3> QED
      BY <1>1, <1>2, <1>4, <2>2, <3>1
  <2> QED
    BY <2>1, <2>2
<1>10. EndedReady' /\ QuietNow'
  BY <1>1, <1>5 DEF Calm, EndedReady, QuietNow
<1>11. StateFollows'
  <2>1. \A j \in RunJobs' : Done(j)' =>
            state'[jobs'[j].task] \in {Final(jobs'[j].outcome), "Cancelled"}
    <3> SUFFICES ASSUME NEW j \in RunJobs', Done(j)'
                 PROVE  state'[jobs'[j].task] \in {Final(jobs'[j].outcome), "Cancelled"}
      OBVIOUS
    <3>1. j \in RunJobs
      BY <1>4, <1>7 DEF Done
    <3>2. jobs'[j] = jobs[j] /\ jobs[j].task \in Tasks /\ jobs[j].task # t
      BY <1>2, <1>4, <1>6, <3>1, JobTasks DEF NotHandedOver, RunInv
    <3>3. state[jobs[j].task] \in {Final(jobs[j].outcome), "Cancelled"}
      BY <3>1, <3>2 DEF Calm, StateFollows, Done
    <3> QED
      BY <1>5, <3>2, <3>3
  <2>2. t \notin blocked /\ blocked \subseteq Tasks
    BY <1>6, KnownTasks DEF ReadyTasks, Terminal
  <2> QED
    BY <1>5, <2>1, <2>2 DEF Calm, StateFollows
<1> QED
  BY <1>8, <1>9, <1>10, <1>11 DEF Calm

LEMMA CalmBeginPass ==
    ASSUME Calm, BeginPass
    PROVE  Calm'
<1>1. /\ pc = "dispatch" /\ pc' = "poll"
      /\ UNCHANGED <<batch, ended, runBase>>
      /\ jobs' = jobs /\ state' = state /\ cancelled' = cancelled
      /\ blocked' = blocked /\ ReadyTasks' = ReadyTasks
  BY DEF BeginPass, engineVars, taskVars, depVars, ReadyTasks, Known, Terminal
<1>2. JobIds' = JobIds /\ RunJobs' = RunJobs
  BY <1>1 DEF JobIds, RunJobs
<1>3. OldResolved' /\ QuietNow' /\ EndedReady'
  BY <1>1, <1>2 DEF Calm, OldResolved, QuietNow, EndedReady, Resolved
<1>4. ReadyNotForgotten'
  BY <1>1, <1>2 DEF Calm, ReadyNotForgotten
<1>5. StateFollows'
  BY <1>1, <1>2 DEF Calm, StateFollows, Done
<1> QED
  BY <1>3, <1>4, <1>5 DEF Calm

(* What the end of a pass does not collect was handed over or cancelled.   *)
LEMMA CalmCollect ==
    ASSUME RunInv, Calm, Collect
    PROVE  Calm'
<1>1. /\ pc = "poll" /\ batch = {} /\ pc' = "dispatch"
      /\ batch' = {t \in ReadyTasks \ (InFlight \ harvested) : Collectable(t)}
      /\ UNCHANGED <<ended, runBase>>
      /\ jobs' = jobs /\ state' = state /\ cancelled' = cancelled
      /\ blocked' = blocked /\ ReadyTasks' = ReadyTasks
  BY DEF Collect, CollectWith, engineVars, taskVars, depVars, ReadyTasks, Known,
         Terminal, RunInv, Phased
<1>2. JobIds' = JobIds /\ RunJobs' = RunJobs
  BY <1>1 DEF JobIds, RunJobs
<1>3. OldResolved' /\ QuietNow' /\ EndedReady'
  BY <1>1, <1>2 DEF Calm, OldResolved, QuietNow, EndedReady, Resolved
<1>4. ReadyNotForgotten'
  <2> SUFFICES ASSUME NEW t \in ReadyTasks, t \notin batch', ~ cancelled[t]
               PROVE  \E j \in RunJobs : jobs[j].task = t
    BY <1>1, <1>2 DEF ReadyNotForgotten
  <2>1. (\E j \in RunJobs : jobs[j].task = t) \/ state[t] = "Ready"
    BY <1>1 DEF Calm, ReadyNotForgotten
  <2>2. t \in InFlight => \E j \in RunJobs : jobs[j].task = t
    BY DEF RunInv, FuturesTrack
  <2> QED
    BY <1>1, <2>1, <2>2 DEF Collectable
<1>5. StateFollows'
  BY <1>1, <1>2 DEF Calm, StateFollows, Done
<1> QED
  BY <1>3, <1>4, <1>5 DEF Calm
-----------------------------------------------------------------------------
(* The tasks that t's completion makes ready have no verdict, and none was *)
(* handed over: t was the only predecessor missing.                        *)
LEMMA NewlyReadyFresh ==
    ASSUME RunInv, NEW t \in Tasks, t \notin Terminal, NEW u \in NewlyReady(t)
    PROVE  /\ u \in Tasks /\ t \in Predecessors(graph, u)
           /\ u \notin blocked /\ NotHandedOver(u)
<1>1. u \in successors[t] /\ pending[u] = 1
  BY KnownTasks DEF NewlyReady, SuccessorsOf
<1>2. u \in Tasks /\ t \in Predecessors(graph, u)
  BY <1>1, KnownTasks DEF RunInv, Predecessors
<1>3. t \notin completed
  BY DEF Terminal
<1>4. NotHandedOver(u)
  BY <1>2, <1>3 DEF RunInv, PredsDone, NotHandedOver
<1>5. u \notin blocked
  <2> SUFFICES ASSUME u \in blocked PROVE FALSE
    OBVIOUS
  <2>1. PICK s \in failed \cup blocked : s \in Predecessors(successors, u)
    BY DEF RunInv, DepInv, BlockedHasCause
  <2>2. s # t /\ s \notin completed
    BY <2>1 DEF Terminal, RunInv, DepInv, VerdictsDisjoint
  <2> DEFINE P == Predecessors(successors, u) \ completed
  <2>3. IsFiniteSet(P)
    BY KnownTasks, PredecessorsFinite DEF Known
  <2>4. Cardinality(P) = 1
    BY <1>1, <1>2, KnownTasks DEF RunInv, DepInv, PendingExact
  <2>5. {s, t} \subseteq P
    BY <1>2, <1>3, <2>1, <2>2 DEF RunInv
  <2>6. PICK x : P = {x}
    <3> HIDE DEF P
    <3> QED
      BY <2>3, <2>4, FS_Singleton
  <2> QED
    BY <2>2, <2>5, <2>6
<1> QED
  BY <1>2, <1>4, <1>5

LEMMA CalmHarvestCompleted ==
    ASSUME RunInv, Calm, NEW t \in Tasks, HarvestCompleted(t)
    PROVE  Calm'
<1>1. /\ PollResolved(t, "ok") /\ MarkCompleted(t) /\ MarkTasksReady(NewlyReady(t))
      /\ UNCHANGED <<pc, batch, ended, runBase>> /\ jobs' = jobs
  BY DEF HarvestCompleted, engineVars
<1>2. pc = "poll" /\ t \notin Terminal
  BY <1>1, PolledTask
<1>3. /\ JobIds' = JobIds /\ RunJobs' = RunJobs /\ cancelled' = cancelled
      /\ state' = [u \in Tasks |-> IF u \in NewlyReady(t) THEN "Ready" ELSE state[u]]
  BY <1>1 DEF JobIds, RunJobs, MarkTasksReady, Mark
<1>4. /\ completed' = completed \cup {t}
      /\ pending' = [u \in Known |->
             IF u \in SuccessorsOf(t) /\ pending[u] > 0
             THEN pending[u] - 1 ELSE pending[u]]
      /\ successors' = successors /\ failed' = failed /\ blocked' = blocked
  BY <1>1, <1>2 DEF MarkCompleted
<1>5. /\ \A u \in NewlyReady(t) : u \in Tasks /\ u \notin blocked /\ NotHandedOver(u)
  BY <1>2, NewlyReadyFresh
<1>6. \A u \in ReadyTasks' : u \in Tasks /\ (u \in ReadyTasks \/ u \in NewlyReady(t))
  <2> SUFFICES ASSUME NEW u \in ReadyTasks'
               PROVE  u \in Tasks /\ (u \in ReadyTasks \/ u \in NewlyReady(t))
    OBVIOUS
  <2>1. u \in Known /\ u \in Tasks /\ u \notin Terminal /\ pending'[u] = 0
    BY <1>4, KnownTasks DEF ReadyTasks, Known, Terminal
  <2>2. pending[u] \in Nat
    BY <2>1 DEF RunInv, DepInv, DepTypeOK
  <2>3. pending[u] = 0 \/ (pending[u] = 1 /\ u \in SuccessorsOf(t))
    BY <1>4, <2>1, <2>2
  <2> QED
    BY <1>2, <2>1, <2>3 DEF ReadyTasks, NewlyReady
<1>7. OldResolved' /\ QuietNow' /\ EndedReady'
  BY <1>1, <1>2, PolledTask
     DEF Calm, OldResolved, QuietNow, EndedReady, Resolved
<1>8. ReadyNotForgotten'
  <2> SUFFICES ASSUME NEW u \in ReadyTasks'
               PROVE  \/ u \in batch \/ \E j \in RunJobs : jobs[j].task = u
                      \/ cancelled[u] \/ state'[u] = "Ready"
    BY <1>1, <1>2, <1>3 DEF ReadyNotForgotten
  <2>1. CASE u \in NewlyReady(t)
    BY <1>3, <1>6, <2>1
  <2>2. CASE u \in ReadyTasks
    BY <1>2, <1>3, <1>6, <2>2 DEF Calm, ReadyNotForgotten
  <2> QED
    BY <1>6, <2>1, <2>2
<1>9. StateFollows'
  <2>1. \A j \in RunJobs : jobs[j].task \in Tasks /\ jobs[j].task \notin NewlyReady(t)
    BY <1>5, JobTasks DEF RunJobs, RunInv, NotHandedOver
  <2>2. blocked \subseteq Tasks
    BY KnownTasks DEF Terminal
  <2> QED
    BY <1>1, <1>3, <1>4, <1>5, <2>1, <2>2 DEF Calm, StateFollows, Done
<1> QED
  BY <1>7, <1>8, <1>9 DEF Calm

LEMMA CalmHarvestFailed ==
    ASSUME RunInv, Calm, NEW t \in Tasks, HarvestFailed(t)
    PROVE  Calm'
<1>1. /\ PollResolved(t, "std") /\ MarkFailed(t) /\ MarkTasksBlocked(NewlyBlocked(t))
      /\ UNCHANGED <<graph, pc, batch, ended, runBase>> /\ UNCHANGED engineVars
  BY DEF HarvestFailed
<1>2. pc = "poll" /\ ended = "none" /\ t \notin Terminal
  BY <1>1, PolledTask
<1>3. /\ jobs' = jobs /\ JobIds' = JobIds /\ RunJobs' = RunJobs /\ cancelled' = cancelled
      /\ state' = [u \in Tasks |-> IF u \in NewlyBlocked(t) THEN "Blocked" ELSE state[u]]
  BY <1>1 DEF engineVars, JobIds, RunJobs, MarkTasksBlocked, Mark
<1>4. /\ failed' = failed \cup {t} /\ blocked' = blocked \cup NewlyBlocked(t)
      /\ completed' = completed /\ successors' = successors /\ pending' = pending
  BY <1>1, <1>2 DEF MarkFailed
<1>5. ReadyTasks' \subseteq ReadyTasks \ NewlyBlocked(t)
  BY <1>4 DEF ReadyTasks, Known, Terminal
<1>6. BlockedNeverRan'
  BY <1>1, <1>2, FailureRecorded
<1>7. OldResolved' /\ QuietNow' /\ EndedReady'
  BY <1>1, <1>2, <1>3 DEF Calm, OldResolved, QuietNow, EndedReady, Resolved
<1>8. ReadyNotForgotten'
  <2> SUFFICES ASSUME NEW u \in ReadyTasks'
               PROVE  \/ u \in batch \/ \E j \in RunJobs : jobs[j].task = u
                      \/ cancelled[u] \/ state'[u] = "Ready"
    BY <1>1, <1>2, <1>3 DEF ReadyNotForgotten
  <2>1. u \in ReadyTasks /\ u \notin NewlyBlocked(t) /\ u \in Tasks
    BY <1>5, KnownTasks DEF ReadyTasks
  <2> QED
    BY <1>2, <1>3, <2>1 DEF Calm, ReadyNotForgotten
<1>9. StateFollows'
  <2>1. \A j \in RunJobs : jobs[j].task \in Tasks /\ jobs[j].task \notin NewlyBlocked(t)
    BY <1>3, <1>4, <1>6, JobTasks DEF RunJobs, RunInv, BlockedNeverRan
  <2>2. blocked \subseteq Tasks /\ NewlyBlocked(t) \subseteq Tasks
    BY KnownTasks DEF Terminal, NewlyBlocked, Open
  <2> QED
    BY <1>3, <1>4, <2>1, <2>2 DEF Calm, StateFollows, Done
<1> QED
  BY <1>7, <1>8, <1>9 DEF Calm
-----------------------------------------------------------------------------
(* A normal end: every job was harvested, and no ready task is left that   *)
(* was not cancelled.                                                      *)
LEMMA CalmFinish ==
    ASSUME RunInv, Calm, Finish
    PROVE  Calm'
<1>1. /\ pc = "dispatch" /\ batch = {} /\ InFlight = {} /\ pc' = "idle"
      /\ runBase' = runBase
      /\ jobs' = jobs /\ state' = state /\ cancelled' = cancelled
      /\ blocked' = blocked /\ ReadyTasks' = ReadyTasks
  BY DEF Finish, Leave, engineVars, taskVars, depVars, ReadyTasks, Known, Terminal
<1>2. JobIds' = JobIds /\ RunJobs' = RunJobs
  BY <1>1 DEF JobIds, RunJobs
<1>3. \A j \in RunJobs : jobs[j].task \in completed \cup failed
  <2>1. Accounted
    BY DEF RunInv
  <2> QED
    BY <1>1, <2>1 DEF Accounted
<1>4. \A j \in RunJobs : Resolved(j)
  <2> SUFFICES ASSUME NEW j \in RunJobs PROVE Resolved(j)
    OBVIOUS
  <2>1. PICK i \in RunJobs : jobs[i].task = jobs[j].task /\ Resolved(i)
    BY <1>3 DEF RunInv, VerdictsFromJobs
  <2> QED
    BY <2>1 DEF RunInv, OncePerRun
<1>5. OldResolved' /\ QuietNow'
  BY <1>1, <1>2, <1>4 DEF Calm, OldResolved, QuietNow, Resolved, RunJobs
<1>6. EndedReady'
  <2> SUFFICES ASSUME NEW t \in ReadyTasks PROVE cancelled[t]
    BY <1>1 DEF EndedReady
  <2>1. (\E j \in RunJobs : jobs[j].task = t) \/ cancelled[t]
    BY <1>1 DEF Calm, ReadyNotForgotten
  <2> QED
    BY <1>3, <2>1 DEF ReadyTasks, Terminal
<1>7. ReadyNotForgotten' /\ StateFollows'
  BY <1>1, <1>2 DEF Calm, ReadyNotForgotten, StateFollows, Done
<1> QED
  BY <1>5, <1>6, <1>7 DEF Calm

LEMMA CalmEngineStep ==
    ASSUME RunInv, Calm, EngineStep
    PROVE  Calm'
<1>1. /\ EngineNext /\ EngineInv /\ ReadyTasks' = ReadyTasks /\ blocked' = blocked
      /\ UNCHANGED <<pc, batch, ended, runBase>>
  BY DEF EngineStep, schedVars, depVars, RunInv, ReadyTasks, Known, Terminal
<1>2. /\ JobIds' = JobIds
      /\ \A i \in JobIds : jobs'[i].task = jobs[i].task
      /\ \A i \in JobIds : Done(i) => Done(i)' /\ jobs'[i].outcome = jobs[i].outcome
      /\ \A i \in JobIds : Resolved(i) => Resolved(i)'
      /\ cancelled' = cancelled
      /\ \/ state' = state /\ \A i \in JobIds : Done(i)' => Done(i)
         \/ \E j \in JobIds :
               /\ ~ Done(j) /\ ~ Resolved(j)
               /\ \A i \in JobIds : Done(i)' => Done(i) \/ i = j
               /\ state' = [t \in Tasks |->
                     IF t = jobs[j].task THEN Final(jobs'[j].outcome) ELSE state[t]]
  BY <1>1, EngineStepSeen
<1>3. RunJobs' = RunJobs /\ RunJobs \subseteq JobIds /\ 1 .. runBase \subseteq JobIds
  BY <1>1, <1>2 DEF RunJobs, RunInv, SchedTypeOK, JobIds
<1>4. OldResolved' /\ QuietNow' /\ EndedReady'
  BY <1>1, <1>2, <1>3 DEF Calm, OldResolved, QuietNow, EndedReady
<1>5. CASE state' = state /\ \A i \in JobIds : Done(i)' => Done(i)
  <2>1. ReadyNotForgotten'
    BY <1>1, <1>2, <1>3, <1>5 DEF Calm, ReadyNotForgotten
  <2>2. StateFollows'
    BY <1>1, <1>2, <1>3, <1>5 DEF Calm, StateFollows
  <2> QED
    BY <1>4, <2>1, <2>2 DEF Calm
<1>6. ASSUME NEW j \in JobIds, ~ Resolved(j),
             \A i \in JobIds : Done(i)' => Done(i) \/ i = j,
             state' = [t \in Tasks |->
                IF t = jobs[j].task THEN Final(jobs'[j].outcome) ELSE state[t]]
      PROVE  Calm'
  <2>1. j \in RunJobs
    BY <1>6 DEF Calm, OldResolved, RunJobs
  <2>2. \A i \in RunJobs : jobs[i].task \in Tasks /\ (jobs[i].task = jobs[j].task => i = j)
    BY <1>3, <2>1, JobTasks DEF RunInv, OncePerRun
  <2>3. jobs[j].task \notin blocked /\ blocked \subseteq Tasks
    BY <2>1, RanNotBlocked, KnownTasks DEF RunInv, BlockedNeverRan, Terminal
  <2>4. ReadyNotForgotten'
    <3> SUFFICES ASSUME NEW u \in ReadyTasks, pc # "idle"
                 PROVE  \/ u \in batch \/ \E i \in RunJobs : jobs[i].task = u
                        \/ cancelled[u] \/ (pc = "poll" /\ state'[u] = "Ready")
      BY <1>1, <1>2, <1>3 DEF ReadyNotForgotten
    <3>1. u \in Tasks
      BY KnownTasks DEF ReadyTasks
    <3> QED
      BY <1>6, <2>1, <3>1 DEF Calm, ReadyNotForgotten
  <2>5. \A i \in RunJobs : Done(i)' =>
            state'[jobs'[i].task] \in {Final(jobs'[i].outcome), "Cancelled"}
    <3> SUFFICES ASSUME NEW i \in RunJobs, Done(i)'
                 PROVE  state'[jobs[i].task] \in {Final(jobs'[i].outcome), "Cancelled"}
      BY <1>2, <1>3
    <3>1. CASE i = j
      BY <1>6, <2>2, <3>1
    <3>2. CASE i # j
      BY <1>2, <1>3, <1>6, <2>2, <3>2 DEF Calm, StateFollows
    <3> QED
      BY <3>1, <3>2
  <2>6. \A t \in Tasks : state'[t] = "Cancelled" => cancelled[t]
    BY <1>6 DEF Calm, StateFollows, Final
  <2>7. StateFollows'
    BY <1>1, <1>2, <1>3, <1>6, <2>3, <2>5, <2>6 DEF Calm, StateFollows
  <2> QED
    BY <1>4, <2>4, <2>7 DEF Calm
<1> QED
  BY <1>2, <1>5, <1>6

LEMMA CalmClientCancels ==
    ASSUME RunInv, Calm, ClientCancels
    PROVE  Calm'
<1>1. PICK c \in Cancellable :
         /\ Cancel(c) /\ UNCHANGED <<pc, batch, ended, runBase>>
         /\ jobs' = jobs /\ blocked' = blocked /\ ReadyTasks' = ReadyTasks
  BY DEF ClientCancels, schedVars, engineVars, depVars, ReadyTasks, Known, Terminal
<1>2. JobIds' = JobIds /\ RunJobs' = RunJobs
  BY <1>1 DEF JobIds, RunJobs
<1>3. /\ state \in [Tasks -> TaskState] /\ cancelled \in [Tasks -> BOOLEAN]
      /\ \A j \in RunJobs : jobs[j].task \in Tasks
      /\ blocked \subseteq Tasks /\ ReadyTasks \subseteq Tasks
  BY JobTasks, KnownTasks DEF RunInv, EngineInv, EngineTypeOK, TaskTypeOK, RunJobs,
                              ReadyTasks, Terminal
<1>4. /\ state'[c] = "Cancelled" /\ cancelled'[c]
      /\ \A t \in Tasks \ {c} : state'[t] = state[t] /\ cancelled'[t] = cancelled[t]
  BY <1>1, <1>3, SchedulerAssumption DEF Cancel, SchedulerAssumption
<1>5. OldResolved' /\ QuietNow'
  BY <1>1, <1>2 DEF Calm, OldResolved, QuietNow, Resolved
<1>6. EndedReady' /\ ReadyNotForgotten'
  BY <1>1, <1>2, <1>3, <1>4 DEF Calm, EndedReady, ReadyNotForgotten
<1>7. StateFollows'
  BY <1>1, <1>2, <1>3, <1>4 DEF Calm, StateFollows, Done
<1> QED
  BY <1>5, <1>6, <1>7 DEF Calm

LEMMA CalmStep == RunInv /\ CalmInv /\ [Next]_vars => CalmInv'
<1> SUFFICES ASSUME RunInv, CalmInv, [Next]_vars, ~ everThrew' PROVE Calm'
  BY DEF CalmInv
<1>1. \A t \in Tasks : ~ CallbackAborts(t) /\ ~ ForeignAborts(t)
  BY DEF CallbackAborts, ForeignAborts, Leave
<1>2. ~ everThrew
  BY <1>1 DEF Next, Loop, Start, Dispatch, BeginPass, PollPending, HarvestCompleted,
              HarvestFailed, Collect, CollectWith, Finish, Leave, EngineStep,
              ClientCancels, schedVars, vars
<1>3. Calm
  BY <1>2 DEF CalmInv
<1>4. CASE Start
  BY <1>3, <1>4, CalmStart
<1>5. CASE Loop
  <2>1. ASSUME NEW t \in Tasks, PollPending(t) PROVE Calm'
    BY <1>3, <2>1, CalmKept DEF PollPending
  <2> QED
    BY <1>1, <1>3, <1>5, <2>1, CalmDispatch, CalmBeginPass, CalmHarvestCompleted,
       CalmHarvestFailed, CalmCollect, CalmFinish DEF Loop
<1>6. CASE EngineStep
  BY <1>3, <1>6, CalmEngineStep
<1>7. CASE ClientCancels
  BY <1>3, <1>7, CalmClientCancels
<1>8. CASE UNCHANGED vars
  BY <1>3, <1>8, CalmKept DEF vars, schedVars
<1> QED
  BY <1>4, <1>5, <1>6, <1>7, <1>8 DEF Next

LEMMA CalmInvariant == Spec => [](RunInv /\ CalmInv)
  BY CalmInitHolds, CalmStep, RunInvariant, PTL DEF Spec
-----------------------------------------------------------------------------
(* Until execute_internal leaves by an exception, no job of an earlier     *)
(* execution is in the engine when the client may call execute again.      *)
THEOREM NothingRunsBetween == Spec => []QuietBetweenRuns
<1>1. CalmInv => QuietBetweenRuns
  BY DEF CalmInv, Calm, QuietNow, QuietBetweenRuns
<1> QED
  BY <1>1, CalmInvariant, PTL

(* When an execution ended normally, the state that the workers, the       *)
(* scheduler's callbacks and the client stored into a task is its verdict. *)
THEOREM StatesAreVerdicts == Spec => []StatesAgree
<1>1. RunInv /\ CalmInv => StatesAgree
  <2> SUFFICES ASSUME RunInv, Calm, ended = "normal", NEW t \in Tasks,
                      state[t] # "Cancelled"
               PROVE  /\ t \in completed => state[t] = "Completed"
                      /\ t \in failed => state[t] = "Failed"
                      /\ t \in blocked => state[t] = "Blocked"
    BY DEF CalmInv, StatesAgree
  <2>1. ASSUME t \in completed \cup failed
        PROVE  state[t] = IF t \in completed THEN "Completed" ELSE "Failed"
    <3>1. PICK j \in RunJobs :
             /\ jobs[j].task = t /\ Resolved(j)
             /\ jobs[j].outcome = IF t \in completed THEN "ok" ELSE "std"
      BY <2>1 DEF RunInv, VerdictsFromJobs
    <3> QED
      BY <3>1 DEF Calm, StateFollows, Done, Resolved, Final
  <2> QED
    BY <2>1 DEF Calm, StateFollows, RunInv, DepInv, VerdictsDisjoint
<1> QED
  BY <1>1, CalmInvariant, PTL

LEMMA PathFromSelf == \A adj, t : HasPath(adj, t, t)
  BY DEF HasPath

LEMMA PathExtends ==
    ASSUME NEW adj, NEW s \in DOMAIN adj, NEW t \in adj[s], NEW r, HasPath(adj, r, s)
    PROVE  HasPath(adj, r, t)
  BY DEF HasPath, Closed

(* A task without a verdict that no cancelled task leads to would have a   *)
(* first one of its kind, all of whose predecessors completed: it is       *)
(* ready, and a ready task left at a normal end was cancelled.             *)
LEMMA UndecidedHasCancelled ==
    ASSUME RunInv, \A t \in ReadyTasks : cancelled[t],
           NEW t \in Tasks, t \notin Terminal
    PROVE  \E c \in Tasks : cancelled[c] /\ HasPath(graph, c, t)
<1> DEFINE Shaded(u) == \E c \in Tasks : cancelled[c] /\ HasPath(graph, c, u)
           U == {u \in Tasks \ Terminal : ~ Shaded(u)}
<1>1. SUFFICES ASSUME ~ Shaded(t) PROVE FALSE
  OBVIOUS
<1>2. U # {} /\ U \subseteq Tasks /\ DOMAIN graph = Tasks
  BY <1>1, KnownTasks
<1>3. PICK u \in U : \A s \in U : u \notin graph[s]
  <2> HIDE DEF U
  <2> QED
    BY <1>2, KnownTasks DEF IsAcyclic
<1>4. \A p \in Predecessors(graph, u) : p \in Terminal
  <2> SUFFICES ASSUME NEW p \in Predecessors(graph, u), p \notin Terminal PROVE FALSE
    OBVIOUS
  <2>1. p \in Tasks /\ u \in graph[p] /\ p \notin U
    BY <1>2, <1>3 DEF Predecessors
  <2>2. PICK c \in Tasks : cancelled[c] /\ HasPath(graph, c, p)
    BY <2>1
  <2>3. HasPath(graph, c, u)
    BY <1>2, <2>1, <2>2, PathExtends
  <2> QED
    BY <2>2, <2>3
<1>5. Predecessors(graph, u) \subseteq completed
  <2> SUFFICES ASSUME NEW p \in Predecessors(graph, u), p \in failed \cup blocked
               PROVE  FALSE
    BY <1>4 DEF Terminal
  <2>1. p \in Tasks /\ u \in graph[p]
    BY <1>2 DEF Predecessors
  <2> QED
    BY <2>1, KnownTasks DEF RunInv, DepInv, SuccessorsDecided
<1>6. u \in ReadyTasks
  <2>1. Predecessors(successors, u) \ completed = {}
    BY <1>5 DEF RunInv
  <2>2. pending[u] = 0
    BY <2>1, KnownTasks, FS_EmptySet DEF RunInv, DepInv, PendingExact
  <2> QED
    BY <2>2, KnownTasks DEF ReadyTasks
<1> QED
  BY <1>2, <1>6, PathFromSelf

(* Until an execution is abandoned, a normal end of execute_internal       *)
(* leaves a task without a verdict only if it, or one it depends on, was   *)
(* cancelled, whatever order its tasks completed and failed in.            *)
THEOREM EndsDrained == Spec => []DrainedUnlessCancelled
<1>1. RunInv /\ CalmInv => DrainedUnlessCancelled
  BY UndecidedHasCancelled
     DEF CalmInv, Calm, EndedReady, DrainedUnlessCancelled
<1> QED
  BY <1>1, CalmInvariant, PTL
-----------------------------------------------------------------------------
(* Scheduler implements DagExecution, for every graph, pool and policy:    *)
(* each step of its threads is, seen through Verdict, one action of the    *)
(* abstract execution or nothing at all.                                   *)
HandedOver(t) == \E j \in RunJobs : jobs[j].task = t

LEMMA VerdictValue ==
    \A t \in Tasks : Verdict[t] =
        IF t \in completed THEN "completed"
        ELSE IF t \in failed THEN "failed"
        ELSE IF t \in blocked THEN "blocked"
        ELSE IF HandedOver(t) THEN "started"
        ELSE "none"
  BY DEF Verdict, HandedOver

(* Where verdicts and jobs are as before, the abstract state is too. *)
LEMMA VerdictSame ==
    ASSUME UNCHANGED <<completed, failed, blocked>>,
           RunJobs' = RunJobs, \A j \in RunJobs : jobs'[j].task = jobs[j].task
    PROVE  Verdict' = Verdict
  BY DEF Verdict

(* A task with a completed verdict was handed over when all it waits for   *)
(* had completed.                                                          *)
LEMMA CompletedPredsCompleted ==
    ASSUME RunInv, NEW t \in completed
    PROVE  Predecessors(graph, t) \subseteq completed
<1>1. PICK j \in RunJobs : jobs[j].task = t
  BY DEF RunInv, VerdictsFromJobs
<1> QED
  BY <1>1 DEF RunInv, PredsDone

(* What mark_failed(t) blocks is what the abstract failure of t takes      *)
(* down: the search goes through open tasks only, and no path from t to a  *)
(* task without a verdict needs one that has a verdict.                    *)
LEMMA BlocksDescendants ==
    ASSUME RunInv, NEW t \in Tasks, t \notin Terminal,
           NEW u \in Tasks, u # t, u \notin Terminal
    PROVE  u \in NewlyBlocked(t) <=> HasPath(graph, t, u)
<1>1. /\ Known = Tasks /\ successors = graph /\ graph \in [Tasks -> SUBSET Tasks]
      /\ \A s \in Tasks : SuccessorsOf(s) = graph[s]
      /\ DOMAIN graph = Tasks /\ Terminal \subseteq Tasks
  BY KnownTasks DEF RunInv, SuccessorsOf
<1>2. Open(t) = Tasks \ (Terminal \cup {t}) /\ u \in Open(t)
  BY <1>1 DEF Open
<1>3. ASSUME u \in NewlyBlocked(t), NEW C \in SUBSET Tasks, t \in C, Closed(graph, C)
      PROVE  u \in C
  <2> DEFINE D == C \cap Open(t)
  <2>1. \A s \in D \cup {t} : SuccessorsOf(s) \cap Open(t) \subseteq D
    BY <1>1, <1>3 DEF Closed
  <2> HIDE DEF D
  <2>2. D \in SUBSET Open(t)
    BY DEF D
  <2>3. u \in D
    BY <1>3, <2>1, <2>2 DEF NewlyBlocked
  <2> QED
    BY <2>3 DEF D
<1>4. ASSUME HasPath(graph, t, u), NEW C \in SUBSET Open(t),
             \A s \in C \cup {t} : SuccessorsOf(s) \cap Open(t) \subseteq C
      PROVE  u \in C
  <2> DEFINE D == C \cup {t} \cup failed \cup blocked
  <2>1. D \in SUBSET Tasks /\ t \in D
    BY <1>1, <1>2 DEF Terminal
  <2>2. ASSUME NEW s \in D, NEW x \in graph[s] PROVE x \in D
    <3>1. s \in Tasks /\ x \in Tasks /\ s \notin completed
      BY <1>1, <1>2, <2>1 DEF Terminal, RunInv, DepInv, VerdictsDisjoint
    <3>2. x \notin completed
      BY <1>1, <3>1, CompletedPredsCompleted DEF Predecessors
    <3>3. CASE s \in C \cup {t}
      BY <1>1, <1>2, <1>4, <3>1, <3>2, <3>3 DEF Terminal
    <3>4. CASE s \in failed \cup blocked
      BY <1>1, <3>1, <3>2, <3>4 DEF Terminal, RunInv, DepInv, SuccessorsDecided
    <3> QED
      BY <3>3, <3>4
  <2>3. Closed(graph, D)
    BY <2>2 DEF Closed
  <2>4. u \in D
    <3> HIDE DEF D
    <3> QED
      BY <1>1, <1>4, <2>1, <2>3 DEF HasPath
  <2> QED
    BY <2>4 DEF Terminal
<1>5. u \in NewlyBlocked(t) => HasPath(graph, t, u)
  BY <1>1, <1>3 DEF HasPath
<1>6. HasPath(graph, t, u) => u \in NewlyBlocked(t)
  BY <1>2, <1>4 DEF NewlyBlocked
<1> QED
  BY <1>5, <1>6
-----------------------------------------------------------------------------
LEMMA InitMaps == Init => Dag!DagInit
<1> SUFFICES ASSUME Init PROVE Dag!DagInit
  OBVIOUS
<1>1. RunJobs = {}
  BY DEF Init, EngineInit, RunJobs, JobIds
<1>2. Verdict = Dag!Undecided
  BY <1>1 DEF Init, Verdict, Dag!Undecided
<1> QED
  BY <1>2 DEF Init, EngineInit, TaskInit, Dag!DagInit

LEMMA StartMaps ==
    ASSUME RunInv, Start
    PROVE  Dag!Begin
<1>1. /\ completed' = {} /\ failed' = {} /\ blocked' = {}
      /\ jobs' = jobs /\ runBase' = Len(jobs)
  BY DEF Start, InitFromGraph, engineVars
<1>2. RunJobs' = {}
  BY <1>1 DEF RunJobs, JobIds
<1>3. Verdict' = Dag!Undecided
  BY <1>1, <1>2 DEF Verdict, Dag!Undecided
<1> QED
  BY <1>3 DEF Start, taskVars, Dag!Begin

LEMMA DispatchMaps ==
    ASSUME RunInv, NEW t \in Tasks, NEW d \in Device, Dispatch(t, d)
    PROVE  Dag!StartTask(t)
<1> DEFINE n == Len(jobs) + 1
<1>1. /\ pc = "dispatch" /\ pc' = pc /\ graph' = graph /\ everThrew' = everThrew
      /\ runBase' = runBase /\ cancelled' = cancelled
      /\ completed' = completed /\ failed' = failed /\ blocked' = blocked
      /\ t \in batch /\ ExecuteTask(t, d)
  BY DEF Dispatch, ExecuteTask, MarkTaskRunning, Mark, depVars
<1>2. /\ JobIds' = JobIds \cup {n} /\ n \notin JobIds
      /\ \A i \in JobIds : jobs'[i] = jobs[i]
      /\ jobs'[n] = [task |-> t, device |-> d, phase |-> "waiting", outcome |-> "none"]
  BY <1>1, OneJobMore DEF RunInv, EngineInv
<1>3. RunJobs' = RunJobs \cup {n} /\ RunJobs \subseteq JobIds
  <2>1. Len(jobs) \in Nat /\ runBase \in 0 .. Len(jobs)
    BY JobTasks DEF RunInv, SchedTypeOK
  <2> QED
    BY <1>1, <1>2, <2>1 DEF RunJobs
<1>4. t \in ReadyTasks /\ NotHandedOver(t)
  BY <1>1 DEF RunInv, BatchFresh
<1>5. t \notin Terminal /\ Predecessors(graph, t) \subseteq completed
  BY <1>4, ReadyPredsDone DEF ReadyTasks
<1>6. jobs'[n].task = t
  BY <1>2
<1> HIDE DEF n
<1>7. \A u \in Tasks : HandedOver(u)' <=> HandedOver(u) \/ u = t
  BY <1>2, <1>3, <1>6 DEF HandedOver
<1>8. Verdict[t] = "none"
  BY <1>4, <1>5, VerdictValue DEF Terminal, HandedOver, NotHandedOver
<1>9. \A p \in Predecessors(graph, t) : Verdict[p] = "completed"
  BY <1>5, VerdictValue, KnownTasks DEF Terminal
<1>10. Verdict' = [Verdict EXCEPT ![t] = "started"]
  BY <1>1, <1>5, <1>7 DEF Verdict, HandedOver, Terminal
<1> QED
  BY <1>1, <1>8, <1>9, <1>10 DEF Dag!StartTask, Dag!Predecessors, Predecessors

(* A task whose future is harvested is "started". *)
LEMMA PolledStarted ==
    ASSUME RunInv, NEW t \in Tasks, NEW o, PollResolved(t, o)
    PROVE  pc # "idle" /\ t \notin Terminal /\ HandedOver(t) /\ Verdict[t] = "started"
<1>1. pc = "poll" /\ t \notin Terminal /\ HandedOver(t)
  BY PolledTask DEF HandedOver
<1> QED
  BY <1>1, VerdictValue DEF Terminal

LEMMA HarvestCompletedMaps ==
    ASSUME RunInv, NEW t \in Tasks, HarvestCompleted(t)
    PROVE  Dag!CompleteTask(t)
<1>1. /\ PollResolved(t, "ok") /\ MarkCompleted(t)
      /\ pc' = pc /\ graph' = graph /\ everThrew' = everThrew /\ cancelled' = cancelled
      /\ runBase' = runBase /\ jobs' = jobs
  BY DEF HarvestCompleted, MarkTasksReady, Mark, engineVars
<1>2. pc # "idle" /\ t \notin Terminal /\ Verdict[t] = "started"
  BY <1>1, PolledStarted
<1>3. completed' = completed \cup {t} /\ failed' = failed /\ blocked' = blocked
  BY <1>1, <1>2 DEF MarkCompleted
<1>4. RunJobs' = RunJobs
  BY <1>1 DEF RunJobs, JobIds
<1>5. Verdict' = [Verdict EXCEPT ![t] = "completed"]
  BY <1>1, <1>3, <1>4 DEF Verdict
<1> QED
  BY <1>1, <1>2, <1>5 DEF Dag!CompleteTask

LEMMA FailureMaps ==
    ASSUME RunInv, NEW t \in Tasks, PollResolved(t, "std"), MarkFailed(t),
           MarkTasksBlocked(NewlyBlocked(t)),
           UNCHANGED <<graph, runBase>>, UNCHANGED engineVars,
           ended' \in {"none", "threw"},
           everThrew' = (everThrew \/ pc' = "idle")
    PROVE  Dag!FailTask(t)
<1>1. /\ BlockedNeverRan' /\ jobs' = jobs /\ RunJobs' = RunJobs
      /\ completed' = completed /\ failed' = failed \cup {t}
      /\ blocked' = blocked \cup NewlyBlocked(t)
  BY FailureRecorded
<1>2. pc # "idle" /\ t \notin Terminal /\ HandedOver(t) /\ Verdict[t] = "started"
  BY PolledStarted
<1>3. \A u \in Tasks : u \in NewlyBlocked(t) =>
          u # t /\ u \notin Terminal /\ ~ HandedOver(u)
  BY <1>1 DEF NewlyBlocked, Open, BlockedNeverRan, HandedOver
<1>4. \A u \in Tasks \ {t} : u \notin Terminal =>
          (u \in NewlyBlocked(t) <=> HasPath(graph, t, u))
  BY <1>2, BlocksDescendants
<1>5. ASSUME NEW u \in Tasks
      PROVE  Verdict'[u] =
                IF u = t THEN "failed"
                ELSE IF Verdict[u] = "none" /\ HasPath(graph, t, u) THEN "blocked"
                ELSE Verdict[u]
  <2>1. Verdict'[u] = IF u \in completed THEN "completed"
                      ELSE IF u \in failed \cup {t} THEN "failed"
                      ELSE IF u \in blocked \cup NewlyBlocked(t) THEN "blocked"
                      ELSE IF HandedOver(u) THEN "started"
                      ELSE "none"
    BY <1>1 DEF Verdict, HandedOver
  <2>2. CASE u = t
    BY <1>2, <2>1, <2>2 DEF Terminal
  <2>3. CASE u \in Terminal
    BY <1>2, <1>3, <2>1, <2>3, VerdictValue DEF Terminal
  <2>4. CASE u # t /\ u \notin Terminal /\ u \in NewlyBlocked(t)
    BY <1>3, <1>4, <2>1, <2>4, VerdictValue DEF Terminal
  <2>5. CASE u # t /\ u \notin Terminal /\ u \notin NewlyBlocked(t)
    BY <1>4, <2>1, <2>5, VerdictValue DEF Terminal
  <2> QED
    BY <2>2, <2>3, <2>4, <2>5
<1>6. Verdict' = [u \in Tasks |->
           IF u = t THEN "failed"
           ELSE IF Verdict[u] = "none" /\ HasPath(graph, t, u) THEN "blocked"
           ELSE Verdict[u]]
  BY <1>5 DEF Verdict
<1>7. cancelled' = cancelled
  BY DEF MarkTasksBlocked, Mark
<1> QED
  BY <1>2, <1>6, <1>7
     DEF Dag!FailTask, Dag!HasPath, Dag!Closed, HasPath, Closed

LEMMA FinishMaps ==
    ASSUME RunInv, CalmInv, Finish
    PROVE  Dag!Return
<1>1. /\ pc = "dispatch" /\ pc' = "idle" /\ InFlight = {} /\ ended' = "normal"
      /\ graph' = graph /\ runBase' = runBase /\ jobs' = jobs
      /\ (everThrew' <=> everThrew) /\ cancelled' = cancelled
      /\ completed' = completed /\ failed' = failed /\ blocked' = blocked
      /\ ReadyTasks' = ReadyTasks
  BY DEF Finish, Leave, engineVars, taskVars, depVars, ReadyTasks, Known, Terminal
<1>2. everThrew' = everThrew
  BY DEF Finish, Leave, RunInv, SchedTypeOK
<1>3. \A j \in RunJobs : jobs[j].task \in completed \cup failed
  <2>1. Accounted
    BY DEF RunInv
  <2> QED
    BY <1>1, <2>1 DEF Accounted
<1>4. \A t \in Tasks : Verdict[t] # "started"
  BY <1>3, VerdictValue DEF HandedOver
<1>5. ASSUME NEW t \in Tasks, Verdict[t] = "none", ~ everThrew
      PROVE  \E c \in Tasks : cancelled[c] /\ HasPath(graph, c, t)
  <2>1. t \notin Terminal
    BY <1>5, VerdictValue DEF Terminal
  <2>2. \A u \in ReadyTasks : cancelled[u]
    BY <1>1, <1>5, CalmFinish DEF CalmInv, Calm, EndedReady
  <2> QED
    BY <2>1, <2>2, UndecidedHasCancelled
<1>6. Verdict' = Verdict
  <2>1. RunJobs' = RunJobs
    BY <1>1 DEF RunJobs, JobIds
  <2> QED
    BY <1>1, <2>1, VerdictSame
<1> QED
  BY <1>1, <1>2, <1>4, <1>5, <1>6
     DEF Dag!Return, Dag!HasPath, Dag!Closed, HasPath, Closed

LEMMA ForeignAbortsMaps ==
    ASSUME RunInv, NEW t \in Tasks, ForeignAborts(t)
    PROVE  Dag!Abandon
<1>1. /\ PollResolved(t, "other") /\ pc' = "idle" /\ everThrew' = TRUE
      /\ graph' = graph /\ runBase' = runBase /\ jobs' = jobs /\ cancelled' = cancelled
      /\ completed' = completed /\ failed' = failed /\ blocked' = blocked
  BY DEF ForeignAborts, Leave, engineVars, taskVars, depVars
<1>2. RunJobs' = RunJobs
  BY <1>1 DEF RunJobs, JobIds
<1>3. Verdict' = Verdict
  BY <1>1, <1>2, VerdictSame
<1> QED
  BY <1>1, <1>3, PolledStarted DEF Dag!Abandon

(* What DagExecution does not see. *)
LEMMA Unseen ==
    ASSUME UNCHANGED <<graph, pc, everThrew, runBase, cancelled>>, UNCHANGED depVars,
           JobIds' = JobIds, \A i \in JobIds : jobs'[i].task = jobs[i].task
    PROVE  Verdict' = Verdict /\ UNCHANGED Dag!dagVars
<1>1. /\ RunJobs' = RunJobs /\ \A j \in RunJobs : jobs'[j].task = jobs[j].task
      /\ completed' = completed /\ failed' = failed /\ blocked' = blocked
  BY DEF RunJobs, depVars
<1>2. Verdict' = Verdict
  BY <1>1, VerdictSame
<1> QED
  BY <1>2 DEF Dag!dagVars

LEMMA StepMaps ==
    ASSUME RunInv, CalmInv, [Next]_vars
    PROVE  [Dag!DagNext]_(Dag!dagVars)
<1>1. CASE Start
  BY <1>1, StartMaps DEF Dag!DagNext
<1>2. ASSUME NEW t \in Tasks, NEW d \in Device, Dispatch(t, d)
      PROVE  Dag!DagNext
  BY <1>2, DispatchMaps DEF Dag!DagNext
<1>3. ASSUME BeginPass \/ Collect \/ \E t \in Tasks : PollPending(t)
      PROVE  UNCHANGED Dag!dagVars
  <2>1. /\ pc' = "idle" <=> pc = "idle"
        /\ UNCHANGED <<graph, everThrew, runBase, cancelled>> /\ UNCHANGED depVars
        /\ jobs' = jobs
    BY <1>3 DEF BeginPass, Collect, CollectWith, PollPending, engineVars, taskVars
  <2>2. /\ RunJobs' = RunJobs
        /\ completed' = completed /\ failed' = failed /\ blocked' = blocked
    BY <2>1 DEF RunJobs, JobIds, depVars
  <2>3. Verdict' = Verdict
    BY <2>1, <2>2, VerdictSame
  <2> QED
    BY <2>1, <2>3 DEF Dag!dagVars
<1>4. ASSUME NEW t \in Tasks, HarvestCompleted(t) PROVE Dag!DagNext
  BY <1>4, HarvestCompletedMaps DEF Dag!DagNext
<1>5. ASSUME NEW t \in Tasks, HarvestFailed(t) PROVE Dag!DagNext
  <2>1. /\ PollResolved(t, "std") /\ MarkFailed(t) /\ MarkTasksBlocked(NewlyBlocked(t))
        /\ UNCHANGED <<graph, runBase, pc, ended, everThrew>> /\ UNCHANGED engineVars
    BY <1>5 DEF HarvestFailed
  <2>2. ended = "none" /\ pc = "poll" /\ everThrew \in BOOLEAN
    BY <2>1, PolledTask DEF RunInv, SchedTypeOK
  <2>3. everThrew' = (everThrew \/ pc' = "idle") /\ ended' \in {"none", "threw"}
    BY <2>1, <2>2
  <2> QED
    BY <2>1, <2>3, FailureMaps DEF Dag!DagNext
<1>6. ASSUME NEW t \in Tasks, CallbackAborts(t) PROVE Dag!DagNext
  <2>1. /\ PollResolved(t, "std") /\ MarkFailed(t) /\ MarkTasksBlocked(NewlyBlocked(t))
        /\ UNCHANGED <<graph, runBase>> /\ UNCHANGED engineVars
        /\ ended' \in {"none", "threw"} /\ everThrew' = (everThrew \/ pc' = "idle")
    BY <1>6 DEF CallbackAborts, Leave
  <2> QED
    BY <2>1, FailureMaps DEF Dag!DagNext
<1>7. ASSUME NEW t \in Tasks, ForeignAborts(t) PROVE Dag!DagNext
  BY <1>7, ForeignAbortsMaps DEF Dag!DagNext
<1>8. CASE Finish
  BY <1>8, FinishMaps DEF Dag!DagNext
<1>9. CASE EngineStep
  <2>1. /\ EngineNext /\ EngineInv /\ UNCHANGED depVars
        /\ UNCHANGED <<graph, pc, everThrew, runBase>>
    BY <1>9 DEF EngineStep, schedVars, RunInv
  <2>2. /\ JobIds' = JobIds /\ cancelled' = cancelled
        /\ \A i \in JobIds : jobs'[i].task = jobs[i].task
    BY <2>1, EngineStepSeen
  <2> QED
    BY <2>1, <2>2, Unseen
<1>10. CASE ClientCancels
  <2>1. PICK c \in Tasks :
           /\ Cancel(c) /\ UNCHANGED <<graph, pc, everThrew, runBase>>
           /\ jobs' = jobs
           /\ completed' = completed /\ failed' = failed /\ blocked' = blocked
    BY <1>10, SchedulerAssumption
       DEF ClientCancels, SchedulerAssumption, schedVars, engineVars, depVars
  <2>2. RunJobs' = RunJobs
    BY <2>1 DEF RunJobs, JobIds
  <2>3. Verdict' = Verdict
    BY <2>1, <2>2, VerdictSame
  <2>4. Dag!CancelTask(c)
    BY <2>1, <2>3 DEF Dag!CancelTask, Cancel
  <2> QED
    BY <2>4 DEF Dag!DagNext
<1>11. CASE UNCHANGED vars
  <2>1. /\ UNCHANGED <<graph, pc, everThrew, runBase, cancelled>> /\ UNCHANGED depVars
        /\ jobs' = jobs
    BY <1>11 DEF vars, schedVars, engineVars, taskVars
  <2>2. JobIds' = JobIds
    BY <2>1 DEF JobIds
  <2> QED
    BY <2>1, <2>2, Unseen
<1> QED
  BY <1>1, <1>2, <1>3, <1>4, <1>5, <1>6, <1>7, <1>8, <1>9, <1>10, <1>11
     DEF Next, Loop

(* execute_internal, with the engine, the dependency manager and the       *)
(* client around it, implements the abstract execution of a graph: at most *)
(* one verdict per task, a start only after all predecessors completed, a  *)
(* failure that takes down exactly the undecided descendants, and a normal *)
(* end that leaves nothing undecided but what waits for a cancelled task.  *)
THEOREM SchedulerImplementsDag == Spec => ImplementsDag
<1>1. RunInv /\ CalmInv /\ [Next]_vars => [Dag!DagNext]_(Dag!dagVars)
  BY StepMaps
<1> QED
  BY <1>1, InitMaps, CalmInvariant, PTL DEF Spec, ImplementsDag, Dag!DagSpec
=============================================================================
