--------------------------- MODULE SchedulerProofs ---------------------------
(***************************************************************************)
(* Proofs about Scheduler for every number of tasks, workers, streams and  *)
(* executions, every policy and every set of acyclic graphs.               *)
(*                                                                         *)
(* RunInv is inductive and holds whatever happens, executions abandoned by *)
(* an exception included.  Its core: a task handed to the engine has all   *)
(* its predecessors completed (PredsDone), it is either in flight or has   *)
(* its verdict (Accounted), and a batch holds ready tasks not yet handed   *)
(* over (BatchFresh).                                                      *)
(***************************************************************************)
EXTENDS Scheduler, DependencyManagerProofs, SequenceTheorems, FiniteSetTheorems, TLAPS

(* ExecutionEngine.  What its steps preserve, for every number of jobs,    *)
(* workers and streams: the types, the active counts, and that the CPU     *)
(* queue holds the waiting CPU jobs in the order of the calls.  The engine *)
(* has no specification of its own; the scheduler's proofs use the lemmas. *)
CpuWaiting == OnDevice("CPU") \cap InPhase({"waiting"})

(* The queue holds the CPU jobs that wait, each once and in order. *)
QueueExact ==
    /\ \A k \in 1 .. Len(cpuQueue) : cpuQueue[k] \in CpuWaiting
    /\ \A j \in CpuWaiting : \E k \in 1 .. Len(cpuQueue) : cpuQueue[k] = j
    /\ \A k, l \in 1 .. Len(cpuQueue) : k < l => cpuQueue[k] < cpuQueue[l]

EngineInv == EngineTypeOK /\ ActiveExact /\ QueueExact /\ StartsInOrder

(* A step that changes one job, in its phase and perhaps its outcome. *)
LEMMA OneJobChanges ==
    ASSUME jobs \in Seq(Job), NEW j \in JobIds, NEW p \in Phase,
           NEW o \in OutcomeKinds \cup {"none"},
           jobs' = [jobs EXCEPT ![j].phase = p, ![j].outcome = o]
    PROVE  /\ jobs' \in Seq(Job)
           /\ Len(jobs') = Len(jobs)
           /\ JobIds' = JobIds
           /\ \A i \in JobIds : i # j => jobs'[i] = jobs[i]
           /\ jobs'[j].task = jobs[j].task
           /\ jobs'[j].device = jobs[j].device
           /\ jobs'[j].phase = p
           /\ jobs'[j].outcome = o
<1> DEFINE e == [jobs[j] EXCEPT !.phase = p, !.outcome = o]
<1>1. jobs[j] \in Job
  BY ElementOfSeq DEF JobIds
<1>2. /\ e \in Job
      /\ e.task = jobs[j].task /\ e.device = jobs[j].device
      /\ e.phase = p /\ e.outcome = o
  BY <1>1 DEF Job
<1>3. jobs' = [jobs EXCEPT ![j] = e]
  BY <1>1 DEF JobIds, Job
<1> HIDE DEF e
<1>4. /\ jobs' \in Seq(Job) /\ Len(jobs') = Len(jobs)
      /\ \A i \in 1 .. Len(jobs) : jobs'[i] = IF i = j THEN e ELSE jobs[i]
  <2>1. j \in 1 .. Len(jobs) /\ e \in Job
    BY <1>2 DEF JobIds
  <2>2. /\ [jobs EXCEPT ![j] = e] \in Seq(Job)
        /\ Len([jobs EXCEPT ![j] = e]) = Len(jobs)
        /\ \A i \in 1 .. Len(jobs) :
               [jobs EXCEPT ![j] = e][i] = IF i = j THEN e ELSE jobs[i]
    BY <2>1, ExceptSeq
  <2> QED
    BY <1>3, <2>2
<1> QED
  BY <1>2, <1>4 DEF JobIds

LEMMA AdvanceOne ==
    ASSUME jobs \in Seq(Job), NEW j \in JobIds, NEW from, NEW to \in Phase,
           Advance(j, from, to)
    PROVE  /\ jobs' \in Seq(Job)
           /\ Len(jobs') = Len(jobs)
           /\ JobIds' = JobIds
           /\ \A i \in JobIds : i # j => jobs'[i] = jobs[i]
           /\ jobs'[j].task = jobs[j].task
           /\ jobs'[j].device = jobs[j].device
           /\ jobs[j].phase = from /\ jobs'[j].phase = to
           /\ jobs'[j].outcome = jobs[j].outcome
<1> DEFINE e == [jobs[j] EXCEPT !.phase = to]
<1>1. jobs[j] \in Job
  BY ElementOfSeq DEF JobIds
<1>2. /\ e \in Job
      /\ e.task = jobs[j].task /\ e.device = jobs[j].device
      /\ e.phase = to /\ e.outcome = jobs[j].outcome
  BY <1>1 DEF Job
<1>3. jobs' = [jobs EXCEPT ![j] = e] /\ jobs[j].phase = from
  BY <1>1 DEF Advance
<1> HIDE DEF e
<1> QED
  BY <1>2, <1>3, ExceptSeq DEF JobIds

(* execute_task appends a job. *)
LEMMA OneJobMore ==
    ASSUME EngineTypeOK, NEW t \in Tasks, NEW d \in Device, ExecuteTask(t, d)
    PROVE  /\ jobs' \in Seq(Job)
           /\ Len(jobs') = Len(jobs) + 1
           /\ JobIds' = JobIds \cup {Len(jobs) + 1}
           /\ Len(jobs) + 1 \notin JobIds
           /\ \A i \in JobIds : jobs'[i] = jobs[i]
           /\ jobs'[Len(jobs) + 1] = [task |-> t, device |-> d, phase |-> "waiting",
                                      outcome |-> "none"]
<1> DEFINE e == [task |-> t, device |-> d, phase |-> "waiting", outcome |-> "none"]
<1>1. e \in Job
  BY DEF Job, Phase
<1>2. jobs' = Append(jobs, e) /\ jobs \in Seq(Job)
  BY DEF ExecuteTask, EngineTypeOK
<1>3. Len(jobs) \in Nat
  BY <1>2, LenProperties
<1> HIDE DEF e
<1>4. /\ jobs' \in Seq(Job)
      /\ Len(jobs') = Len(jobs) + 1
      /\ \A i \in 1 .. Len(jobs) : jobs'[i] = jobs[i]
      /\ jobs'[Len(jobs) + 1] = e
  BY <1>1, <1>2, AppendProperties
<1> QED
  BY <1>3, <1>4 DEF JobIds, e

(* The jobs the active count of device d is to count. *)
Counted(d) == OnDevice(d) \ InPhase({"retired"})

LEMMA CountedFinite ==
    ASSUME EngineTypeOK, NEW d
    PROVE  IsFiniteSet(Counted(d)) /\ Cardinality(Counted(d)) \in Nat
<1>1. Len(jobs) \in Nat
  BY LenProperties DEF EngineTypeOK
<1>2. IsFiniteSet(JobIds)
  BY <1>1, FS_Interval DEF JobIds
<1>3. Counted(d) \subseteq JobIds
  BY DEF Counted, OnDevice
<1>4. IsFiniteSet(Counted(d))
  BY <1>2, <1>3, FS_Subset
<1> QED
  BY <1>4, FS_CardinalityType

(* A job that moves on without retiring is counted as before. *)
LEMMA CountKept ==
    ASSUME EngineTypeOK, ActiveExact, NEW j \in JobIds,
           JobIds' = JobIds, \A i \in JobIds : i # j => jobs'[i] = jobs[i],
           jobs'[j].device = jobs[j].device,
           jobs[j].phase # "retired", jobs'[j].phase # "retired",
           active' = active
    PROVE  ActiveExact'
<1>1. \A d \in Device : Counted(d)' = Counted(d)
  BY DEF Counted, OnDevice, InPhase
<1> QED
  BY <1>1 DEF ActiveExact, Counted

(* Nothing that waits in the queue moves: the queue and the order stay.    *)
LEMMA QueueKept ==
    ASSUME QueueExact, StartsInOrder, NEW j \in JobIds,
           JobIds' = JobIds, \A i \in JobIds : i # j => jobs'[i] = jobs[i],
           jobs'[j].device = jobs[j].device,
           jobs[j].phase # "waiting" \/ jobs[j].device # "CPU",
           jobs'[j].phase # "waiting" \/ jobs[j].device # "CPU",
           cpuQueue' = cpuQueue
    PROVE  QueueExact' /\ StartsInOrder'
<1>1. CpuWaiting' = CpuWaiting /\ OnDevice("CPU")' = OnDevice("CPU")
  BY DEF CpuWaiting, OnDevice, InPhase
<1>2. QueueExact'
  BY <1>1 DEF QueueExact
<1>3. \A i \in OnDevice("CPU") : jobs[i].phase = "waiting" <=> i \in CpuWaiting
  BY DEF CpuWaiting, OnDevice, InPhase
<1>4. \A i \in OnDevice("CPU") : jobs'[i].phase = "waiting" <=> i \in CpuWaiting
  BY <1>1 DEF CpuWaiting, OnDevice, InPhase
<1> QED
  BY <1>1, <1>2, <1>3, <1>4 DEF StartsInOrder

LEMMA MarkTypes ==
    ASSUME TaskTypeOK, NEW S, NEW s \in TaskState, Mark(S, s)
    PROVE  TaskTypeOK'
  BY DEF TaskTypeOK, Mark

LEMMA ExecutePreserves ==
    ASSUME EngineInv, NEW t \in Tasks, NEW d \in Device, ExecuteTask(t, d)
    PROVE  EngineInv'
<1> DEFINE n == Len(jobs) + 1
<1>1. /\ jobs' \in Seq(Job)
      /\ Len(jobs') = Len(jobs) + 1
      /\ JobIds' = JobIds \cup {n} /\ n \notin JobIds
      /\ \A i \in JobIds : jobs'[i] = jobs[i]
      /\ jobs'[n].device = d /\ jobs'[n].phase = "waiting"
  <2>1. EngineTypeOK
    BY DEF EngineInv
  <2>2. /\ jobs' \in Seq(Job)
        /\ Len(jobs') = Len(jobs) + 1
        /\ JobIds' = JobIds \cup {n} /\ n \notin JobIds
        /\ \A i \in JobIds : jobs'[i] = jobs[i]
        /\ jobs'[n] = [task |-> t, device |-> d, phase |-> "waiting",
                       outcome |-> "none"]
    BY <2>1, OneJobMore
  <2> QED
    BY <2>2
<1>2. Len(jobs) \in Nat
  BY LenProperties DEF EngineInv, EngineTypeOK
<1>3. TaskTypeOK'
  BY MarkTypes DEF EngineInv, EngineTypeOK, ExecuteTask, MarkTaskRunning, TaskState
<1>4. cpuQueue \in Seq(JobIds')
  BY <1>1, SeqMonotonic DEF EngineInv, EngineTypeOK
<1>5. active' \in [Device -> Nat] /\ ActiveExact'
  <2>1. \A e \in Device :
            Counted(e)' = IF e = d THEN Counted(e) \cup {n} ELSE Counted(e)
    BY <1>1 DEF Counted, OnDevice, InPhase
  <2>2. n \notin Counted(d)
    BY <1>1 DEF Counted, OnDevice
  <2>3. \A e \in Device : IsFiniteSet(Counted(e)) /\ Cardinality(Counted(e)) \in Nat
    BY CountedFinite DEF EngineInv
  <2>4. Cardinality(Counted(d) \cup {n}) = Cardinality(Counted(d)) + 1
    BY <2>2, <2>3, FS_AddElement
  <2>5. \A e \in Device : active'[e] = Cardinality(Counted(e)')
    BY <2>1, <2>4 DEF EngineInv, EngineTypeOK, ActiveExact, ExecuteTask, Counted
  <2>6. active' \in [Device -> Nat]
    BY DEF EngineInv, EngineTypeOK, ExecuteTask
  <2> QED
    BY <2>5, <2>6 DEF ActiveExact, Counted
<1>6. StartsInOrder'
  <2>1. \A i \in OnDevice("CPU")' : i = n \/ i \in OnDevice("CPU")
    BY <1>1 DEF OnDevice
  <2>2. \A i \in OnDevice("CPU") : i < n /\ jobs'[i].phase = jobs[i].phase
    BY <1>1, <1>2 DEF OnDevice, JobIds
  <2>3. \A i, j \in OnDevice("CPU")' : i < j => i \in OnDevice("CPU")
    <3>1. OnDevice("CPU") \subseteq Nat /\ n \in Nat
      BY <1>2 DEF OnDevice, JobIds
    <3> QED
      BY <2>1, <2>2, <3>1
  <2>4. StartsInOrder
    BY DEF EngineInv
  <2> QED
    BY <1>1, <2>1, <2>2, <2>3, <2>4 DEF StartsInOrder
<1>7. CASE d = "CPU"
  <2>1. cpuQueue' = Append(cpuQueue, n)
    BY <1>7 DEF ExecuteTask
  <2>2. n \in JobIds'
    BY <1>1
  <2> HIDE DEF n
  <2>3. /\ cpuQueue' \in Seq(JobIds')
        /\ Len(cpuQueue') = Len(cpuQueue) + 1
        /\ \A k \in 1 .. Len(cpuQueue) : cpuQueue'[k] = cpuQueue[k]
        /\ cpuQueue'[Len(cpuQueue) + 1] = n
    BY <1>4, <2>1, <2>2, AppendProperties
  <2>4. CpuWaiting' = CpuWaiting \cup {n}
    BY <1>1, <1>7 DEF CpuWaiting, OnDevice, InPhase
  <2>5. Len(cpuQueue) \in Nat
    BY <1>4, LenProperties
  <2>6. \A j \in CpuWaiting : j < n
    BY <1>2 DEF CpuWaiting, OnDevice, JobIds, n
  <2>7. CpuWaiting \subseteq Nat /\ n \in Nat
    BY <1>2 DEF CpuWaiting, OnDevice, JobIds, n
  <2>8. QueueExact'
    <3>1. \A k \in 1 .. Len(cpuQueue') : cpuQueue'[k] \in CpuWaiting'
      BY <2>3, <2>4, <2>5 DEF EngineInv, QueueExact
    <3>2. \A j \in CpuWaiting' : \E k \in 1 .. Len(cpuQueue') : cpuQueue'[k] = j
      BY <2>3, <2>4, <2>5 DEF EngineInv, QueueExact
    <3>3. \A k, l \in 1 .. Len(cpuQueue') : k < l => cpuQueue'[k] < cpuQueue'[l]
      BY <2>3, <2>5, <2>6 DEF EngineInv, QueueExact
    <3> QED
      BY <3>1, <3>2, <3>3 DEF QueueExact
  <2> QED
    BY <1>1, <1>3, <1>5, <1>6, <2>3, <2>8 DEF EngineInv, EngineTypeOK
<1>8. CASE d # "CPU"
  <2>1. cpuQueue' = cpuQueue
    BY <1>8 DEF ExecuteTask
  <2>2. CpuWaiting' = CpuWaiting
    BY <1>1, <1>8 DEF CpuWaiting, OnDevice, InPhase
  <2>3. QueueExact'
    BY <2>1, <2>2 DEF EngineInv, QueueExact
  <2> QED
    BY <1>1, <1>3, <1>4, <1>5, <1>6, <2>1, <2>3 DEF EngineInv, EngineTypeOK
<1> QED
  BY <1>7, <1>8

(* Taking the front of the queue: the smallest waiting CPU job moves on.   *)
LEMMA TakePreserves ==
    ASSUME EngineInv, TakeFromQueue
    PROVE  EngineInv'
<1> DEFINE h == Head(cpuQueue)
<1>1. /\ EngineTypeOK /\ ActiveExact /\ QueueExact /\ StartsInOrder
      /\ cpuQueue # <<>>
      /\ Advance(h, "waiting", "holding")
      /\ cpuQueue' = Tail(cpuQueue)
      /\ active' = active /\ UNCHANGED taskVars
  BY DEF EngineInv, TakeFromQueue
<1>2. cpuQueue \in Seq(JobIds) /\ jobs \in Seq(Job)
  BY <1>1 DEF EngineTypeOK
<1>3. /\ h \in JobIds
      /\ cpuQueue' \in Seq(JobIds)
      /\ Len(cpuQueue') = Len(cpuQueue) - 1
      /\ \A k \in 1 .. Len(cpuQueue') : cpuQueue'[k] = cpuQueue[k + 1]
  BY <1>1, <1>2, HeadTailProperties
<1>4. /\ Len(cpuQueue) \in Nat /\ Len(cpuQueue) > 0
      /\ h = cpuQueue[1]
  BY <1>1, <1>2, LenProperties, EmptySeq
<1> HIDE DEF h
<1>5. "holding" \in Phase
  BY DEF Phase
<1>6. /\ jobs' \in Seq(Job)
      /\ JobIds' = JobIds
      /\ \A i \in JobIds : i # h => jobs'[i] = jobs[i]
      /\ jobs'[h].device = jobs[h].device
      /\ jobs[h].phase = "waiting" /\ jobs'[h].phase = "holding"
  BY <1>1, <1>2, <1>3, <1>5, AdvanceOne
<1>7. EngineTypeOK'
  BY <1>1, <1>3, <1>6 DEF EngineTypeOK, TaskTypeOK, taskVars
<1>8. ActiveExact'
  BY <1>1, <1>3, <1>6, CountKept
<1>9. h \in CpuWaiting
  BY <1>1, <1>4 DEF QueueExact
<1>10. CpuWaiting' = CpuWaiting \ {h}
  BY <1>3, <1>6 DEF CpuWaiting, OnDevice, InPhase
<1>11. QueueExact'
  <2>1. \A k, l \in 1 .. Len(cpuQueue') : k < l => cpuQueue'[k] < cpuQueue'[l]
    BY <1>1, <1>3, <1>4 DEF QueueExact
  <2>2. \A k \in 1 .. Len(cpuQueue') : cpuQueue'[k] \in CpuWaiting'
    <3> SUFFICES ASSUME NEW k \in 1 .. Len(cpuQueue')
                 PROVE  cpuQueue'[k] \in CpuWaiting /\ cpuQueue'[k] # h
      BY <1>10
    <3>1. /\ 1 \in 1 .. Len(cpuQueue) /\ k + 1 \in 1 .. Len(cpuQueue)
          /\ 1 < k + 1 /\ cpuQueue'[k] = cpuQueue[k + 1]
      BY <1>3, <1>4
    <3>2. cpuQueue[1] < cpuQueue[k + 1] /\ cpuQueue[k + 1] \in CpuWaiting
      BY <1>1, <3>1 DEF QueueExact
    <3>3. CpuWaiting \subseteq Nat
      <4>1. Len(jobs) \in Nat
        BY <1>2, LenProperties
      <4> QED
        BY <4>1 DEF CpuWaiting, OnDevice, JobIds
    <3> QED
      BY <1>4, <1>9, <3>1, <3>2, <3>3
  <2>3. \A j \in CpuWaiting' : \E k \in 1 .. Len(cpuQueue') : cpuQueue'[k] = j
    <3> SUFFICES ASSUME NEW j \in CpuWaiting, j # h
                 PROVE  \E k \in 1 .. Len(cpuQueue') : cpuQueue'[k] = j
      BY <1>10
    <3>1. PICK k \in 1 .. Len(cpuQueue) : cpuQueue[k] = j
      BY <1>1 DEF QueueExact
    <3>2. k # 1
      BY <1>4, <3>1
    <3>3. k - 1 \in 1 .. Len(cpuQueue') /\ cpuQueue'[k - 1] = j
      BY <1>3, <1>4, <3>1, <3>2
    <3> QED
      BY <3>3
  <2> QED
    BY <2>1, <2>2, <2>3 DEF QueueExact
<1>12. StartsInOrder'
  <2> SUFFICES ASSUME NEW i \in OnDevice("CPU")', NEW j \in OnDevice("CPU")',
                      i < j, jobs'[i].phase = "waiting"
               PROVE  jobs'[j].phase = "waiting"
    BY DEF StartsInOrder
  <2>1. i \in OnDevice("CPU") /\ j \in OnDevice("CPU")
    BY <1>3, <1>6 DEF OnDevice
  <2>2. i # h /\ jobs[i].phase = "waiting"
    BY <1>6, <2>1 DEF OnDevice
  <2>3. jobs[j].phase = "waiting"
    BY <1>1, <2>1, <2>2 DEF StartsInOrder
  <2>4. j # h
    <3> SUFFICES ASSUME j = h PROVE FALSE
      OBVIOUS
    <3>1. i \in CpuWaiting
      BY <2>1, <2>2 DEF CpuWaiting, OnDevice, InPhase
    <3>2. PICK k \in 1 .. Len(cpuQueue) : cpuQueue[k] = i
      BY <1>1, <3>1 DEF QueueExact
    <3>3. k # 1
      BY <1>4, <2>2, <3>2
    <3>4. cpuQueue[1] < cpuQueue[k]
      BY <1>1, <1>4, <3>2, <3>3 DEF QueueExact
    <3>5. i \in Nat /\ h \in Nat
      <4>1. Len(jobs) \in Nat
        BY <1>2, LenProperties
      <4> QED
        BY <1>3, <2>1, <4>1 DEF OnDevice, JobIds
    <3> QED
      BY <1>4, <3>2, <3>4, <3>5
  <2> QED
    BY <1>6, <2>1, <2>3, <2>4 DEF OnDevice
<1> QED
  BY <1>7, <1>8, <1>11, <1>12 DEF EngineInv

(* A job that holds its worker or stream moves on, or a GPU job gets its   *)
(* stream; the counts and the queue do not see it.                         *)
LEMMA MovePreserves ==
    ASSUME EngineInv, NEW j \in JobIds,
           jobs' \in Seq(Job), JobIds' = JobIds,
           \A i \in JobIds : i # j => jobs'[i] = jobs[i],
           jobs'[j].device = jobs[j].device,
           jobs[j].phase # "waiting" \/ jobs[j].device # "CPU",
           jobs'[j].phase # "waiting",
           jobs[j].phase # "retired", jobs'[j].phase # "retired",
           UNCHANGED <<cpuQueue, active>>, TaskTypeOK'
    PROVE  EngineInv'
<1>1. EngineTypeOK /\ ActiveExact /\ QueueExact /\ StartsInOrder
  BY DEF EngineInv
<1>2. ActiveExact'
  BY <1>1, CountKept
<1>3. QueueExact' /\ StartsInOrder'
  BY <1>1, QueueKept
<1>4. EngineTypeOK'
  BY <1>1 DEF EngineTypeOK
<1> QED
  BY <1>2, <1>3, <1>4 DEF EngineInv

LEMMA RetirePreserves ==
    ASSUME EngineInv, NEW j \in JobIds, Retire(j)
    PROVE  EngineInv'
<1>1. /\ EngineTypeOK /\ ActiveExact /\ QueueExact /\ StartsInOrder
      /\ jobs \in Seq(Job) /\ Advance(j, "resolved", "retired")
      /\ cpuQueue' = cpuQueue /\ UNCHANGED taskVars
  BY DEF EngineInv, EngineTypeOK, Retire
<1>2. "retired" \in Phase
  BY DEF Phase
<1>3. /\ jobs' \in Seq(Job)
      /\ JobIds' = JobIds
      /\ \A i \in JobIds : i # j => jobs'[i] = jobs[i]
      /\ jobs'[j].device = jobs[j].device
      /\ jobs[j].phase = "resolved" /\ jobs'[j].phase = "retired"
  BY <1>1, <1>2, AdvanceOne
<1>4. QueueExact' /\ StartsInOrder'
  BY <1>1, <1>3, QueueKept
<1> DEFINE d == jobs[j].device
<1>5. d \in Device
  <2>1. jobs[j] \in Job
    BY <1>1, ElementOfSeq DEF JobIds
  <2> QED
    BY <2>1 DEF Job
<1>6. \A e \in Device : Counted(e)' = IF e = d THEN Counted(e) \ {j} ELSE Counted(e)
  BY <1>3 DEF Counted, OnDevice, InPhase
<1>7. j \in Counted(d)
  BY <1>3 DEF Counted, OnDevice, InPhase
<1>8. active' = [active EXCEPT ![d] = @ - 1]
  BY DEF Retire
<1> HIDE DEF d
<1>9. \A e \in Device : IsFiniteSet(Counted(e)) /\ Cardinality(Counted(e)) \in Nat
  BY <1>1, CountedFinite
<1>10. Cardinality(Counted(d) \ {j}) = Cardinality(Counted(d)) - 1
  BY <1>5, <1>7, <1>9, FS_RemoveElement
<1>11. Cardinality(Counted(d)) # 0
  BY <1>5, <1>7, <1>9, FS_EmptySet
<1>12. active \in [Device -> Nat] /\ \A e \in Device : active[e] = Cardinality(Counted(e))
  BY <1>1 DEF EngineTypeOK, ActiveExact, Counted
<1>13. active[d] \in Nat /\ active[d] > 0
  BY <1>5, <1>11, <1>12
<1>14. active' \in [Device -> Nat]
  BY <1>5, <1>8, <1>12, <1>13
<1>15. \A e \in Device : active'[e] = Cardinality(Counted(e)')
  BY <1>5, <1>6, <1>8, <1>10, <1>12
<1>16. ActiveExact'
  BY <1>15 DEF ActiveExact, Counted
<1>17. EngineTypeOK'
  BY <1>1, <1>3, <1>14 DEF EngineTypeOK, TaskTypeOK, taskVars
<1> QED
  BY <1>4, <1>16, <1>17 DEF EngineInv

LEMMA JobStepPreserves ==
    ASSUME EngineInv, NEW j \in JobIds, JobStep(j)
    PROVE  EngineInv'
<1>1. EngineTypeOK /\ TaskTypeOK /\ jobs \in Seq(Job)
  BY DEF EngineInv, EngineTypeOK
<1>2. {"holding", "body", "returned", "marked", "resolved"} \subseteq Phase
  BY DEF Phase
<1>3. CASE AcquireStream(j)
  <2>1. /\ Advance(j, "waiting", "holding") /\ jobs[j].device # "CPU"
        /\ UNCHANGED <<cpuQueue, active>> /\ TaskTypeOK'
    BY <1>1, <1>3 DEF AcquireStream, OnDevice, TaskTypeOK, taskVars
  <2> QED
    BY <1>1, <1>2, <2>1, AdvanceOne, MovePreserves
<1>4. CASE EnterBody(j)
  <2>1. /\ Advance(j, "holding", "body")
        /\ UNCHANGED <<cpuQueue, active>> /\ TaskTypeOK'
    BY <1>1, <1>4 DEF EnterBody, TaskTypeOK, taskVars
  <2> QED
    BY <1>1, <1>2, <2>1, AdvanceOne, MovePreserves
<1>5. CASE LeaveBody(j)
  <2>1. PICK o \in Outcomes : jobs' = [jobs EXCEPT ![j].phase = "returned", ![j].outcome = o]
    BY <1>5 DEF LeaveBody
  <2>2. o \in OutcomeKinds \cup {"none"}
    BY EngineAssumption DEF EngineAssumption
  <2>3. jobs[j].phase = "body" /\ UNCHANGED <<cpuQueue, active>> /\ TaskTypeOK'
    BY <1>1, <1>5 DEF LeaveBody, TaskTypeOK, taskVars
  <2>4. /\ jobs' \in Seq(Job)
        /\ JobIds' = JobIds
        /\ \A i \in JobIds : i # j => jobs'[i] = jobs[i]
        /\ jobs'[j].device = jobs[j].device
        /\ jobs'[j].phase = "returned"
    BY <1>1, <1>2, <2>1, <2>2, OneJobChanges
  <2> QED
    BY <2>3, <2>4, MovePreserves
<1>6. CASE Resolve(j)
  <2>1. /\ Advance(j, "marked", "resolved")
        /\ UNCHANGED <<cpuQueue, active>> /\ TaskTypeOK'
    BY <1>1, <1>6 DEF Resolve, TaskTypeOK, taskVars
  <2> QED
    BY <1>1, <1>2, <2>1, AdvanceOne, MovePreserves
<1>7. CASE Retire(j)
  BY <1>7, RetirePreserves
<1>8. CASE MarkOutcome(j)
  <2>1. /\ Advance(j, "returned", "marked")
        /\ UNCHANGED <<cpuQueue, active>>
        /\ MarkTaskCompleted(jobs[j].task) \/ MarkTaskFailed(jobs[j].task)
    BY <1>8 DEF MarkOutcome
  <2>2. TaskTypeOK'
    <3>1. {"Completed", "Failed"} \subseteq TaskState
      BY DEF TaskState
    <3> QED
      BY <1>1, <2>1, <3>1, MarkTypes DEF MarkTaskCompleted, MarkTaskFailed
  <2> QED
    BY <1>1, <1>2, <2>1, <2>2, AdvanceOne, MovePreserves
<1> QED
  BY <1>3, <1>4, <1>5, <1>6, <1>7, <1>8 DEF JobStep

LEMMA EnginePreserves ==
    ASSUME EngineInv, EngineNext
    PROVE  EngineInv'
  BY TakePreserves, JobStepPreserves DEF EngineNext

(* What the rest of the system sees of an engine step: jobs keep their     *)
(* task; a job that has marked it keeps its outcome; and a task's state    *)
(* changes only when one of its jobs, whose function is over, marks it.    *)
Done(j) == jobs[j].phase \in {"marked", "resolved", "retired"}
Final(o) == IF o = "ok" THEN "Completed" ELSE "Failed"

LEMMA EngineStepSeen ==
    ASSUME EngineInv, EngineNext
    PROVE  /\ Len(jobs') = Len(jobs)
           /\ JobIds' = JobIds
           /\ \A i \in JobIds : jobs'[i].task = jobs[i].task
           /\ \A i \in JobIds : Done(i) => Done(i)' /\ jobs'[i].outcome = jobs[i].outcome
           /\ \A i \in JobIds : Resolved(i) => Resolved(i)'
           /\ cancelled' = cancelled
           /\ \/ state' = state /\ \A i \in JobIds : Done(i)' => Done(i)
              \/ \E j \in JobIds :
                    /\ ~ Done(j) /\ ~ Resolved(j)
                    /\ \A i \in JobIds : Done(i)' => Done(i) \/ i = j
                    /\ state' = [t \in Tasks |->
                          IF t = jobs[j].task THEN Final(jobs'[j].outcome) ELSE state[t]]
<1>1. jobs \in Seq(Job)
  BY DEF EngineInv, EngineTypeOK
<1>2. ASSUME NEW j \in JobIds, NEW from \in Phase, NEW to \in Phase,
             Advance(j, from, to), UNCHANGED taskVars,
             <<from, to>> \in {<<"waiting", "holding">>, <<"holding", "body">>,
                              <<"marked", "resolved">>, <<"resolved", "retired">>}
      PROVE  /\ Len(jobs') = Len(jobs)
             /\ JobIds' = JobIds
             /\ \A i \in JobIds : jobs'[i].task = jobs[i].task
             /\ \A i \in JobIds : Done(i) => Done(i)' /\ jobs'[i].outcome = jobs[i].outcome
             /\ \A i \in JobIds : Resolved(i) => Resolved(i)'
             /\ cancelled' = cancelled
             /\ state' = state /\ \A i \in JobIds : Done(i)' => Done(i)
  <2>1. /\ Len(jobs') = Len(jobs)
        /\ JobIds' = JobIds
        /\ \A i \in JobIds : i # j => jobs'[i] = jobs[i]
        /\ jobs'[j].task = jobs[j].task
        /\ jobs[j].phase = from /\ jobs'[j].phase = to
        /\ jobs'[j].outcome = jobs[j].outcome
    BY <1>1, <1>2, AdvanceOne
  <2> QED
    BY <1>2, <2>1 DEF Done, Resolved, taskVars
<1>3. {"waiting", "holding", "body", "returned", "marked", "resolved", "retired"} \subseteq Phase
  BY DEF Phase
<1>4. CASE TakeFromQueue
  <2>1. cpuQueue \in Seq(JobIds) /\ cpuQueue # <<>>
    BY <1>4 DEF EngineInv, EngineTypeOK, TakeFromQueue
  <2>2. Head(cpuQueue) \in JobIds
    BY <2>1, HeadTailProperties
  <2>3. Advance(Head(cpuQueue), "waiting", "holding") /\ UNCHANGED taskVars
    BY <1>4 DEF TakeFromQueue
  <2> QED
    BY <1>2, <1>3, <2>2, <2>3
<1>5. ASSUME NEW j \in JobIds, AcquireStream(j) PROVE
        Advance(j, "waiting", "holding") /\ UNCHANGED taskVars
  BY <1>5 DEF AcquireStream
<1>6. ASSUME NEW j \in JobIds, EnterBody(j) PROVE
        Advance(j, "holding", "body") /\ UNCHANGED taskVars
  BY <1>6 DEF EnterBody
<1>7. ASSUME NEW j \in JobIds, Resolve(j) PROVE
        Advance(j, "marked", "resolved") /\ UNCHANGED taskVars
  BY <1>7 DEF Resolve
<1>8. ASSUME NEW j \in JobIds, Retire(j) PROVE
        Advance(j, "resolved", "retired") /\ UNCHANGED taskVars
  BY <1>8 DEF Retire
<1>9. CASE \E j \in JobIds : LeaveBody(j)
  <2>1. PICK j \in JobIds : LeaveBody(j)
    BY <1>9
  <2>2. PICK o \in Outcomes : jobs' = [jobs EXCEPT ![j].phase = "returned", ![j].outcome = o]
    BY <2>1 DEF LeaveBody
  <2>3. o \in OutcomeKinds \cup {"none"} /\ jobs[j].phase = "body" /\ UNCHANGED taskVars
    BY <2>1, EngineAssumption DEF EngineAssumption, LeaveBody
  <2>4. /\ Len(jobs') = Len(jobs)
        /\ JobIds' = JobIds
        /\ \A i \in JobIds : i # j => jobs'[i] = jobs[i]
        /\ jobs'[j].task = jobs[j].task
        /\ jobs'[j].phase = "returned"
    BY <1>1, <1>3, <2>2, <2>3, OneJobChanges
  <2> QED
    BY <2>3, <2>4 DEF Done, Resolved, taskVars
<1>10. CASE \E j \in JobIds : MarkOutcome(j)
  <2>1. PICK j \in JobIds : MarkOutcome(j)
    BY <1>10
  <2>2. Advance(j, "returned", "marked")
    BY <2>1 DEF MarkOutcome
  <2>3. /\ Len(jobs') = Len(jobs)
        /\ JobIds' = JobIds
        /\ \A i \in JobIds : i # j => jobs'[i] = jobs[i]
        /\ jobs'[j].task = jobs[j].task
        /\ jobs[j].phase = "returned" /\ jobs'[j].phase = "marked"
        /\ jobs'[j].outcome = jobs[j].outcome
    BY <1>1, <1>3, <2>2, AdvanceOne
  <2>4. /\ cancelled' = cancelled
        /\ state' = [t \in Tasks |->
              IF t = jobs[j].task THEN Final(jobs'[j].outcome) ELSE state[t]]
    BY <2>1, <2>3 DEF MarkOutcome, MarkTaskCompleted, MarkTaskFailed, Mark, Final
  <2> QED
    BY <2>3, <2>4 DEF Done, Resolved
<1> QED
  BY <1>2, <1>3, <1>4, <1>5, <1>6, <1>7, <1>8, <1>9, <1>10 DEF EngineNext, JobStep
-----------------------------------------------------------------------------
(* Scheduler. *)

(* Where the locals of execute_internal may be non-empty. *)
Phased ==
    /\ pc # "dispatch" => batch = {}
    /\ pc # "poll" => toPoll = {} /\ harvested = {}
    /\ pc = "idle" => InFlight = {}
    /\ pc # "idle" => ended = "none"

(* A future is that of the job its task was handed over in, and the task   *)
(* has no verdict until it is harvested.                                   *)
FuturesTrack ==
    /\ \A t \in InFlight : futures[t] \in RunJobs /\ jobs[futures[t]].task = t
    /\ \A t \in InFlight \ harvested : t \notin Terminal
    /\ harvested \subseteq completed \cup failed
    /\ toPoll \subseteq InFlight \ harvested

Accounted ==
    pc # "idle" => \A j \in RunJobs :
        \/ jobs[j].task \in completed \cup failed
        \/ jobs[j].task \in InFlight /\ futures[jobs[j].task] = j

NotHandedOver(t) == \A j \in RunJobs : jobs[j].task # t

BatchFresh == \A t \in batch : t \in ReadyTasks /\ NotHandedOver(t)

PredsDone == \A j \in RunJobs : Predecessors(graph, jobs[j].task) \subseteq completed

RunInv ==
    /\ SchedTypeOK
    /\ EngineInv
    /\ DepInv
    /\ successors = graph
    /\ Phased
    /\ FuturesTrack
    /\ Accounted
    /\ BatchFresh
    /\ PredsDone
    /\ OncePerRun
    /\ VerdictsFromJobs
    /\ DependencyOrder
-----------------------------------------------------------------------------
(* What a step leaves alone keeps its part of the invariant.               *)
LEMMA EngineKept ==
    ASSUME EngineInv, UNCHANGED engineVars, TaskTypeOK'
    PROVE  EngineInv'
<1>1. /\ jobs' = jobs /\ cpuQueue' = cpuQueue /\ active' = active
      /\ JobIds' = JobIds
  BY DEF engineVars, JobIds
<1> QED
  BY <1>1 DEF EngineInv, EngineTypeOK, ActiveExact, QueueExact, StartsInOrder,
              OnDevice, InPhase, CpuWaiting

LEMMA DepKept ==
    ASSUME DepInv, UNCHANGED depVars
    PROVE  DepInv' /\ Terminal' = Terminal /\ ReadyTasks' = ReadyTasks
  BY DEF DepInv, depVars, DepTypeOK, PendingExact, VerdictsDisjoint,
         SuccessorsDecided, BlockedHasCause, Known, Terminal, ReadyTasks

LEMMA JobsKept ==
    ASSUME UNCHANGED <<graph, jobs, runBase>>
    PROVE  /\ RunJobs' = RunJobs /\ JobIds' = JobIds
           /\ OncePerRun => OncePerRun'
           /\ DependencyOrder => DependencyOrder'
<1>1. /\ graph' = graph /\ jobs' = jobs
      /\ RunJobs' = RunJobs /\ JobIds' = JobIds
  BY DEF RunJobs, JobIds
<1>2. OncePerRun => OncePerRun'
  BY <1>1 DEF OncePerRun
<1>3. DependencyOrder => DependencyOrder'
  BY <1>1 DEF DependencyOrder, Resolved
<1> QED
  BY <1>1, <1>2, <1>3

(* The graph is the snapshot, so the manager knows every task.             *)
LEMMA KnownTasks ==
    ASSUME RunInv
    PROVE  /\ Known = Tasks /\ graph \in [Tasks -> SUBSET Tasks]
           /\ Ids = Tasks
           /\ IsAcyclic(graph)
           /\ Terminal \subseteq Tasks
  BY SchedulerAssumption DEF SchedulerAssumption, RunInv, SchedTypeOK, Known,
                             DepTypeOK

LEMMA JobTasks ==
    ASSUME EngineInv
    PROVE  /\ jobs \in Seq(Job) /\ Len(jobs) \in Nat
           /\ \A j \in JobIds : jobs[j] \in Job /\ jobs[j].task \in Tasks
<1>1. jobs \in Seq(Job)
  BY DEF EngineInv, EngineTypeOK
<1>2. Len(jobs) \in Nat
  BY <1>1, LenProperties
<1>3. \A j \in JobIds : jobs[j] \in Job
  BY <1>1, ElementOfSeq DEF JobIds
<1> QED
  BY <1>1, <1>2, <1>3 DEF Job
-----------------------------------------------------------------------------
LEMMA RunInitHolds == Init => RunInv
<1> SUFFICES ASSUME Init PROVE RunInv
  OBVIOUS
<1>1. /\ graph \in [Tasks -> SUBSET Tasks] /\ IsAcyclic(graph) /\ Tasks = Ids
  BY SchedulerAssumption DEF Init, SchedulerAssumption
<1>2. DepInv
  <2>1. \A t \in Tasks : /\ Cardinality(Predecessors(graph, t)) \in Nat
                         /\ Predecessors(graph, t) \ {} = Predecessors(graph, t)
    BY <1>1, InDegreeCounted
  <2>2. DepTypeOK
    BY <1>1, <2>1 DEF Init, DepTypeOK, Known, Terminal
  <2>3. PendingExact
    BY <1>1, <2>1 DEF Init, PendingExact, Known
  <2>4. VerdictsDisjoint /\ SuccessorsDecided /\ BlockedHasCause
    BY DEF Init, VerdictsDisjoint, SuccessorsDecided, BlockedHasCause
  <2> QED
    BY <1>1, <2>2, <2>3, <2>4 DEF Init, DepInv
<1>3. /\ jobs = <<>> /\ cpuQueue = <<>> /\ active = [d \in Device |-> 0]
      /\ TaskTypeOK
  BY DEF Init, EngineInit, TaskInit, TaskTypeOK, TaskState
<1>4. Len(jobs) = 0 /\ JobIds = {} /\ Len(cpuQueue) = 0
  BY <1>3 DEF JobIds
<1>5. EngineInv
  <2>1. EngineTypeOK
    BY <1>3, EmptySeq DEF EngineTypeOK
  <2>2. \A d \in Device : OnDevice(d) \ InPhase({"retired"}) = {}
    BY <1>4 DEF OnDevice
  <2>3. ActiveExact
    BY <1>3, <2>2, FS_EmptySet DEF ActiveExact
  <2>4. QueueExact /\ StartsInOrder
    BY <1>4 DEF QueueExact, StartsInOrder, CpuWaiting, OnDevice
  <2> QED
    BY <2>1, <2>3, <2>4 DEF EngineInv
<1>6. RunJobs = {}
  BY <1>4 DEF RunJobs
<1>7. InFlight = {}
  BY DEF Init, InFlight
<1>8. SchedTypeOK
  <2>1. futures \in [InFlight -> JobIds]
    BY <1>7 DEF Init
  <2>2. runs \in 0 .. MaxRuns /\ runBase \in 0 .. Len(jobs)
    BY <1>4, SchedulerAssumption DEF Init, SchedulerAssumption
  <2> QED
    BY <1>2, <1>5, <1>7, <2>1, <2>2 DEF Init, SchedTypeOK, DepInv, EngineInv
<1>9. Phased /\ FuturesTrack /\ Accounted /\ BatchFresh /\ PredsDone
  BY <1>6, <1>7 DEF Init, Phased, FuturesTrack, Accounted, BatchFresh, PredsDone
<1>10. OncePerRun /\ VerdictsFromJobs /\ DependencyOrder
  BY <1>6 DEF Init, OncePerRun, VerdictsFromJobs, DependencyOrder
<1> QED
  BY <1>2, <1>5, <1>8, <1>9, <1>10 DEF RunInv, Init
-----------------------------------------------------------------------------
(* A ready task has all its predecessors completed. *)
LEMMA ReadyPredsDone ==
    ASSUME RunInv, NEW t \in ReadyTasks
    PROVE  t \in Tasks /\ Predecessors(graph, t) \subseteq completed
  BY KnownTasks, ReadyHasNoPending DEF RunInv, ReadyTasks

(* A task that was handed over is not blocked: a blocked one has a failed  *)
(* or blocked predecessor, and those of a task handed over are completed.  *)
LEMMA RanNotBlocked ==
    DepInv /\ successors = graph /\ PredsDone => BlockedNeverRan
  BY DEF DepInv, PredsDone, BlockedNeverRan, BlockedHasCause, VerdictsDisjoint

(* The tasks behind a failure are all blocked: a successor of a failed or  *)
(* blocked task has a verdict, and had it completed or failed it would     *)
(* have been handed over, its predecessors all completed.                  *)
LEMMA BehindFailure == RunInv => FailureTakesAll
<1> SUFFICES ASSUME RunInv, NEW s \in failed, NEW t \in Tasks,
                    HasPath(graph, s, t)
             PROVE  t \in blocked \cup {s}
  BY DEF FailureTakesAll
<1> DEFINE C == (blocked \cup {s}) \cap Tasks
<1>1. /\ Known = Tasks /\ DOMAIN graph = Tasks /\ Terminal \subseteq Tasks
      /\ graph \in [Tasks -> SUBSET Tasks]
  BY KnownTasks
<1>2. s \in Tasks
  BY <1>1 DEF Terminal
<1>3. Closed(graph, C)
  <2> SUFFICES ASSUME NEW u \in C, NEW v \in graph[u]
               PROVE  v \in C
    BY DEF Closed
  <2>1. v \in Tasks /\ u \in Predecessors(graph, v)
    BY <1>1 DEF Predecessors
  <2>2. v \in Terminal
    BY <1>1 DEF RunInv, DepInv, SuccessorsDecided
  <2>3. u \notin completed
    BY DEF RunInv, DepInv, VerdictsDisjoint
  <2>4. v \notin completed \cup failed
    <3> SUFFICES ASSUME v \in completed \cup failed PROVE FALSE
      OBVIOUS
    <3>1. PICK j \in RunJobs : jobs[j].task = v
      BY DEF RunInv, VerdictsFromJobs
    <3> QED
      BY <2>1, <2>3, <3>1 DEF RunInv, PredsDone
  <2> QED
    BY <2>1, <2>2, <2>4 DEF Terminal
<1>4. t \in C
  <2> HIDE DEF C
  <2>1. C \in SUBSET DOMAIN graph /\ s \in C
    BY <1>1, <1>2 DEF C
  <2> QED
    BY <1>3, <2>1 DEF HasPath
<1> QED
  BY <1>4

(* The steps of the scheduler's thread. *)
LEMMA StartStep ==
    ASSUME RunInv, Start
    PROVE  RunInv'
<1>1. /\ InitFromGraph(graph) /\ graph' = graph
      /\ batch' = ReadyTasks' /\ futures' = [t \in {} |-> 0]
      /\ toPoll' = {} /\ harvested' = {} /\ pc' = "dispatch"
      /\ runs < MaxRuns /\ runs' = runs + 1 /\ ended' = "none"
      /\ everThrew' = everThrew /\ runBase' = Len(jobs)
      /\ UNCHANGED engineVars /\ UNCHANGED taskVars
      /\ SchedTypeOK /\ EngineInv
  BY DEF Start, RunInv
<1>2. /\ graph \in [Tasks -> SUBSET Tasks] /\ IsAcyclic(graph) /\ Tasks = Ids
  BY KnownTasks
<1>3. DepInv' /\ successors' = graph'
  BY <1>1, <1>2, SnapshotSatisfies DEF InitFromGraph
<1>4. TaskTypeOK'
  BY <1>1 DEF EngineInv, EngineTypeOK, TaskTypeOK, taskVars
<1>5. EngineInv'
  BY <1>1, <1>4, EngineKept
<1>6. /\ jobs' = jobs /\ Len(jobs) \in Nat
      /\ RunJobs' = {} /\ InFlight' = {}
  BY <1>1, JobTasks DEF engineVars, RunJobs, JobIds, InFlight
<1>7. batch' \subseteq Tasks
  BY <1>1, <1>2, <1>3 DEF ReadyTasks, Known
<1>8. futures' \in [InFlight' -> JobIds']
  BY <1>1, <1>6
<1>9. runs' \in 0 .. MaxRuns
  BY <1>1, SchedulerAssumption DEF SchedulerAssumption, SchedTypeOK
<1>10. SchedTypeOK'
  BY <1>1, <1>3, <1>5, <1>6, <1>7, <1>8, <1>9
     DEF SchedTypeOK, DepInv, EngineInv
<1>11. Phased' /\ FuturesTrack' /\ Accounted' /\ BatchFresh' /\ PredsDone'
  BY <1>1, <1>6
     DEF Phased, FuturesTrack, Accounted, BatchFresh, PredsDone, NotHandedOver
<1>12. OncePerRun' /\ VerdictsFromJobs' /\ DependencyOrder'
  BY <1>1, <1>6 DEF OncePerRun, VerdictsFromJobs, DependencyOrder, InitFromGraph
<1> QED
  BY <1>3, <1>5, <1>10, <1>11, <1>12 DEF RunInv

LEMMA DispatchStep ==
    ASSUME RunInv, NEW t \in Tasks, NEW d \in Device, Dispatch(t, d)
    PROVE  RunInv'
<1> DEFINE n == Len(jobs) + 1
<1>1. /\ pc = "dispatch" /\ t \in batch /\ ExecuteTask(t, d)
      /\ futures' = [u \in InFlight \cup {t} |-> IF u = t THEN n ELSE futures[u]]
      /\ batch' = batch \ {t}
      /\ UNCHANGED <<graph, pc, toPoll, harvested, runs, ended, everThrew, runBase>>
      /\ UNCHANGED depVars
      /\ SchedTypeOK /\ EngineInv /\ DepInv /\ successors = graph
  BY DEF Dispatch, RunInv
<1>2. EngineInv'
  BY <1>1, ExecutePreserves
<1>3. /\ JobIds' = JobIds \cup {n} /\ n \notin JobIds
      /\ Len(jobs') = Len(jobs) + 1
      /\ \A i \in JobIds : jobs'[i] = jobs[i]
      /\ jobs'[n] = [task |-> t, device |-> d, phase |-> "waiting", outcome |-> "none"]
  BY <1>1, OneJobMore DEF EngineInv
<1>4. Len(jobs) \in Nat /\ runBase \in 0 .. Len(jobs)
  BY <1>1, JobTasks DEF SchedTypeOK
<1>5. RunJobs' = RunJobs \cup {n} /\ RunJobs \subseteq JobIds
  BY <1>1, <1>3, <1>4 DEF RunJobs
<1>6. DepInv' /\ Terminal' = Terminal /\ ReadyTasks' = ReadyTasks
  BY <1>1, DepKept
<1>7. /\ completed' = completed /\ failed' = failed /\ blocked' = blocked
      /\ successors' = graph' /\ graph' = graph
  BY <1>1 DEF depVars
<1>8. /\ t \in ReadyTasks /\ NotHandedOver(t)
  BY <1>1 DEF RunInv, BatchFresh
<1>9. t \notin Terminal /\ Predecessors(graph, t) \subseteq completed
  BY <1>8, ReadyPredsDone DEF ReadyTasks
<1>10. jobs'[n].task = t
  BY <1>3
<1>11. InFlight' = InFlight \cup {t} /\ futures'[t] = n
       /\ \A u \in InFlight \ {t} : futures'[u] = futures[u]
  BY <1>1 DEF InFlight
<1> HIDE DEF n
<1>12. futures' \in [InFlight' -> JobIds']
  BY <1>1, <1>3, <1>11 DEF SchedTypeOK
<1>13. SchedTypeOK'
  <2>1. runBase' \in 0 .. Len(jobs')
    BY <1>1, <1>3, <1>4
  <2>2. toPoll' \subseteq InFlight' /\ harvested' \subseteq InFlight' /\ InFlight' \subseteq Tasks
    BY <1>1, <1>11 DEF SchedTypeOK
  <2> QED
    BY <1>1, <1>2, <1>6, <1>12, <2>1, <2>2 DEF SchedTypeOK, EngineInv, DepInv
<1>14. Phased'
  BY <1>1 DEF RunInv, Phased
<1>15. harvested = {} /\ toPoll = {} /\ ended = "none"
  BY <1>1 DEF RunInv, Phased
<1>16. FuturesTrack'
  <2>1. \A u \in InFlight' : futures'[u] \in RunJobs' /\ jobs'[futures'[u]].task = u
    BY <1>3, <1>5, <1>10, <1>11 DEF RunInv, FuturesTrack
  <2>2. \A u \in InFlight' : u \notin Terminal
    BY <1>9, <1>11, <1>15 DEF RunInv, FuturesTrack
  <2> QED
    BY <1>1, <1>6, <1>15, <2>1, <2>2 DEF FuturesTrack
<1>17. Accounted'
  <2> SUFFICES ASSUME NEW j \in RunJobs'
               PROVE  \/ jobs'[j].task \in completed \cup failed
                      \/ jobs'[j].task \in InFlight' /\ futures'[jobs'[j].task] = j
    BY <1>7 DEF Accounted
  <2>1. CASE j = n
    BY <1>10, <1>11, <2>1
  <2>2. CASE j \in RunJobs
    <3>1. jobs'[j] = jobs[j] /\ jobs[j].task # t
      BY <1>3, <1>5, <1>8, <2>2 DEF NotHandedOver
    <3>2. \/ jobs[j].task \in completed \cup failed
          \/ jobs[j].task \in InFlight /\ futures[jobs[j].task] = j
      BY <1>1, <2>2 DEF RunInv, Accounted
    <3> QED
      BY <1>11, <3>1, <3>2
  <2> QED
    BY <1>5, <2>1, <2>2
<1>18. BatchFresh'
  <2> SUFFICES ASSUME NEW u \in batch, u # t
               PROVE  u \in ReadyTasks /\ \A j \in RunJobs' : jobs'[j].task # u
    BY <1>1, <1>6 DEF BatchFresh, NotHandedOver
  <2> QED
    BY <1>3, <1>5, <1>10 DEF RunInv, BatchFresh, NotHandedOver
<1>19. PredsDone'
  BY <1>3, <1>5, <1>7, <1>9, <1>10 DEF RunInv, PredsDone
<1>20. OncePerRun'
  BY <1>3, <1>5, <1>8, <1>10 DEF RunInv, OncePerRun, NotHandedOver
<1>21. \A i \in JobIds : Resolved(i)' <=> Resolved(i)
  BY <1>3 DEF Resolved
<1>22. VerdictsFromJobs'
  BY <1>1, <1>3, <1>5, <1>7, <1>15, <1>21 DEF RunInv, VerdictsFromJobs
<1>23. DependencyOrder'
  <2> SUFFICES ASSUME NEW j \in RunJobs', NEW p \in Predecessors(graph, jobs'[j].task)
               PROVE  \E i \in RunJobs' :
                        i < j /\ jobs'[i].task = p /\ jobs'[i].outcome = "ok" /\ Resolved(i)'
    BY <1>7 DEF DependencyOrder
  <2>1. CASE j \in RunJobs
    <3>1. PICK i \in RunJobs :
             i < j /\ jobs[i].task = p /\ jobs[i].outcome = "ok" /\ Resolved(i)
      BY <1>3, <1>5, <2>1 DEF RunInv, DependencyOrder
    <3> QED
      BY <1>3, <1>5, <1>21, <3>1
  <2>2. CASE j = n
    <3>1. p \in completed
      BY <1>9, <1>10, <2>2
    <3>2. PICK i \in RunJobs : jobs[i].task = p /\ Resolved(i) /\ jobs[i].outcome = "ok"
      BY <3>1 DEF RunInv, VerdictsFromJobs
    <3>3. i < n
      BY <1>4, <1>5 DEF JobIds, n
    <3> QED
      BY <1>3, <1>5, <1>21, <2>2, <3>2, <3>3
  <2> QED
    BY <1>5, <2>1, <2>2
<1> QED
  BY <1>2, <1>6, <1>7, <1>13, <1>14, <1>16, <1>17, <1>18, <1>19, <1>20, <1>22, <1>23
     DEF RunInv

(* Steps after which jobs, graph and verdicts are as before. *)
LEMMA VerdictsKept ==
    ASSUME RunInv, UNCHANGED <<graph, runBase>>, UNCHANGED engineVars,
           UNCHANGED depVars, TaskTypeOK'
    PROVE  /\ EngineInv' /\ DepInv' /\ successors' = graph' /\ graph' = graph
           /\ Terminal' = Terminal /\ ReadyTasks' = ReadyTasks
           /\ completed' = completed /\ failed' = failed
           /\ jobs' = jobs /\ RunJobs' = RunJobs /\ JobIds' = JobIds
           /\ PredsDone' /\ OncePerRun' /\ DependencyOrder'
           /\ (ended' = ended => VerdictsFromJobs')
<1>1. /\ graph' = graph /\ jobs' = jobs /\ runBase' = runBase
      /\ completed' = completed /\ failed' = failed /\ successors' = successors
  BY DEF engineVars, depVars
<1>2. EngineInv' /\ DepInv' /\ Terminal' = Terminal /\ ReadyTasks' = ReadyTasks
  BY EngineKept, DepKept DEF RunInv
<1>3. RunJobs' = RunJobs /\ JobIds' = JobIds /\ OncePerRun' /\ DependencyOrder'
  BY <1>1, JobsKept DEF RunInv
<1>4. PredsDone'
  BY <1>1, <1>3 DEF RunInv, PredsDone
<1>5. ended' = ended => VerdictsFromJobs'
  BY <1>1, <1>3 DEF RunInv, VerdictsFromJobs, Resolved
<1> QED
  BY <1>1, <1>2, <1>3, <1>4, <1>5 DEF RunInv

LEMMA TasksKept ==
    ASSUME RunInv, UNCHANGED taskVars
    PROVE  TaskTypeOK'
  BY DEF RunInv, EngineInv, EngineTypeOK, TaskTypeOK, taskVars

LEMMA BeginPassStep ==
    ASSUME RunInv, BeginPass
    PROVE  RunInv'
<1>1. /\ pc = "dispatch" /\ batch = {} /\ pc' = "poll" /\ toPoll' = InFlight
      /\ UNCHANGED <<graph, batch, futures, harvested, runs, ended, everThrew, runBase>>
      /\ UNCHANGED engineVars /\ UNCHANGED taskVars /\ UNCHANGED depVars
  BY DEF BeginPass
<1>2. TaskTypeOK'
  BY <1>1, TasksKept
<1>3. /\ EngineInv' /\ DepInv' /\ successors' = graph' /\ graph' = graph
      /\ Terminal' = Terminal /\ completed' = completed /\ failed' = failed
      /\ jobs' = jobs /\ RunJobs' = RunJobs /\ JobIds' = JobIds
      /\ PredsDone' /\ OncePerRun' /\ DependencyOrder' /\ VerdictsFromJobs'
  BY <1>1, <1>2, VerdictsKept
<1>4. harvested = {} /\ InFlight' = InFlight
  BY <1>1 DEF RunInv, Phased, InFlight
<1>5. SchedTypeOK'
  BY <1>1, <1>3, <1>4 DEF RunInv, SchedTypeOK, EngineInv, DepInv
<1>6. Phased' /\ BatchFresh'
  BY <1>1 DEF RunInv, Phased, BatchFresh
<1>7. FuturesTrack' /\ Accounted'
  BY <1>1, <1>3, <1>4 DEF RunInv, FuturesTrack, Accounted
<1> QED
  BY <1>3, <1>5, <1>6, <1>7 DEF RunInv

LEMMA PollPendingStep ==
    ASSUME RunInv, NEW t \in Tasks, PollPending(t)
    PROVE  RunInv'
<1>1. /\ pc = "poll" /\ toPoll' = toPoll \ {t}
      /\ UNCHANGED <<graph, pc, batch, futures, harvested, runs, ended, everThrew, runBase>>
      /\ UNCHANGED engineVars /\ UNCHANGED taskVars /\ UNCHANGED depVars
  BY DEF PollPending
<1>2. TaskTypeOK'
  BY <1>1, TasksKept
<1>3. /\ EngineInv' /\ DepInv' /\ successors' = graph' /\ graph' = graph
      /\ Terminal' = Terminal /\ completed' = completed /\ failed' = failed
      /\ jobs' = jobs /\ RunJobs' = RunJobs /\ JobIds' = JobIds
      /\ PredsDone' /\ OncePerRun' /\ DependencyOrder' /\ VerdictsFromJobs'
  BY <1>1, <1>2, VerdictsKept
<1>4. InFlight' = InFlight
  BY <1>1 DEF InFlight
<1>5. SchedTypeOK'
  BY <1>1, <1>3, <1>4 DEF RunInv, SchedTypeOK, EngineInv, DepInv
<1>6. Phased' /\ batch = {}
  BY <1>1 DEF RunInv, Phased, InFlight
<1>7. FuturesTrack' /\ Accounted' /\ BatchFresh'
  BY <1>1, <1>3, <1>4, <1>6 DEF RunInv, FuturesTrack, Accounted, BatchFresh
<1> QED
  BY <1>3, <1>5, <1>6, <1>7 DEF RunInv

LEMMA CollectStep ==
    ASSUME RunInv, Collect
    PROVE  RunInv'
<1> DEFINE ready == {t \in ReadyTasks \ (InFlight \ harvested) : Collectable(t)}
<1>1. /\ pc = "poll" /\ toPoll = {} /\ toPoll' = toPoll
      /\ futures' = [t \in InFlight \ harvested |-> futures[t]]
      /\ harvested' = {} /\ batch' = ready /\ pc' = "dispatch"
      /\ UNCHANGED <<graph, runs, ended, everThrew, runBase>>
      /\ UNCHANGED engineVars /\ UNCHANGED taskVars /\ UNCHANGED depVars
  BY DEF Collect, CollectWith
<1>2. TaskTypeOK'
  BY <1>1, TasksKept
<1>3. /\ EngineInv' /\ DepInv' /\ successors' = graph' /\ graph' = graph
      /\ Terminal' = Terminal /\ ReadyTasks' = ReadyTasks
      /\ completed' = completed /\ failed' = failed
      /\ jobs' = jobs /\ RunJobs' = RunJobs /\ JobIds' = JobIds
      /\ PredsDone' /\ OncePerRun' /\ DependencyOrder' /\ VerdictsFromJobs'
  BY <1>1, <1>2, VerdictsKept
<1>4. InFlight' = InFlight \ harvested
      /\ \A t \in InFlight' : futures'[t] = futures[t]
  BY <1>1 DEF InFlight
<1>5. SchedTypeOK'
  <2>1. futures' \in [InFlight' -> JobIds']
    BY <1>1, <1>3, <1>4 DEF RunInv, SchedTypeOK
  <2>2. batch' \subseteq Tasks
    BY <1>1, KnownTasks DEF ReadyTasks
  <2> QED
    BY <1>1, <1>3, <1>4, <2>1, <2>2 DEF RunInv, SchedTypeOK, EngineInv, DepInv
<1>6. Phased'
  BY <1>1 DEF RunInv, Phased
<1>7. FuturesTrack'
  BY <1>1, <1>3, <1>4 DEF RunInv, FuturesTrack
<1>8. harvested \subseteq completed \cup failed
  BY DEF RunInv, FuturesTrack
<1>9. \A j \in RunJobs :
         \/ jobs[j].task \in completed \cup failed
         \/ jobs[j].task \in InFlight /\ futures[jobs[j].task] = j
  <2>1. Accounted
    BY DEF RunInv
  <2> QED
    BY <1>1, <2>1 DEF Accounted
<1>10. Accounted'
  BY <1>3, <1>4, <1>8, <1>9 DEF Accounted
<1>11. BatchFresh'
  <2> SUFFICES ASSUME NEW t \in ReadyTasks \ (InFlight \ harvested), NEW j \in RunJobs
               PROVE  jobs[j].task # t
    BY <1>1, <1>3 DEF BatchFresh, NotHandedOver
  <2>1. t \notin completed \cup failed
    BY DEF ReadyTasks, Terminal
  <2> QED
    BY <1>8, <1>9, <2>1
<1> QED
  BY <1>3, <1>5, <1>6, <1>7, <1>10, <1>11 DEF RunInv

(* A future that is ready: its task has no verdict, its job is of this     *)
(* execution and the only one of the task.                                 *)
LEMMA PolledTask ==
    ASSUME RunInv, NEW t \in Tasks, NEW o, PollResolved(t, o)
    PROVE  /\ pc = "poll" /\ batch = {} /\ ended = "none"
           /\ t \in InFlight \ harvested /\ t \notin Terminal
           /\ futures[t] \in RunJobs /\ jobs[futures[t]].task = t
           /\ Resolved(futures[t]) /\ jobs[futures[t]].outcome = o
<1>1. /\ pc = "poll" /\ t \in toPoll
      /\ Resolved(futures[t]) /\ jobs[futures[t]].outcome = o
  BY DEF PollResolved
<1>2. t \in InFlight \ harvested
  BY <1>1 DEF RunInv, FuturesTrack
<1> QED
  BY <1>1, <1>2 DEF RunInv, FuturesTrack, Phased

(* The step that records a verdict, of either kind: what it keeps.         *)
LEMMA VerdictRecorded ==
    ASSUME RunInv, NEW t \in Tasks, NEW o \in {"ok", "std"}, PollResolved(t, o),
           DepInv', TaskTypeOK', UNCHANGED <<graph, successors, runBase>>,
           UNCHANGED engineVars,
           completed' = IF o = "ok" THEN completed \cup {t} ELSE completed,
           failed' = IF o = "ok" THEN failed ELSE failed \cup {t},
           ended' \in {"none", "threw"}
    PROVE  /\ EngineInv' /\ PredsDone' /\ OncePerRun' /\ DependencyOrder'
           /\ VerdictsFromJobs' /\ BlockedNeverRan'
           /\ jobs' = jobs /\ RunJobs' = RunJobs /\ JobIds' = JobIds
<1>1. /\ futures[t] \in RunJobs /\ jobs[futures[t]].task = t
      /\ Resolved(futures[t]) /\ jobs[futures[t]].outcome = o
      /\ t \notin Terminal
  BY PolledTask
<1>2. EngineInv'
  BY EngineKept DEF RunInv
<1>3. jobs' = jobs /\ graph' = graph /\ successors' = graph'
  BY DEF engineVars, RunInv
<1>4. RunJobs' = RunJobs /\ JobIds' = JobIds /\ OncePerRun' /\ DependencyOrder'
  BY <1>3, JobsKept DEF RunInv
<1>5. PredsDone'
  BY <1>3, <1>4 DEF RunInv, PredsDone
<1>6. VerdictsFromJobs'
  <2> SUFFICES ASSUME NEW u \in completed' \cup failed'
               PROVE  \E j \in RunJobs :
                        /\ jobs[j].task = u /\ Resolved(j)
                        /\ jobs[j].outcome = IF u \in completed' THEN "ok" ELSE "std"
    BY <1>3, <1>4 DEF VerdictsFromJobs, Resolved
  <2>1. CASE u = t
    <3>1. t \notin completed /\ t \notin failed
      BY <1>1 DEF Terminal
    <3> QED
      BY <1>1, <2>1, <3>1
  <2>2. CASE u # t
    <3>1. u \in completed \cup failed /\ (u \in completed' <=> u \in completed)
      BY <2>2
    <3>2. VerdictsFromJobs
      BY DEF RunInv
    <3> QED
      BY <3>1, <3>2 DEF VerdictsFromJobs
  <2> QED
    BY <2>1, <2>2
<1>7. BlockedNeverRan'
  BY <1>3, <1>4, <1>5
     DEF DepInv, PredsDone, BlockedNeverRan, BlockedHasCause, VerdictsDisjoint
<1> QED
  BY <1>2, <1>3, <1>4, <1>5, <1>6, <1>7

(* The locals after a harvest. *)
LEMMA HarvestTracked ==
    ASSUME RunInv, NEW t \in Tasks, NEW o \in {"ok", "std"}, PollResolved(t, o),
           DepInv', BlockedNeverRan', EngineInv', jobs' = jobs, RunJobs' = RunJobs,
           JobIds' = JobIds,
           toPoll' = toPoll \ {t}, harvested' = harvested \cup {t},
           UNCHANGED <<graph, pc, batch, futures, runs, ended, everThrew, runBase>>,
           completed' = IF o = "ok" THEN completed \cup {t} ELSE completed,
           failed' = IF o = "ok" THEN failed ELSE failed \cup {t}
    PROVE  SchedTypeOK' /\ Phased' /\ FuturesTrack' /\ Accounted' /\ BatchFresh'
<1>1. /\ pc = "poll" /\ batch = {} /\ t \in InFlight \ harvested /\ t \notin Terminal
  BY PolledTask
<1>2. InFlight' = InFlight
  BY DEF InFlight
<1>3. SchedTypeOK'
  BY <1>1, <1>2 DEF RunInv, SchedTypeOK, EngineInv, DepInv
<1>4. Phased' /\ BatchFresh'
  BY <1>1, <1>2 DEF RunInv, Phased, BatchFresh
<1>5. FuturesTrack'
  <2>1. \A u \in InFlight : futures[u] \in RunJobs /\ jobs[futures[u]].task = u
    BY DEF RunInv, FuturesTrack
  <2>2. \A u \in InFlight \ harvested' : u \notin Terminal'
    <3> SUFFICES ASSUME NEW u \in InFlight \ harvested, u # t
                 PROVE  u \notin completed' \cup failed' \cup blocked'
      BY DEF Terminal
    <3>1. u \notin completed \cup failed
      BY DEF RunInv, FuturesTrack, Terminal
    <3>2. u \notin blocked'
      BY <2>1 DEF BlockedNeverRan
    <3> QED
      BY <3>1, <3>2
  <2>3. harvested' \subseteq completed' \cup failed' /\ toPoll' \subseteq InFlight \ harvested'
    BY DEF RunInv, FuturesTrack
  <2> QED
    BY <1>2, <2>1, <2>2, <2>3 DEF FuturesTrack
<1>6. Accounted'
  <2>1. Accounted
    BY DEF RunInv
  <2> QED
    BY <1>1, <1>2, <2>1 DEF Accounted
<1> QED
  BY <1>3, <1>4, <1>5, <1>6

LEMMA HarvestCompletedStep ==
    ASSUME RunInv, NEW t \in Tasks, HarvestCompleted(t)
    PROVE  RunInv'
<1>1. /\ PollResolved(t, "ok") /\ MarkCompleted(t)
      /\ MarkTasksReady(NewlyReady(t))
      /\ toPoll' = toPoll \ {t} /\ harvested' = harvested \cup {t}
      /\ UNCHANGED <<graph, pc, batch, futures, runs, ended, everThrew, runBase>>
      /\ UNCHANGED engineVars
  BY DEF HarvestCompleted
<1>2. DepInv'
  BY <1>1, KnownTasks, CompletedPreserves DEF RunInv
<1>3. t \notin Terminal /\ ended = "none"
  BY <1>1, PolledTask
<1>4. completed' = completed \cup {t} /\ failed' = failed /\ successors' = successors
  BY <1>1, <1>3 DEF MarkCompleted
<1>5. TaskTypeOK'
  BY <1>1, MarkTypes
     DEF MarkTasksReady, TaskState, RunInv, EngineInv, EngineTypeOK
<1>6. /\ EngineInv' /\ PredsDone' /\ OncePerRun' /\ DependencyOrder'
      /\ VerdictsFromJobs' /\ BlockedNeverRan'
      /\ jobs' = jobs /\ RunJobs' = RunJobs /\ JobIds' = JobIds
  BY <1>1, <1>2, <1>3, <1>4, <1>5, VerdictRecorded
<1>7. SchedTypeOK' /\ Phased' /\ FuturesTrack' /\ Accounted' /\ BatchFresh'
  BY <1>1, <1>2, <1>4, <1>6, HarvestTracked
<1>8. successors' = graph'
  BY <1>1, <1>4 DEF RunInv
<1> QED
  BY <1>2, <1>6, <1>7, <1>8 DEF RunInv

(* mark_failed, as on_task_failed calls it. *)
LEMMA FailureRecorded ==
    ASSUME RunInv, NEW t \in Tasks, PollResolved(t, "std"), MarkFailed(t),
           MarkTasksBlocked(NewlyBlocked(t)),
           UNCHANGED <<graph, runBase>>, UNCHANGED engineVars,
           ended' \in {"none", "threw"}
    PROVE  /\ EngineInv' /\ PredsDone' /\ OncePerRun' /\ DependencyOrder'
           /\ VerdictsFromJobs' /\ BlockedNeverRan' /\ DepInv'
           /\ jobs' = jobs /\ RunJobs' = RunJobs /\ JobIds' = JobIds
           /\ completed' = completed /\ failed' = failed \cup {t}
           /\ blocked' = blocked \cup NewlyBlocked(t)
           /\ successors' = graph' /\ successors' = successors
<1>1. DepInv'
  BY KnownTasks, FailedPreserves DEF RunInv
<1>2. t \notin Terminal
  BY PolledTask
<1>3. /\ completed' = completed /\ failed' = failed \cup {t}
      /\ blocked' = blocked \cup NewlyBlocked(t)
      /\ successors' = successors
  BY <1>2 DEF MarkFailed
<1>4. TaskTypeOK'
  BY MarkTypes DEF MarkTasksBlocked, TaskState, RunInv, EngineInv, EngineTypeOK
<1>5. /\ EngineInv' /\ PredsDone' /\ OncePerRun' /\ DependencyOrder'
      /\ VerdictsFromJobs' /\ BlockedNeverRan'
      /\ jobs' = jobs /\ RunJobs' = RunJobs /\ JobIds' = JobIds
  BY <1>1, <1>2, <1>3, <1>4, VerdictRecorded
<1> QED
  BY <1>1, <1>3, <1>5 DEF RunInv

LEMMA HarvestFailedStep ==
    ASSUME RunInv, NEW t \in Tasks, HarvestFailed(t)
    PROVE  RunInv'
<1>1. /\ PollResolved(t, "std") /\ MarkFailed(t)
      /\ MarkTasksBlocked(NewlyBlocked(t))
      /\ toPoll' = toPoll \ {t} /\ harvested' = harvested \cup {t}
      /\ UNCHANGED <<graph, pc, batch, futures, runs, ended, everThrew, runBase>>
      /\ UNCHANGED engineVars
  BY DEF HarvestFailed
<1>2. ended' \in {"none", "threw"}
  BY <1>1, PolledTask
<1>3. /\ EngineInv' /\ PredsDone' /\ OncePerRun' /\ DependencyOrder'
      /\ VerdictsFromJobs' /\ BlockedNeverRan' /\ DepInv'
      /\ jobs' = jobs /\ RunJobs' = RunJobs /\ JobIds' = JobIds
      /\ completed' = completed /\ failed' = failed \cup {t}
      /\ successors' = graph'
  BY <1>1, <1>2, FailureRecorded
<1>4. SchedTypeOK' /\ Phased' /\ FuturesTrack' /\ Accounted' /\ BatchFresh'
  BY <1>1, <1>3, HarvestTracked
<1> QED
  BY <1>3, <1>4 DEF RunInv

(* The exits of execute_internal. *)
LEMMA LeftBehind ==
    ASSUME RunInv, NEW how \in {"normal", "threw"}, Leave(how),
           EngineInv', DepInv', JobIds' = JobIds, jobs' = jobs
    PROVE  SchedTypeOK' /\ Phased' /\ FuturesTrack' /\ Accounted' /\ BatchFresh'
<1>1. /\ pc' = "idle" /\ ended' = how /\ everThrew' = (everThrew \/ how = "threw")
      /\ futures' = [t \in {} |-> 0] /\ batch' = {} /\ toPoll' = {} /\ harvested' = {}
      /\ graph' = graph /\ runs' = runs /\ runBase' = runBase
  BY DEF Leave
<1>2. InFlight' = {}
  BY <1>1 DEF InFlight
<1>3. futures' \in [InFlight' -> JobIds'] /\ everThrew' \in BOOLEAN
  BY <1>1, <1>2 DEF RunInv, SchedTypeOK
<1>4. SchedTypeOK'
  BY <1>1, <1>2, <1>3 DEF RunInv, SchedTypeOK, EngineInv, DepInv
<1> QED
  BY <1>1, <1>2, <1>4 DEF Phased, FuturesTrack, Accounted, BatchFresh

LEMMA CallbackAbortsStep ==
    ASSUME RunInv, NEW t \in Tasks, CallbackAborts(t)
    PROVE  RunInv'
<1>1. /\ PollResolved(t, "std") /\ MarkFailed(t)
      /\ MarkTasksBlocked(NewlyBlocked(t)) /\ Leave("threw")
  BY DEF CallbackAborts
<1>2. /\ UNCHANGED <<graph, runBase>> /\ UNCHANGED engineVars /\ ended' = "threw"
  BY <1>1 DEF Leave
<1>3. /\ EngineInv' /\ PredsDone' /\ OncePerRun' /\ DependencyOrder'
      /\ VerdictsFromJobs' /\ DepInv'
      /\ jobs' = jobs /\ JobIds' = JobIds /\ successors' = graph'
  BY <1>1, <1>2, FailureRecorded
<1> QED
  BY <1>1, <1>3, LeftBehind DEF RunInv

LEMMA ForeignAbortsStep ==
    ASSUME RunInv, NEW t \in Tasks, ForeignAborts(t)
    PROVE  RunInv'
<1>1. Leave("threw") /\ UNCHANGED taskVars /\ UNCHANGED depVars
  BY DEF ForeignAborts
<1>2. UNCHANGED <<graph, runBase>> /\ UNCHANGED engineVars /\ ended' = "threw"
  BY <1>1 DEF Leave
<1>3. TaskTypeOK'
  BY <1>1, TasksKept
<1>4. /\ EngineInv' /\ DepInv' /\ successors' = graph'
      /\ completed' = completed /\ failed' = failed
      /\ jobs' = jobs /\ RunJobs' = RunJobs /\ JobIds' = JobIds
      /\ PredsDone' /\ OncePerRun' /\ DependencyOrder'
  BY <1>1, <1>2, <1>3, VerdictsKept
<1>5. VerdictsFromJobs'
  BY <1>2, <1>4 DEF RunInv, VerdictsFromJobs, Resolved
<1> QED
  BY <1>1, <1>4, <1>5, LeftBehind DEF RunInv

LEMMA FinishStep ==
    ASSUME RunInv, Finish
    PROVE  RunInv'
<1>1. /\ pc = "dispatch" /\ batch = {} /\ InFlight = {}
      /\ Leave("normal") /\ UNCHANGED taskVars /\ UNCHANGED depVars
  BY DEF Finish
<1>2. UNCHANGED <<graph, runBase>> /\ UNCHANGED engineVars
  BY <1>1 DEF Leave
<1>3. TaskTypeOK'
  BY <1>1, TasksKept
<1>4. /\ EngineInv' /\ DepInv' /\ successors' = graph'
      /\ completed' = completed /\ failed' = failed
      /\ jobs' = jobs /\ RunJobs' = RunJobs /\ JobIds' = JobIds
      /\ PredsDone' /\ OncePerRun' /\ DependencyOrder'
  BY <1>1, <1>2, <1>3, VerdictsKept
<1>5. \A j \in RunJobs : jobs[j].task \in completed \cup failed
  <2>1. Accounted
    BY DEF RunInv
  <2> QED
    BY <1>1, <2>1 DEF Accounted
<1>6. VerdictsFromJobs'
  BY <1>4, <1>5 DEF RunInv, VerdictsFromJobs, Resolved
<1> QED
  BY <1>1, <1>4, <1>6, LeftBehind DEF RunInv

(* The steps of the other threads. *)
LEMMA EngineStepKeeps ==
    ASSUME RunInv, EngineStep
    PROVE  RunInv'
<1>1. EngineNext /\ EngineInv /\ UNCHANGED depVars
      /\ UNCHANGED <<graph, pc, batch, futures, toPoll, harvested, runs, ended,
                     everThrew, runBase>>
  BY DEF EngineStep, schedVars, RunInv
<1>2. EngineInv'
  BY <1>1, EnginePreserves
<1>3. /\ Len(jobs') = Len(jobs) /\ JobIds' = JobIds
      /\ \A i \in JobIds : jobs'[i].task = jobs[i].task
      /\ \A i \in JobIds : Done(i) => jobs'[i].outcome = jobs[i].outcome
      /\ \A i \in JobIds : Resolved(i) => Resolved(i)'
  BY <1>1, EngineStepSeen
<1>4. DepInv' /\ Terminal' = Terminal /\ ReadyTasks' = ReadyTasks
  BY <1>1, DepKept DEF RunInv
<1>5. /\ completed' = completed /\ failed' = failed /\ successors' = graph'
      /\ graph' = graph /\ InFlight' = InFlight
  BY <1>1 DEF depVars, RunInv, InFlight
<1>6. RunJobs' = RunJobs /\ RunJobs \subseteq JobIds
  BY <1>1, <1>3 DEF RunJobs
<1>7. \A i \in RunJobs : Resolved(i) =>
          Resolved(i)' /\ jobs'[i].outcome = jobs[i].outcome
  BY <1>3, <1>6 DEF Resolved, Done
<1>8. SchedTypeOK'
  BY <1>1, <1>2, <1>3, <1>4, <1>5 DEF RunInv, SchedTypeOK, EngineInv, DepInv
<1>9. Phased'
  BY <1>1, <1>5 DEF RunInv, Phased
<1>10. FuturesTrack'
  BY <1>1, <1>3, <1>4, <1>5, <1>6 DEF RunInv, FuturesTrack
<1>11. Accounted'
  <2>1. Accounted
    BY DEF RunInv
  <2> QED
    BY <1>1, <1>3, <1>5, <1>6, <2>1 DEF Accounted
<1>12. BatchFresh' /\ PredsDone' /\ OncePerRun'
  BY <1>1, <1>3, <1>4, <1>5, <1>6
     DEF RunInv, BatchFresh, NotHandedOver, PredsDone, OncePerRun
<1>13. VerdictsFromJobs'
  BY <1>1, <1>3, <1>5, <1>6, <1>7 DEF RunInv, VerdictsFromJobs
<1>14. DependencyOrder'
  <2> SUFFICES ASSUME NEW j \in RunJobs, NEW p \in Predecessors(graph, jobs[j].task)
               PROVE  \E i \in RunJobs : i < j /\ jobs'[i].task = p
                                        /\ jobs'[i].outcome = "ok" /\ Resolved(i)'
    BY <1>3, <1>5, <1>6 DEF DependencyOrder
  <2>1. PICK i \in RunJobs :
           i < j /\ jobs[i].task = p /\ jobs[i].outcome = "ok" /\ Resolved(i)
    BY DEF RunInv, DependencyOrder
  <2> QED
    BY <1>3, <1>6, <1>7, <2>1
<1> QED
  BY <1>2, <1>4, <1>5, <1>8, <1>9, <1>10, <1>11, <1>12, <1>13, <1>14 DEF RunInv

(* A step that leaves everything but the tasks' states alone. *)
LEMMA OnlyTasksChange ==
    ASSUME RunInv, UNCHANGED schedVars, UNCHANGED engineVars, UNCHANGED depVars,
           TaskTypeOK'
    PROVE  RunInv'
<1>1. UNCHANGED <<graph, pc, batch, futures, toPoll, harvested, runs, ended,
                  everThrew, runBase>>
  BY DEF schedVars
<1>2. /\ EngineInv' /\ DepInv' /\ successors' = graph' /\ graph' = graph
      /\ Terminal' = Terminal /\ ReadyTasks' = ReadyTasks
      /\ completed' = completed /\ failed' = failed
      /\ jobs' = jobs /\ RunJobs' = RunJobs /\ JobIds' = JobIds
      /\ PredsDone' /\ OncePerRun' /\ DependencyOrder' /\ VerdictsFromJobs'
  BY <1>1, VerdictsKept
<1>3. InFlight' = InFlight
  BY <1>1 DEF InFlight
<1>4. SchedTypeOK'
  BY <1>1, <1>2, <1>3 DEF RunInv, SchedTypeOK, EngineInv, DepInv
<1>5. Phased' /\ FuturesTrack' /\ BatchFresh'
  BY <1>1, <1>2, <1>3 DEF RunInv, Phased, FuturesTrack, BatchFresh, NotHandedOver
<1>6. Accounted'
  <2>1. Accounted
    BY DEF RunInv
  <2> QED
    BY <1>1, <1>2, <1>3, <2>1 DEF Accounted
<1> QED
  BY <1>2, <1>4, <1>5, <1>6 DEF RunInv

LEMMA ClientCancelsKeeps ==
    ASSUME RunInv, ClientCancels
    PROVE  RunInv'
<1>1. PICK t \in Cancellable : Cancel(t) /\ UNCHANGED <<schedVars, engineVars, depVars>>
  BY DEF ClientCancels
<1>2. TaskTypeOK'
  BY <1>1 DEF Cancel, TaskTypeOK, TaskState, RunInv, EngineInv, EngineTypeOK
<1> QED
  BY <1>1, <1>2, OnlyTasksChange

LEMMA RunStep == RunInv /\ [Next]_vars => RunInv'
<1> SUFFICES ASSUME RunInv, [Next]_vars PROVE RunInv'
  OBVIOUS
<1>1. CASE Start
  BY <1>1, StartStep
<1>2. CASE Loop
  BY <1>2, DispatchStep, BeginPassStep, PollPendingStep, HarvestCompletedStep,
     HarvestFailedStep, CallbackAbortsStep, ForeignAbortsStep, CollectStep,
     FinishStep DEF Loop
<1>3. CASE EngineStep
  BY <1>3, EngineStepKeeps
<1>4. CASE ClientCancels
  BY <1>4, ClientCancelsKeeps
<1>5. CASE UNCHANGED vars
  <2>1. /\ UNCHANGED schedVars /\ UNCHANGED engineVars /\ UNCHANGED taskVars
        /\ UNCHANGED depVars
    BY <1>5 DEF vars
  <2> QED
    BY <2>1, TasksKept, OnlyTasksChange
<1> QED
  BY <1>1, <1>2, <1>3, <1>4, <1>5 DEF Next

LEMMA RunInvariant == Spec => []RunInv
  BY RunInitHolds, RunStep, PTL DEF Spec
-----------------------------------------------------------------------------
(* Every variable of the scheduler, the engine, the dependency manager and *)
(* the tasks keeps its type.                                               *)
THEOREM SchedTypeCorrect == Spec => []SchedTypeOK
<1>1. RunInv => SchedTypeOK
  BY DEF RunInv
<1> QED
  BY <1>1, RunInvariant, PTL

(* Whatever is in flight or abandoned, execute_task and the closures of    *)
(* the workers keep active_cpu_tasks_ and active_gpu_tasks_ exact: they    *)
(* never go below zero and reach it only when every job is retired.        *)
THEOREM ActiveCountExact == Spec => []ActiveExact
<1>1. RunInv => ActiveExact
  BY DEF RunInv, EngineInv
<1> QED
  BY <1>1, RunInvariant, PTL

(* cpu_worker_loop starts CPU jobs in the order execute_task queued them.  *)
THEOREM CpuStartsInOrder == Spec => []StartsInOrder
<1>1. RunInv => StartsInOrder
  BY DEF RunInv, EngineInv
<1> QED
  BY <1>1, RunInvariant, PTL

(* execute_internal hands a task over only after each of its predecessors  *)
(* ran and returned in the same execution, for every graph, policy and     *)
(* pool, and whatever abandoned executions left running.                   *)
THEOREM OrderOfDependencies == Spec => []DependencyOrder
<1>1. RunInv => DependencyOrder
  BY DEF RunInv
<1> QED
  BY <1>1, RunInvariant, PTL

(* Neither the batches nor the collection at the end of a pass hand one    *)
(* task over twice in an execution.                                        *)
THEOREM HandedOverOnce == Spec => []OncePerRun
<1>1. RunInv => OncePerRun
  BY DEF RunInv
<1> QED
  BY <1>1, RunInvariant, PTL

(* The search of mark_failed never reaches a task execute_internal handed  *)
(* to the engine, although it runs while others are in flight.             *)
THEOREM BlockedTasksNeverRan == Spec => []BlockedNeverRan
<1>1. RunInv => BlockedNeverRan
  BY RanNotBlocked DEF RunInv
<1> QED
  BY <1>1, RunInvariant, PTL

(* on_task_failed leaves no task behind a failure open at any distance,    *)
(* although mark_failed searches through tasks without a verdict only:     *)
(* none on the way is completed in an execution.                           *)
THEOREM NothingOutrunsAFailure == Spec => []FailureTakesAll
  BY BehindFailure, RunInvariant, PTL

(* The verdict of the dependency manager is the outcome of the task's job  *)
(* of this execution, and a normal end leaves no job without one.          *)
THEOREM VerdictsAreTheJobs == Spec => []VerdictsFromJobs
<1>1. RunInv => VerdictsFromJobs
  BY DEF RunInv
<1> QED
  BY <1>1, RunInvariant, PTL
==============================================================================
