----------------------------- MODULE ThreadProofs -----------------------------
(***************************************************************************)
(* The safety of the components whose threads wait for each other, for     *)
(* every number of threads and every limit: the workers of the engine, the *)
(* stream pool, the semaphores and budgets of the limiter, the barrier and *)
(* the future.  They share no state, and each has an inductive invariant   *)
(* of its own; the last section puts them together.                        *)
(***************************************************************************)
EXTENDS MCThreads, FiniteInduction, SequenceTheorems, TLAPS

-----------------------------------------------------------------------------
(* The engine's workers.  The counters are tied to the threads by          *)
(* ActiveCovers; that no wakeup is lost rests on where sleeping threads    *)
(* are, and on no worker leaving while a job is queued.                    *)
RunningWorkers == {w \in Workers : worker[w] = "run"}

(* Sleepers are at their predicate, and a thread that never calls wait_all *)
(* never sleeps.                                                           *)
SleepersTest ==
    /\ \A w \in Workers : w \in asleep => worker[w] = "test"
    /\ waiter = "absent" => Waiter \notin asleep

(* Once stopped, no job comes. *)
StopIsFinal == stop => client \in {"stopping", "joining"}

WakeInv ==
    /\ WakeTypeOK
    /\ active <= submits
    /\ ActiveCovers
    /\ SleepersTest
    /\ StopIsFinal
    /\ ShutdownDrains
    /\ NoLostWakeup

(* The number of running workers is a natural number; it grows and shrinks *)
(* by one with the worker that starts or ends a job, and with no other.    *)
LEMMA RunningFinite ==
    ASSUME WakeTypeOK
    PROVE  IsFiniteSet(RunningWorkers) /\ Cardinality(RunningWorkers) \in Nat
<1>1. RunningWorkers \subseteq Workers
  BY DEF RunningWorkers
<1>2. IsFiniteSet(RunningWorkers)
  BY <1>1, WakeupAssumption, FS_Subset DEF WakeupAssumption
<1> QED
  BY <1>2, FS_CardinalityType

LEMMA OneStarts ==
    ASSUME WakeTypeOK, NEW v \in Workers, worker[v] # "run",
           worker' = [worker EXCEPT ![v] = "run"]
    PROVE  Cardinality(RunningWorkers') = Cardinality(RunningWorkers) + 1
<1>1. RunningWorkers' = RunningWorkers \cup {v}
  BY DEF RunningWorkers, WakeTypeOK
<1>2. v \notin RunningWorkers
  BY DEF RunningWorkers
<1> QED
  BY <1>1, <1>2, RunningFinite, FS_AddElement

LEMMA OneEnds ==
    ASSUME WakeTypeOK, NEW v \in Workers, NEW s \in {"notify", "test", "exit"},
           worker[v] = "run",
           worker' = [worker EXCEPT ![v] = s]
    PROVE  /\ Cardinality(RunningWorkers') = Cardinality(RunningWorkers) - 1
           /\ Cardinality(RunningWorkers) > 0
<1>1. RunningWorkers' = RunningWorkers \ {v}
  BY DEF RunningWorkers, WakeTypeOK
<1>2. v \in RunningWorkers
  BY DEF RunningWorkers
<1>3. Cardinality(RunningWorkers) # 0
  BY <1>2, RunningFinite, FS_EmptySet
<1> QED
  BY <1>1, <1>2, <1>3, RunningFinite, FS_RemoveElement

LEMMA NoneStarts ==
    ASSUME WakeTypeOK, NEW v \in Workers, NEW s \in {"notify", "test", "exit"},
           worker[v] # "run",
           worker' = [worker EXCEPT ![v] = s]
    PROVE  RunningWorkers' = RunningWorkers
BY DEF RunningWorkers, WakeTypeOK

LEMMA WakeInitHolds == WakeInit => WakeInv
<1> SUFFICES ASSUME WakeInit PROVE WakeInv
  OBVIOUS
<1>1. WakeTypeOK
  <2>1. MaxSubmits \in Nat
    BY WakeupAssumption DEF WakeupAssumption
  <2>2. worker \in [Workers -> {"test", "run", "notify", "exit"}]
    BY DEF WakeInit
  <2>3. 0 \in 0 .. MaxSubmits
    BY <2>1
  <2> QED
    BY <2>2, <2>3 DEF WakeInit, WakeTypeOK
<1>2. RunningWorkers = {}
  BY DEF WakeInit, RunningWorkers
<1>3. ActiveCovers
  BY <1>2, FS_EmptySet DEF WakeInit, ActiveCovers, RunningWorkers
<1> QED
  BY <1>1, <1>3 DEF WakeInit, WakeInv, SleepersTest, StopIsFinal,
                    ShutdownDrains, NoLostWakeup

(* The steps of the client: the worker states stay. *)
LEMMA ClientSteps ==
    ASSUME WakeInv, Submit \/ Destroy \/ CallWaitAll \/ WaiterStep
                    \/ SpuriousWakeup \/ UNCHANGED wakeVars
    PROVE  WakeInv'
<1> USE WakeupAssumption DEF WakeupAssumption, WakeInv, WakeTypeOK
<1>1. RunningWorkers' = RunningWorkers /\ worker' = worker
  BY DEF RunningWorkers, Submit, CountJob, PushJob, WakeOne, Destroy, SetStop,
         WakeToStop, CallWaitAll, WaiterStep, ReturnFromWaitAll, FindBusy,
         BlockInWaitAll, SpuriousWakeup, wakeVars
<1>2. Cardinality(RunningWorkers) \in Nat
  BY RunningFinite
<1>3. CASE CountJob
  BY <1>1, <1>2, <1>3 DEF CountJob, ActiveCovers, RunningWorkers, SleepersTest,
         StopIsFinal, ShutdownDrains, NoLostWakeup, Awake
<1>4. CASE PushJob
  BY <1>1, <1>2, <1>4 DEF PushJob, ActiveCovers, RunningWorkers, SleepersTest,
         StopIsFinal, ShutdownDrains, NoLostWakeup
<1>5. CASE WakeOne
  <2>1. NoLostWakeup'
    <3> SUFFICES ASSUME waiter = "absent", queued > 0
                 PROVE  \E w \in Workers : w \notin asleep' /\ worker[w] # "exit"
      BY <1>1, <1>5 DEF WakeOne, NoLostWakeup, Awake
    <3>1. \A w \in Workers : worker[w] # "exit"
      BY DEF ShutdownDrains
    <3>2. asleep \subseteq Workers
      BY DEF SleepersTest
    <3> QED
      BY <1>5, <3>1, <3>2 DEF WakeOne
  <2> QED
    BY <1>1, <1>2, <1>5, <2>1 DEF WakeOne, ActiveCovers, RunningWorkers,
           SleepersTest, StopIsFinal, ShutdownDrains
<1>6. CASE SetStop
  BY <1>1, <1>2, <1>6 DEF SetStop, ActiveCovers, RunningWorkers, SleepersTest,
         StopIsFinal, ShutdownDrains, NoLostWakeup, Awake
<1>7. CASE WakeToStop
  BY <1>1, <1>2, <1>7 DEF WakeToStop, ActiveCovers, RunningWorkers, SleepersTest,
         StopIsFinal, ShutdownDrains, NoLostWakeup, Awake
<1>8. CASE CallWaitAll \/ WaiterStep
  BY <1>1, <1>2, <1>8 DEF CallWaitAll, WaiterStep, ReturnFromWaitAll, FindBusy,
         BlockInWaitAll, ActiveCovers, RunningWorkers, SleepersTest,
         StopIsFinal, ShutdownDrains, NoLostWakeup, Awake
<1>9. CASE SpuriousWakeup
  BY <1>1, <1>2, <1>9 DEF SpuriousWakeup, ActiveCovers, RunningWorkers,
         SleepersTest, StopIsFinal, ShutdownDrains, NoLostWakeup, Awake
<1>10. CASE UNCHANGED wakeVars
  BY <1>1, <1>10 DEF wakeVars, ActiveCovers, SleepersTest, StopIsFinal,
         ShutdownDrains, NoLostWakeup, Awake, RunningWorkers
<1> QED
  BY <1>3, <1>4, <1>5, <1>6, <1>7, <1>8, <1>9, <1>10 DEF Submit, Destroy

(* The steps of a worker. *)
LEMMA WorkerSteps ==
    ASSUME WakeInv, NEW v \in Workers, WorkerStep(v)
    PROVE  WakeInv'
<1> USE WakeupAssumption DEF WakeupAssumption, WakeInv, WakeTypeOK
<1>1. Cardinality(RunningWorkers) \in Nat
  BY RunningFinite
<1>2. CASE TakeJob(v)
  <2>1. Cardinality(RunningWorkers') = Cardinality(RunningWorkers) + 1
    BY <1>2, OneStarts DEF TakeJob
  <2>2. ActiveCovers'
    BY <1>1, <1>2, <2>1 DEF TakeJob, ActiveCovers, RunningWorkers
  <2> QED
    BY <1>1, <1>2, <2>2 DEF TakeJob, SleepersTest, StopIsFinal, ShutdownDrains,
           NoLostWakeup, Awake
<1>3. CASE ExitLoop(v)
  <2>1. RunningWorkers' = RunningWorkers
    BY <1>3, NoneStarts DEF ExitLoop
  <2>2. ActiveCovers'
    BY <1>1, <1>3, <2>1 DEF ExitLoop, ActiveCovers, RunningWorkers
  <2> QED
    BY <1>3, <2>2 DEF ExitLoop, SleepersTest, StopIsFinal, ShutdownDrains,
           NoLostWakeup, Awake
<1>4. CASE Sleep(v)
  <2>1. RunningWorkers' = RunningWorkers
    BY <1>4 DEF Sleep, RunningWorkers
  <2> QED
    BY <1>1, <1>4, <2>1 DEF Sleep, ActiveCovers, RunningWorkers, SleepersTest,
           StopIsFinal, ShutdownDrains, NoLostWakeup, Awake
<1>5. CASE FinishJob(v)
  <2>1. /\ Cardinality(RunningWorkers') = Cardinality(RunningWorkers) - 1
        /\ Cardinality(RunningWorkers) > 0
    BY <1>5, OneEnds DEF FinishJob
  <2>2. ActiveCovers' /\ active > 0
    BY <1>1, <1>5, <2>1 DEF FinishJob, ActiveCovers, RunningWorkers
  <2>3. WakeTypeOK' /\ active' <= submits'
    BY <1>5, <2>2 DEF FinishJob
  <2> QED
    BY <1>5, <2>2, <2>3 DEF FinishJob, SleepersTest, StopIsFinal,
           ShutdownDrains, NoLostWakeup, Awake
<1>6. CASE WakeAll(v)
  <2>1. RunningWorkers' = RunningWorkers
    BY <1>6, NoneStarts DEF WakeAll
  <2>2. ActiveCovers'
    BY <1>1, <1>6, <2>1 DEF WakeAll, ActiveCovers, RunningWorkers
  <2> QED
    BY <1>6, <2>2 DEF WakeAll, SleepersTest, StopIsFinal, ShutdownDrains,
           NoLostWakeup, Awake
<1> QED
  BY <1>2, <1>3, <1>4, <1>5, <1>6 DEF WorkerStep

LEMMA WakeStep == WakeInv /\ [WakeNext]_wakeVars => WakeInv'
  BY ClientSteps, WorkerSteps DEF WakeNext, Joined

LEMMA WakeInvariant == WakeSpec => []WakeInv
  BY WakeInitHolds, WakeStep, PTL DEF WakeSpec

(* The counters and the threads' places are what they are declared to be:  *)
(* active_cpu_tasks_ is never taken below zero.                            *)
THEOREM WakeTypeCorrect == WakeSpec => []WakeTypeOK
  BY WakeInvariant, PTL DEF WakeInv

(* active_cpu_tasks_ counts the counted, the queued and the running jobs,  *)
(* however many workers there are.                                         *)
THEOREM ActiveAlwaysCovers == WakeSpec => []ActiveCovers
  BY WakeInvariant, PTL DEF WakeInv

(* Without wait_all, a queued job that a push has announced always finds a *)
(* worker that is awake.                                                   *)
THEOREM NoWakeupIsLost == WakeSpec => []NoLostWakeup
  BY WakeInvariant, PTL DEF WakeInv

(* No worker leaves its loop while a job is queued. *)
THEOREM ShutdownAlwaysDrains == WakeSpec => []ShutdownDrains
  BY WakeInvariant, PTL DEF WakeInv
-----------------------------------------------------------------------------
(* The stream pool: every stream is idle or with one client, once; and its *)
(* events, which exist from their creation until somebody destroys them.   *)
(* A queue that holds nothing twice, when one more is put in or the first  *)
(* is taken out.                                                           *)
LEMMA AppendOnce ==
    ASSUME NEW S, NEW q \in Seq(S), IsInjective(q), NEW s \in S, s \notin Range(q)
    PROVE  /\ Append(q, s) \in Seq(S)
           /\ Len(Append(q, s)) = Len(q) + 1
           /\ IsInjective(Append(q, s))
           /\ Range(Append(q, s)) = Range(q) \cup {s}
<1>1. /\ Append(q, s) \in Seq(S)
      /\ Len(Append(q, s)) = Len(q) + 1
      /\ \A i \in 1 .. Len(q) : Append(q, s)[i] = q[i]
      /\ Append(q, s)[Len(q) + 1] = s
  OBVIOUS
<1>2. DOMAIN Append(q, s) = 1 .. Len(q) + 1 /\ DOMAIN q = 1 .. Len(q) /\ Len(q) \in Nat
  BY <1>1
<1>3. \A i \in 1 .. Len(q) : q[i] # s
  BY <1>2 DEF Range
<1>4. IsInjective(Append(q, s))
  BY <1>1, <1>2, <1>3 DEF IsInjective
<1>5. Range(Append(q, s)) = Range(q) \cup {s}
  BY <1>1, <1>2 DEF Range
<1> QED
  BY <1>1, <1>4, <1>5

LEMMA TailOnce ==
    ASSUME NEW S, NEW q \in Seq(S), IsInjective(q), q # <<>>
    PROVE  /\ Head(q) \in S /\ Head(q) \in Range(q)
           /\ Tail(q) \in Seq(S)
           /\ Len(Tail(q)) = Len(q) - 1
           /\ IsInjective(Tail(q))
           /\ Range(Tail(q)) = Range(q) \ {Head(q)}
<1>1. /\ Head(q) \in S /\ Head(q) = q[1]
      /\ Tail(q) \in Seq(S)
      /\ Len(Tail(q)) = Len(q) - 1
      /\ \A i \in 1 .. Len(q) - 1 : Tail(q)[i] = q[i + 1]
  BY HeadTailProperties
<1>2. /\ DOMAIN Tail(q) = 1 .. Len(q) - 1 /\ DOMAIN q = 1 .. Len(q)
      /\ Len(q) \in Nat \ {0}
  BY <1>1, EmptySeq
<1>3. IsInjective(Tail(q))
  BY <1>1, <1>2 DEF IsInjective
<1>4. Head(q) \in Range(q)
  BY <1>1, <1>2 DEF Range
<1>5. ASSUME NEW x \in Range(Tail(q))
      PROVE  x \in Range(q) /\ x # Head(q)
  <2>1. PICK i \in 1 .. Len(q) - 1 : x = q[i + 1]
    BY <1>1, <1>2 DEF Range
  <2>2. i + 1 \in DOMAIN q /\ 1 \in DOMAIN q /\ i + 1 # 1
    BY <1>2
  <2> QED
    BY <2>1, <2>2, <1>1 DEF IsInjective, Range
<1>6. ASSUME NEW x \in Range(q), x # Head(q)
      PROVE  x \in Range(Tail(q))
  <2>1. PICK i \in 1 .. Len(q) : x = q[i]
    BY <1>2 DEF Range
  <2>2. i - 1 \in 1 .. Len(q) - 1 /\ Tail(q)[i - 1] = x
    BY <2>1, <1>1, <1>2, <1>6
  <2> QED
    BY <2>2, <1>2 DEF Range
<1> QED
  BY <1>1, <1>3, <1>4, <1>5, <1>6
-----------------------------------------------------------------------------
Woken == {c \in Clients : acquirer[c] = "woken"}

(* Nobody comes to a manager before it is built. *)
NobodyThereYet ==
    phase = "constructing" => Leased = {} /\ \A c \in Clients : acquirer[c] = "outside"

(* An event on its way has an id, and only the CPU-only build has such.    *)
OnTheWayTyped ==
    \A c \in Makers : maker[c].at # "outside" =>
        build = "cpu" /\ maker[c].event \in 1 .. MaxEvents

(* While no two clients ran the stub at once, the ids in use are below the *)
(* counter, and one that was read is the counter.                          *)
IdsOrdered ==
    ~ overlapped =>
        /\ \A e \in events \cup given : e < nextEvent
        /\ \A c \in Makers :
               /\ maker[c].at # "outside" => maker[c].event \notin given
               /\ maker[c].at = "read" => maker[c].event = nextEvent
               /\ maker[c].at = "made" => maker[c].event < nextEvent
        /\ \A c, d \in Makers : c # d =>
               /\ ~ (maker[c].at = "read" /\ maker[d].at = "read")
               /\ maker[c].at = "made" /\ maker[d].at = "made"
                      => maker[c].event # maker[d].event

StreamPart == StreamTypeOK /\ StreamsExact /\ NobodyThereYet
EventPart == EventsExact /\ OnTheWayTyped /\ IdsOrdered
StreamInv == StreamPart /\ EventPart

LEMMA WokenFinite ==
    /\ IsFiniteSet(Woken) /\ Cardinality(Woken) \in Nat
    /\ IsFiniteSet(Woken') /\ Cardinality(Woken') \in Nat
<1>1. Woken \subseteq Clients /\ Woken' \subseteq Clients
  BY DEF Woken
<1> QED
  BY <1>1, StreamAssumption, FS_Subset, FS_CardinalityType DEF StreamAssumption

LEMMA OneMoreWoken ==
    ASSUME StreamTypeOK, NEW d \in Clients, acquirer[d] = "asleep",
           acquirer' = [acquirer EXCEPT ![d] = "woken"]
    PROVE  Cardinality(Woken') = Cardinality(Woken) + 1
<1>1. Woken' = Woken \cup {d} /\ d \notin Woken
  BY DEF Woken, StreamTypeOK
<1> QED
  BY <1>1, WokenFinite, FS_AddElement

LEMMA OneLessWoken ==
    ASSUME StreamTypeOK, NEW c \in Clients, NEW s \in {"outside", "asleep"},
           acquirer' = [acquirer EXCEPT ![c] = s]
    PROVE  Cardinality(Woken') >= Cardinality(Woken) - 1
<1>1. Woken' = Woken \ {c}
  BY DEF Woken, StreamTypeOK
<1>2. CASE c \in Woken
  BY <1>1, <1>2, WokenFinite, FS_RemoveElement
<1>3. CASE c \notin Woken
  <2>1. Woken' = Woken
    BY <1>1, <1>3
  <2> QED
    BY <2>1, WokenFinite
<1> QED
  BY <1>2, <1>3

LEMMA StreamPartInit == StreamInit => StreamPart
<1> SUFFICES ASSUME StreamInit
             PROVE  StreamPart
  OBVIOUS
<1> USE DEF StreamInit
<1>1. StreamTypeOK
  <2>1. available \in Seq(deviceStreams)
    BY EmptySeq
  <2> QED
    BY <2>1, StreamAssumption DEF StreamAssumption, StreamTypeOK, Leased, idleMaker, NoEvent
<1>2. StreamsExact
  <2>1. Range(available) = {} /\ IsInjective(available)
    BY DEF Range, IsInjective
  <2> QED
    BY <2>1 DEF StreamsExact, Leased
<1>3. NobodyThereYet
  BY DEF NobodyThereYet, Leased
<1> QED
  BY <1>1, <1>2, <1>3 DEF StreamPart

LEMMA MakeStreamKeeps ==
    ASSUME StreamPart, NEW s \in Streams, MakeStream(s)
    PROVE  StreamPart'
<1> USE DEF StreamPart, MakeStream
<1>1. available \in Seq(deviceStreams') /\ s \in deviceStreams' /\ s \notin Range(available)
  BY SeqMonotonic DEF StreamTypeOK, StreamsExact
<1>2. /\ available' \in Seq(deviceStreams')
      /\ IsInjective(available')
      /\ Range(available') = Range(available) \cup {s}
  BY <1>1, AppendOnce DEF StreamsExact
<1>3. StreamTypeOK'
  BY <1>2 DEF StreamTypeOK, Leased, eventVars
<1>4. StreamsExact'
  BY <1>2 DEF StreamsExact, NobodyThereYet, Leased
<1>5. NobodyThereYet'
  BY DEF NobodyThereYet, Leased
<1> QED
  BY <1>3, <1>4, <1>5

LEMMA ConstructionFailsKeeps ==
    ASSUME StreamPart, ConstructionFails
    PROVE  StreamPart'
<1> USE DEF StreamPart, ConstructionFails
<1>1. Range(available') = {} /\ IsInjective(available') /\ available' \in Seq(deviceStreams')
  BY EmptySeq DEF Range, IsInjective
<1>2. StreamTypeOK'
  BY <1>1 DEF StreamTypeOK, Leased, NobodyThereYet, eventVars
<1>3. StreamsExact'
  BY <1>1 DEF StreamsExact, NobodyThereYet, Leased
<1> QED
  BY <1>2, <1>3 DEF NobodyThereYet

LEMMA LeaseStreamKeeps ==
    ASSUME StreamPart, NEW c \in Clients, LeaseStream(c)
    PROVE  StreamPart'
<1> USE DEF StreamPart, LeaseStream
<1> DEFINE h == Head(available)
<1>1. /\ h \in deviceStreams /\ h \in Range(available)
      /\ available' \in Seq(deviceStreams)
      /\ Len(available') = Len(available) - 1
      /\ IsInjective(available')
      /\ Range(available') = Range(available) \ {h}
  BY TailOnce DEF StreamTypeOK, StreamsExact
<1>2. Leased' = Leased \cup {h}
  BY DEF Leased
<1>3. StreamTypeOK'
  BY <1>1, <1>2 DEF StreamTypeOK, Leased, eventVars
<1>4. StreamsExact'
  <2>1. Range(available') \cup Leased' = deviceStreams' /\ Range(available') \cap Leased' = {}
    BY <1>1, <1>2 DEF StreamsExact
  <2>2. ASSUME \E d \in Clients : acquirer'[d] = "asleep"
        PROVE  Len(available') <= Cardinality(Woken')
    <3>1. \E d \in Clients : acquirer[d] = "asleep"
      BY <2>2 DEF StreamTypeOK
    <3>2. Cardinality(Woken') >= Cardinality(Woken) - 1
      BY OneLessWoken
    <3>3. Len(available) \in Nat /\ Cardinality(Woken) \in Nat /\ Cardinality(Woken') \in Nat
      BY WokenFinite, <1>3, LenProperties DEF StreamTypeOK
    <3> QED
      BY <3>1, <3>2, <3>3, <1>1 DEF StreamsExact, Woken
  <2> QED
    BY <1>1, <2>1, <2>2 DEF StreamsExact, Woken
<1>5. NobodyThereYet'
  BY DEF NobodyThereYet
<1> QED
  BY <1>3, <1>4, <1>5

LEMMA SleepForStreamKeeps ==
    ASSUME StreamPart, NEW c \in Clients, SleepForStream(c)
    PROVE  StreamPart'
<1> USE DEF StreamPart, SleepForStream
<1>1. StreamTypeOK'
  BY DEF StreamTypeOK, Leased, eventVars
<1>2. Len(available') = 0 /\ Cardinality(Woken') \in Nat
  BY WokenFinite
<1>3. StreamsExact'
  BY <1>2 DEF StreamsExact, Leased, Woken
<1> QED
  BY <1>1, <1>3 DEF NobodyThereYet

LEMMA ReleaseStreamKeeps ==
    ASSUME StreamPart, NEW c \in Clients, NEW s \in Streams, ReleaseStream(c, s)
    PROVE  StreamPart'
<1> USE DEF StreamPart, ReleaseStream
<1>1. s \in Leased /\ s \in deviceStreams /\ s \notin Range(available)
  BY DEF HeldBy, StreamTypeOK, StreamsExact
<1>2. /\ available' \in Seq(deviceStreams)
      /\ Len(available') = Len(available) + 1
      /\ IsInjective(available')
      /\ Range(available') = Range(available) \cup {s}
  BY <1>1, AppendOnce DEF StreamTypeOK, StreamsExact
<1>3. Leased' = Leased \ {s}
  BY DEF Leased
<1>4. StreamTypeOK'
  <2>1. acquirer' \in [Clients -> {"outside", "asleep", "woken"}]
    BY DEF StreamTypeOK
  <2> QED
    BY <2>1, <1>2, <1>3 DEF StreamTypeOK, Leased, eventVars
<1>5. StreamsExact'
  <2>1. Range(available') \cup Leased' = deviceStreams' /\ Range(available') \cap Leased' = {}
    BY <1>1, <1>2, <1>3 DEF StreamsExact
  <2>2. ASSUME \E d \in Clients : acquirer'[d] = "asleep"
        PROVE  Len(available') <= Cardinality(Woken')
    <3>1. PICK d \in Clients : /\ acquirer[d] = "asleep"
                               /\ acquirer' = [acquirer EXCEPT ![d] = "woken"]
      BY <2>2
    <3>2. Cardinality(Woken') = Cardinality(Woken) + 1
      BY <3>1, OneMoreWoken
    <3>3. Len(available) \in Nat /\ Cardinality(Woken) \in Nat
      BY WokenFinite, LenProperties DEF StreamTypeOK
    <3> QED
      BY <3>1, <3>2, <3>3, <1>2 DEF StreamsExact, Woken
  <2> QED
    BY <1>2, <2>1, <2>2 DEF StreamsExact, Woken
<1> QED
  BY <1>4, <1>5 DEF NobodyThereYet

LEMMA DestroyManagerKeepsStreams ==
    ASSUME StreamPart, DestroyManager
    PROVE  StreamPart'
<1> USE DEF StreamPart, DestroyManager
<1>1. Range(available') = {} /\ IsInjective(available') /\ available' \in Seq(deviceStreams')
  BY EmptySeq DEF Range, IsInjective
<1>2. StreamTypeOK'
  BY <1>1 DEF StreamTypeOK, Leased
<1>3. \A c \in Clients : acquirer'[c] = "outside"
  BY DEF CanCall
<1>4. StreamsExact'
  BY <1>1, <1>3 DEF StreamsExact, Leased
<1> QED
  BY <1>2, <1>4 DEF NobodyThereYet

(* The steps that make and destroy events leave the streams alone. *)
LEMMA EventsLeaveStreams ==
    ASSUME StreamPart, UNCHANGED <<build, phase, deviceStreams, poolVars>>,
           maker' \in [Makers -> [at : {"outside", "read", "made"}, event : 0 .. MaxEvents]],
           events' \cup deviceEvents' \cup given' \subseteq 1 .. MaxEvents,
           nextEvent' \in 1 .. MaxEvents + 1
    PROVE  StreamPart'
BY DEF StreamPart, StreamTypeOK, StreamsExact, NobodyThereYet, Leased, poolVars

(* An event of the runtime, pointwise: the manager's, or on its way. *)
LEMMA EventsPointwise ==
    EventsExact <=>
        (~ overlapped =>
            /\ \A e : e \in deviceEvents <=>
                   e \in events \/ \E c \in Makers : maker[c].at = "made" /\ maker[c].event = e
            /\ \A c \in Makers : maker[c].at # "outside" => maker[c].event \notin events)
BY DEF EventsExact

LEMMA StreamsLeaveEvents ==
    ASSUME EventPart, UNCHANGED <<build, eventVars>>
    PROVE  EventPart'
BY DEF EventPart, EventsExact, OnTheWayTyped, IdsOrdered, eventVars

LEMMA CreateEventKeeps ==
    ASSUME StreamInv, NEW c \in Makers, CreateEvent(c)
    PROVE  StreamInv'
<1> USE DEF StreamInv, CreateEvent
<1> USE StreamAssumption DEF StreamAssumption
<1>1. \A d \in Makers : maker[d].at \in {"outside", "read", "made"} /\ maker[d].at = "outside"
  BY DEF StreamPart, StreamTypeOK, EventPart, OnTheWayTyped
<1>2. nextEvent \in Nat /\ MaxEvents \in Nat /\ nextEvent \in 1 .. MaxEvents
  BY DEF StreamPart, StreamTypeOK
<1>3. StreamPart'
  <2>1. nextEvent' \in 1 .. MaxEvents + 1
    BY <1>2
  <2> QED
    BY <2>1, <1>2, EventsLeaveStreams DEF StreamPart, StreamTypeOK
<1>4. events \subseteq Nat /\ given \subseteq Nat
  BY DEF StreamPart, StreamTypeOK
<1>5. EventPart'
  BY <1>1, <1>2, <1>4 DEF EventPart, EventsExact, OnTheWayTyped, IdsOrdered
<1> QED
  BY <1>3, <1>5

LEMMA StubReadsIdKeeps ==
    ASSUME StreamInv, NEW c \in Makers, StubReadsId(c)
    PROVE  StreamInv'
<1> USE DEF StreamInv, StubReadsId
<1> USE StreamAssumption DEF StreamAssumption
<1>1. nextEvent \in 1 .. MaxEvents /\ events \subseteq Nat /\ given \subseteq Nat
  BY DEF StreamPart, StreamTypeOK
<1>2. maker[c] = idleMaker /\ maker \in [Makers -> [at : {"outside", "read", "made"}, event : 0 .. MaxEvents]]
  BY DEF CanCall, StreamPart, StreamTypeOK
<1>3. /\ maker'[c] = [at |-> "read", event |-> nextEvent]
      /\ \A d \in Makers : d # c => maker'[d] = maker[d]
  BY <1>2
<1>4. StreamPart'
  BY <1>1, <1>2, EventsLeaveStreams DEF StreamPart, StreamTypeOK
<1>5. EventsExact'
  <2> SUFFICES ASSUME ~ overlapped'
               PROVE  EventsExact'
    BY DEF EventsExact
  <2>1. ~ overlapped
    OBVIOUS
  <2>2. \A e : e \in deviceEvents' <=>
            e \in events' \/ \E d \in Makers : maker'[d].at = "made" /\ maker'[d].event = e
    <3>1. \A d \in Makers : maker'[d].at = "made" <=> maker[d].at = "made"
      BY <1>2, <1>3 DEF idleMaker
    <3>2. \A d \in Makers : maker[d].at = "made" => maker'[d] = maker[d]
      BY <1>2, <1>3 DEF idleMaker
    <3> QED
      BY <2>1, <3>1, <3>2, EventsPointwise DEF EventPart
  <2>3. nextEvent \notin events
    BY <2>1, <1>1 DEF EventPart, IdsOrdered
  <2>4. \A d \in Makers : maker'[d].at # "outside" => maker'[d].event \notin events'
    BY <2>1, <2>3, <1>3 DEF EventPart, EventsExact
  <2> QED
    BY <2>2, <2>4 DEF EventsExact
<1>6. OnTheWayTyped'
  BY <1>1, <1>3 DEF EventPart, OnTheWayTyped
<1>7. IdsOrdered'
  <2> SUFFICES ASSUME ~ overlapped'
               PROVE  IdsOrdered'
    BY DEF IdsOrdered
  <2>1. ~ overlapped /\ \A d \in Makers : maker[d].at # "read"
    OBVIOUS
  <2>2. nextEvent \notin given
    BY <2>1, <1>1 DEF EventPart, IdsOrdered
  <2>3. \A d \in Makers : d # c => maker'[d] = maker[d] /\ maker'[d].at # "read"
    BY <2>1, <1>3
  <2>4. \A d \in Makers : maker'[d].at # "outside" => maker'[d].event \notin given'
    BY <2>1, <2>2, <2>3, <1>3 DEF EventPart, IdsOrdered
  <2> QED
    BY <2>1, <2>3, <2>4, <1>3 DEF EventPart, IdsOrdered
<1> QED
  BY <1>4, <1>5, <1>6, <1>7 DEF EventPart

LEMMA StubRegistersKeeps ==
    ASSUME StreamInv, NEW c \in Makers, StubRegisters(c)
    PROVE  StreamInv'
<1> USE DEF StreamInv, StubRegisters
<1> USE StreamAssumption DEF StreamAssumption
<1>1. maker \in [Makers -> [at : {"outside", "read", "made"}, event : 0 .. MaxEvents]]
  BY DEF StreamPart, StreamTypeOK
<1>2. maker[c].event \in 1 .. MaxEvents /\ build = "cpu"
  BY DEF EventPart, OnTheWayTyped
<1>3. /\ maker'[c].at = "made" /\ maker'[c].event = maker[c].event
      /\ \A d \in Makers : d # c => maker'[d] = maker[d]
  BY <1>1
<1>4. maker' \in [Makers -> [at : {"outside", "read", "made"}, event : 0 .. MaxEvents]]
  BY <1>1
<1>5. StreamPart'
  <2>1. events' \cup deviceEvents' \cup given' \subseteq 1 .. MaxEvents /\ nextEvent' \in 1 .. MaxEvents + 1
    BY <1>2 DEF StreamPart, StreamTypeOK
  <2> QED
    BY <2>1, <1>4, EventsLeaveStreams
<1>6. OnTheWayTyped'
  BY <1>2, <1>3 DEF EventPart, OnTheWayTyped
<1>7. ASSUME ~ overlapped
      PROVE  /\ nextEvent' = nextEvent + 1 /\ nextEvent \in Nat
             /\ maker[c].event = nextEvent
             /\ \A d \in Makers : d # c => maker[d].at # "read"
  BY <1>7 DEF EventPart, IdsOrdered, StreamPart, StreamTypeOK
<1>8. IdsOrdered'
  <2> SUFFICES ASSUME ~ overlapped
               PROVE  IdsOrdered'
    BY DEF IdsOrdered
  <2>1. \A e \in events' \cup given' : e \in Nat /\ e < nextEvent'
    BY <1>7 DEF EventPart, IdsOrdered, StreamPart, StreamTypeOK
  <2>2. \A d \in Makers : maker[d].event \in Nat
    BY <1>1
  <2>3. ASSUME NEW d \in Makers
        PROVE  /\ maker'[d].at # "read"
               /\ maker'[d].at # "outside" => maker'[d].event \notin given'
               /\ maker'[d].at = "made" => maker'[d].event < nextEvent'
               /\ d # c /\ maker'[d].at = "made" => maker'[d].event < nextEvent
    BY <1>3, <1>7, <2>2 DEF EventPart, IdsOrdered
  <2>4. ASSUME NEW d \in Makers, NEW e \in Makers, d # e,
               maker'[d].at = "made", maker'[e].at = "made"
        PROVE  maker'[d].event # maker'[e].event
    <3>1. CASE d # c /\ e # c
      BY <3>1, <2>4, <1>3 DEF EventPart, IdsOrdered
    <3>2. CASE d = c
      BY <3>2, <2>2, <2>3, <2>4, <1>3, <1>7
    <3>3. CASE e = c
      BY <3>3, <2>2, <2>3, <2>4, <1>3, <1>7
    <3> QED
      BY <3>1, <3>2, <3>3
  <2> QED
    BY <2>1, <2>3, <2>4 DEF IdsOrdered
<1>9. EventsExact'
  BY <1>3, EventsPointwise DEF EventPart, EventsExact
<1> QED
  BY <1>5, <1>6, <1>8, <1>9 DEF EventPart

LEMMA KeepEventKeeps ==
    ASSUME StreamInv, NEW c \in Makers, KeepEvent(c)
    PROVE  StreamInv'
<1> USE DEF StreamInv, KeepEvent
<1> USE StreamAssumption DEF StreamAssumption
<1>1. maker \in [Makers -> [at : {"outside", "read", "made"}, event : 0 .. MaxEvents]]
  BY DEF StreamPart, StreamTypeOK
<1>2. maker[c].event \in 1 .. MaxEvents /\ build = "cpu"
  BY DEF EventPart, OnTheWayTyped
<1>3. /\ maker'[c].at = "outside"
      /\ \A d \in Makers : d # c => maker'[d] = maker[d]
  BY <1>1 DEF idleMaker
<1>4. StreamPart'
  <2>1. maker' \in [Makers -> [at : {"outside", "read", "made"}, event : 0 .. MaxEvents]]
    BY <1>1 DEF idleMaker, NoEvent
  <2>2. events' \cup deviceEvents' \cup given' \subseteq 1 .. MaxEvents /\ nextEvent' \in 1 .. MaxEvents + 1
    BY <1>2 DEF StreamPart, StreamTypeOK
  <2> QED
    BY <2>1, <2>2, EventsLeaveStreams
<1>5. OnTheWayTyped'
  BY <1>2, <1>3 DEF EventPart, OnTheWayTyped
<1>6. IdsOrdered'
  <2> SUFFICES ASSUME ~ overlapped
               PROVE  IdsOrdered'
    BY DEF IdsOrdered
  <2>1. \A e \in events' \cup given' : e < nextEvent'
    BY DEF EventPart, IdsOrdered
  <2>2. \A d \in Makers : d # c /\ maker[d].at # "outside" => maker[d].event # maker[c].event
    BY <1>1 DEF EventPart, IdsOrdered
  <2>3. \A d \in Makers : maker'[d].at # "outside" => maker'[d].event \notin given'
    BY <2>2, <1>3 DEF EventPart, IdsOrdered
  <2> QED
    BY <2>1, <2>3, <1>3 DEF EventPart, IdsOrdered
<1>7. EventsExact'
  <2> SUFFICES ASSUME ~ overlapped
               PROVE  EventsExact'
    BY DEF EventsExact
  <2>1. \A e : e \in deviceEvents' <=>
            e \in events' \/ \E d \in Makers : maker'[d].at = "made" /\ maker'[d].event = e
    BY <1>3, EventsPointwise DEF EventPart
  <2>2. ASSUME NEW d \in Makers, maker'[d].at # "outside"
        PROVE  maker'[d].event \notin events'
    <3>1. d # c /\ maker'[d] = maker[d]
      BY <1>3, <2>2
    <3>2. maker[d].event # maker[c].event
      BY <3>1, <2>2, <1>1 DEF EventPart, IdsOrdered
    <3> QED
      BY <3>1, <3>2, <2>2 DEF EventPart, EventsExact
  <2> QED
    BY <2>1, <2>2 DEF EventsExact
<1> QED
  BY <1>4, <1>5, <1>6, <1>7 DEF EventPart

LEMMA DestroyEventKeeps ==
    ASSUME StreamInv, NEW e \in given, DestroyEvent(e)
    PROVE  StreamInv'
<1> USE DEF StreamInv, DestroyEvent
<1>1. StreamPart'
  BY EventsLeaveStreams DEF StreamPart, StreamTypeOK
<1>2. EventsExact'
  <2> SUFFICES ASSUME ~ overlapped
               PROVE  EventsExact'
    BY DEF EventsExact
  <2>1. \A d \in Makers : maker[d].at # "outside" => maker[d].event # e
    BY DEF EventPart, IdsOrdered
  <2>2. \A x : x \in deviceEvents <=>
            x \in events \/ \E d \in Makers : maker[d].at = "made" /\ maker[d].event = x
    BY EventsPointwise DEF EventPart
  <2>3. e \in deviceEvents => e \in events
    BY <2>1, <2>2
  <2>4. deviceEvents' = deviceEvents \ {e} /\ events' = events \ {e} /\ maker' = maker
    BY <2>3
  <2>5. \A x : x \in deviceEvents' <=>
            x \in events' \/ \E d \in Makers : maker'[d].at = "made" /\ maker'[d].event = x
    BY <2>1, <2>2, <2>4
  <2> QED
    BY <2>4, <2>5 DEF EventPart, EventsExact
<1> QED
  BY <1>1, <1>2 DEF EventPart, OnTheWayTyped, IdsOrdered

LEMMA DestroyManagerKeeps ==
    ASSUME StreamInv, DestroyManager
    PROVE  StreamInv'
<1> USE DEF StreamInv
<1>1. StreamPart'
  BY DestroyManagerKeepsStreams
<1>2. \A c \in Makers : maker[c].at = "outside" /\ maker' = maker
  BY StreamAssumption DEF StreamAssumption, DestroyManager, CanCall, idleMaker
<1>3. EventPart'
  BY <1>2 DEF EventPart, EventsExact, OnTheWayTyped, IdsOrdered, DestroyManager
<1> QED
  BY <1>1, <1>3

LEMMA StreamInvInit == StreamInit => StreamInv
<1> SUFFICES ASSUME StreamInit
             PROVE  StreamInv
  OBVIOUS
<1>1. EventPart
  BY DEF StreamInit, EventPart, EventsExact, OnTheWayTyped, IdsOrdered, idleMaker
<1> QED
  BY <1>1, StreamPartInit DEF StreamInv

LEMMA StreamInvStep == StreamInv /\ [StreamNext]_streamVars => StreamInv'
<1> SUFFICES ASSUME StreamInv, [StreamNext]_streamVars
             PROVE  StreamInv'
  OBVIOUS
<1>1. ASSUME StreamPart', UNCHANGED <<build, eventVars>>
      PROVE  StreamInv'
  BY <1>1, StreamsLeaveEvents DEF StreamInv
<1>2. ASSUME NEW s \in Streams, MakeStream(s)
      PROVE  StreamInv'
  BY <1>1, <1>2, MakeStreamKeeps DEF StreamInv, MakeStream
<1>3. CASE ConstructionFails
  BY <1>1, <1>3, ConstructionFailsKeeps DEF StreamInv, ConstructionFails
<1>4. ASSUME NEW c \in Clients, LeaseStream(c)
      PROVE  StreamInv'
  BY <1>1, <1>4, LeaseStreamKeeps DEF StreamInv, LeaseStream
<1>5. ASSUME NEW c \in Clients, SleepForStream(c)
      PROVE  StreamInv'
  BY <1>1, <1>5, SleepForStreamKeeps DEF StreamInv, SleepForStream
<1>6. ASSUME NEW c \in Clients, NEW s \in Streams, ReleaseStream(c, s)
      PROVE  StreamInv'
  BY <1>1, <1>6, ReleaseStreamKeeps DEF StreamInv, ReleaseStream
<1>7. CASE UNCHANGED streamVars
  <2>1. StreamPart'
    BY <1>7 DEF streamVars, StreamInv, StreamPart, StreamTypeOK, StreamsExact, NobodyThereYet, Leased
  <2> QED
    BY <1>1, <1>7, <2>1 DEF streamVars, eventVars
<1> QED
  BY <1>2, <1>3, <1>4, <1>5, <1>6, <1>7, CreateEventKeeps, StubReadsIdKeeps,
     StubRegistersKeeps, KeepEventKeeps, DestroyEventKeeps, DestroyManagerKeeps
  DEF StreamNext

(* Streams and events have the values the code gives them, for any number  *)
(* of streams and of clients.                                              *)
THEOREM StreamTypeCorrect == StreamSpec => []StreamTypeOK
<1>1. StreamInv => StreamTypeOK
  BY DEF StreamInv, StreamPart
<1> QED
  BY <1>1, StreamInvInit, StreamInvStep, PTL DEF StreamSpec

(* The manager and the runtime agree on what exists and who has it: no     *)
(* stream is in the queue of acquire_stream and with a client, or nowhere, *)
(* no client sleeps past a stream that waits, and no event is lost or      *)
(* shared while the stub is not run by two clients at once.                *)
THEOREM ResourcesAlwaysExact == StreamSpec => []ResourcesExact
<1>1. StreamInv => ResourcesExact
  BY DEF StreamInv, StreamPart, EventPart, ResourcesExact
<1> QED
  BY <1>1, StreamInvInit, StreamInvStep, PTL DEF StreamSpec
-----------------------------------------------------------------------------
(* The limiter.  Its three parts, the slots, the bytes and the task count, *)
(* have no variable in common.                                             *)
LEMMA SlotsAssumed == SlotLimit \in [Devices -> Nat]
BY LimiterAssumption DEF LimiterAssumption

(* What the clients hold by each device's semaphore is what it lacks. *)
SlotsExact ==
    \A d \in Devices :
        Limited(d) => SlotLimit[d] - permits[d] = Cardinality(In("armed", d)) + taken[d]

(* The semaphore of a device without a limit is never counted down, and    *)
(* nobody waits for it.                                                    *)
UnlimitedStandsAside ==
    \A d \in Devices : ~ Limited(d) =>
        /\ permits[d] = Unlimited /\ taken[d] = 0
        /\ In("asleep", d) = {} /\ In("woken", d) = {}

SlotPart ==
    /\ permits \in [Devices -> Nat]
    /\ guard \in [Guards -> [phase : Phases, device : Devices]]
    /\ taken \in [Devices -> Nat]
    /\ SlotsExact
    /\ UnlimitedStandsAside
    /\ NoIdlePermit

LEMMA GuardsFinite ==
    ASSUME NEW ph, NEW d
    PROVE  /\ IsFiniteSet(In(ph, d)) /\ Cardinality(In(ph, d)) \in Nat
           /\ IsFiniteSet(In(ph, d)') /\ Cardinality(In(ph, d)') \in Nat
<1>1. In(ph, d) \subseteq Guards /\ In(ph, d)' \subseteq Guards
  BY DEF In
<1>2. IsFiniteSet(In(ph, d)) /\ IsFiniteSet(In(ph, d)')
  BY <1>1, LimiterAssumption, FS_Subset DEF LimiterAssumption
<1> QED
  BY <1>2, FS_CardinalityType

(* A guard comes to a ph or leaves it, and the others stay. *)
LEMMA GuardComes ==
    ASSUME NEW ph, NEW d, NEW g, g \notin In(ph, d), In(ph, d)' = In(ph, d) \cup {g}
    PROVE  Cardinality(In(ph, d)') = Cardinality(In(ph, d)) + 1
BY GuardsFinite, FS_AddElement

LEMMA GuardLeaves ==
    ASSUME NEW ph, NEW d, NEW g, g \in In(ph, d), In(ph, d)' = In(ph, d) \ {g}
    PROVE  Cardinality(In(ph, d)') = Cardinality(In(ph, d)) - 1
BY GuardsFinite, FS_RemoveElement

LEMMA NoGuardTyped == NoGuard \in [phase : {"none"}, device : Devices]
BY LimiterAssumption DEF LimiterAssumption, NoGuard

LEMMA AcquireAtOnceKeeps ==
    ASSUME SlotPart, NEW g \in Guards, NEW d \in Devices, AcquireAtOnce(g, d)
    PROVE  SlotPart'
<1> USE SlotsAssumed DEF AcquireAtOnce, SlotPart
<1>1. guard'[g] = [phase |-> "armed", device |-> d] /\ \A h \in Guards \ {g} : guard'[h] = guard[h]
  OBVIOUS
<1>2. /\ permits' \in [Devices -> Nat]
      /\ guard' \in [Guards -> [phase : Phases, device : Devices]]
  BY DEF Phases
<1>3. In("armed", d)' = In("armed", d) \cup {g} /\ g \notin In("armed", d)
  BY <1>1 DEF In
<1>4. \A e \in Devices : /\ e # d => In("armed", e)' = In("armed", e)
                         /\ In("asleep", e)' = In("asleep", e)
                         /\ In("woken", e)' = In("woken", e)
  BY <1>1 DEF In
<1>5. Cardinality(In("armed", d)') = Cardinality(In("armed", d)) + 1
  BY <1>3, GuardComes
<1>6. \A e \in Devices : Cardinality(In("armed", e)) \in Nat /\ Cardinality(In("woken", e)) \in Nat
  BY GuardsFinite
<1>7. SlotsExact'
  <2> SUFFICES ASSUME NEW e \in Devices, Limited(e)
               PROVE  SlotLimit[e] - permits'[e] = Cardinality(In("armed", e)') + taken'[e]
    BY DEF SlotsExact, Limited
  <2>1. CASE e = d
    <3>1. permits'[e] = permits[e] - 1 /\ taken'[e] = taken[e]
      BY <2>1
    <3>2. SlotLimit[e] - permits[e] = Cardinality(In("armed", e)) + taken[e]
      BY DEF SlotsExact
    <3>3. Cardinality(In("armed", e)') = Cardinality(In("armed", e)) + 1
      BY <2>1, <1>5
    <3>4. /\ SlotLimit[e] \in Nat /\ permits[e] \in Nat /\ taken[e] \in Nat
          /\ Cardinality(In("armed", e)) \in Nat
      BY <1>6
    <3> HIDE DEF AcquireAtOnce, SlotPart
    <3> QED
      BY <3>1, <3>2, <3>3, <3>4
  <2>2. CASE e # d
    BY <2>2, <1>4 DEF SlotsExact
  <2> QED
    BY <2>1, <2>2
<1>8. UnlimitedStandsAside'
  BY <1>4 DEF UnlimitedStandsAside, Limited
<1>9. NoIdlePermit'
  BY <1>4, <1>6 DEF NoIdlePermit, Limited
<1> QED
  BY <1>2, <1>7, <1>8, <1>9

LEMMA SleepForPermitKeeps ==
    ASSUME SlotPart, NEW g \in Guards, NEW d \in Devices, SleepForPermit(g, d)
    PROVE  SlotPart'
<1> USE SlotsAssumed DEF SleepForPermit, SlotPart
<1>1. guard'[g] = [phase |-> "asleep", device |-> d] /\ \A h \in Guards \ {g} : guard'[h] = guard[h]
  OBVIOUS
<1>2. guard' \in [Guards -> [phase : Phases, device : Devices]]
  BY DEF Phases
<1>3. \A e \in Devices : /\ In("armed", e)' = In("armed", e)
                         /\ In("woken", e)' = In("woken", e)
                         /\ e # d => In("asleep", e)' = In("asleep", e)
  BY <1>1 DEF In
<1>4. \A e \in Devices : Cardinality(In("woken", e)) \in Nat
  BY GuardsFinite
<1>5. Limited(d)
  BY DEF UnlimitedStandsAside, Unlimited
<1>6. SlotsExact' /\ UnlimitedStandsAside'
  BY <1>3, <1>5 DEF SlotsExact, UnlimitedStandsAside, Limited
<1>7. NoIdlePermit'
  BY <1>3, <1>4 DEF NoIdlePermit
<1> QED
  BY <1>2, <1>6, <1>7

(* One that waits, or was woken, is at a device with a limit. *)
LEMMA WaitersAreLimited ==
    ASSUME SlotPart, NEW g \in Guards, guard[g].phase \in {"asleep", "woken"}
    PROVE  guard[g].device \in Devices /\ Limited(guard[g].device)
BY DEF SlotPart, UnlimitedStandsAside, In

LEMMA ReacquireKeeps ==
    ASSUME SlotPart, NEW g \in Guards, Reacquire(g)
    PROVE  SlotPart'
<1> USE SlotsAssumed DEF SlotPart
<1>1. PICK d \in Devices :
          d = guard[g].device /\ Limited(d) /\ guard[g].phase \in {"asleep", "woken"}
  BY WaitersAreLimited DEF Reacquire
<1>2. \A e \in Devices : /\ Cardinality(In("armed", e)) \in Nat
                         /\ Cardinality(In("woken", e)) \in Nat
                         /\ Cardinality(In("woken", e)') \in Nat
  BY GuardsFinite
<1>3. CASE /\ permits[d] > 0
           /\ permits' = [permits EXCEPT ![d] = @ - 1]
           /\ guard' = [guard EXCEPT ![g].phase = "armed"]
  <2>1. /\ guard'[g].phase = "armed" /\ guard'[g].device = d
        /\ \A h \in Guards \ {g} : guard'[h] = guard[h]
    BY <1>1, <1>3
  <2>2. /\ permits' \in [Devices -> Nat]
        /\ guard' \in [Guards -> [phase : Phases, device : Devices]]
        /\ taken' = taken
    BY <1>1, <1>3 DEF Phases, Reacquire
  <2>3. In("armed", d)' = In("armed", d) \cup {g} /\ g \notin In("armed", d)
    BY <1>1, <2>1 DEF In
  <2>4. /\ \A e \in Devices : e # d => /\ In("armed", e)' = In("armed", e)
                                       /\ In("asleep", e)' = In("asleep", e)
                                       /\ In("woken", e)' = In("woken", e)
        /\ In("asleep", d)' \subseteq In("asleep", d)
    BY <1>1, <2>1 DEF In
  <2>5. Cardinality(In("armed", d)') = Cardinality(In("armed", d)) + 1
    BY <2>3, GuardComes
  <2>6. permits'[d] = permits[d] - 1 /\ \A e \in Devices : e # d => permits'[e] = permits[e]
    BY <1>1, <1>3
  <2>7. SlotsExact'
    <3> SUFFICES ASSUME NEW e \in Devices, Limited(e)
                 PROVE  SlotLimit[e] - permits'[e] = Cardinality(In("armed", e)') + taken'[e]
      BY DEF SlotsExact, Limited
    <3>1. SlotLimit[e] - permits[e] = Cardinality(In("armed", e)) + taken[e]
      BY DEF SlotsExact
    <3>2. SlotLimit[e] \in Nat /\ permits[e] \in Nat /\ taken[e] \in Nat
      BY SlotsAssumed
    <3>3. CASE e = d
      <4>1. permits'[e] = permits[e] - 1 /\ taken'[e] = taken[e]
        BY <3>3, <2>2, <2>6
      <4>2. Cardinality(In("armed", e)') = Cardinality(In("armed", e)) + 1
        BY <3>3, <2>5
      <4> PICK c : c = Cardinality(In("armed", e))
        OBVIOUS
      <4>3. c \in Nat
        BY <1>2
      <4> HIDE SlotsAssumed DEF SlotPart
      <4>4. SlotLimit[e] - (permits[e] - 1) = (c + 1) + taken[e]
        BY <3>1, <3>2, <4>3
      <4> QED
        BY <4>1, <4>2, <4>4
    <3>4. CASE e # d
      BY <3>1, <3>4, <2>2, <2>4, <2>6
    <3> QED
      BY <3>3, <3>4
  <2>8. UnlimitedStandsAside'
    BY <1>1, <2>2, <2>4, <2>6 DEF UnlimitedStandsAside, Limited
  <2>9. Cardinality(In("woken", d)') >= Cardinality(In("woken", d)) - 1
    <3>1. CASE guard[g].phase = "woken"
      <4>1. In("woken", d)' = In("woken", d) \ {g} /\ g \in In("woken", d)
        BY <3>1, <2>1, <1>1 DEF In
      <4> QED
        BY <4>1, <1>1, <1>2, GuardLeaves
    <3>2. CASE guard[g].phase = "asleep"
      <4>1. In("woken", d)' = In("woken", d)
        BY <3>2, <2>1, <1>1 DEF In
      <4> QED
        BY <4>1, <1>1, <1>2
    <3> QED
      BY <1>1, <3>1, <3>2
  <2>10. NoIdlePermit'
    <3> SUFFICES ASSUME NEW e \in Devices, In("asleep", e)' # {}
                 PROVE  permits'[e] <= Cardinality(In("woken", e)')
      BY DEF NoIdlePermit
    <3>1. In("asleep", e) # {} /\ permits[e] <= Cardinality(In("woken", e))
      BY <2>4 DEF NoIdlePermit
    <3> QED
      BY <3>1, <1>1, <1>2, <2>4, <2>6, <2>9
  <2> QED
    BY <2>2, <2>7, <2>8, <2>10
<1>4. CASE /\ permits[d] = 0
           /\ guard' = [guard EXCEPT ![g].phase = "asleep"]
           /\ UNCHANGED permits
  <2>1. /\ guard'[g].phase = "asleep" /\ guard'[g].device = d
        /\ \A h \in Guards \ {g} : guard'[h] = guard[h]
    BY <1>1, <1>4
  <2>2. guard' \in [Guards -> [phase : Phases, device : Devices]] /\ taken' = taken
    BY <1>4 DEF Phases, Reacquire
  <2>3. \A e \in Devices : /\ In("armed", e)' = In("armed", e)
                           /\ e # d => /\ In("asleep", e)' = In("asleep", e)
                                       /\ In("woken", e)' = In("woken", e)
    BY <1>1, <2>1 DEF In
  <2>4. SlotsExact' /\ UnlimitedStandsAside'
    BY <1>1, <1>4, <2>2, <2>3 DEF SlotsExact, UnlimitedStandsAside, Limited
  <2>5. NoIdlePermit'
    BY <1>1, <1>2, <1>4, <2>3 DEF NoIdlePermit
  <2> QED
    BY <1>4, <2>2, <2>4, <2>5
<1> QED
  BY <1>1, <1>3, <1>4 DEF Reacquire

LEMMA TimeOutKeeps ==
    ASSUME SlotPart, NEW g \in Guards, TimeOut(g)
    PROVE  SlotPart'
<1> USE SlotsAssumed DEF SlotPart, TimeOut
<1>1. PICK d \in Devices :
          d = guard[g].device /\ Limited(d) /\ guard[g].phase \in {"asleep", "woken"}
  BY WaitersAreLimited
<1>2. guard'[g].phase = "none" /\ \A h \in Guards \ {g} : guard'[h] = guard[h]
  BY NoGuardTyped
<1>3. guard' \in [Guards -> [phase : Phases, device : Devices]]
  BY NoGuardTyped DEF Phases
<1>4. \A e \in Devices : /\ In("armed", e)' = In("armed", e)
                         /\ e # d => /\ In("asleep", e)' = In("asleep", e)
                                     /\ In("woken", e)' = In("woken", e)
  BY <1>1, <1>2 DEF In
<1>5. SlotsExact' /\ UnlimitedStandsAside'
  BY <1>1, <1>4 DEF SlotsExact, UnlimitedStandsAside, Limited
<1>6. Cardinality(In("woken", d)') \in Nat
  BY GuardsFinite
<1>7. NoIdlePermit'
  BY <1>1, <1>4, <1>6 DEF NoIdlePermit
<1> QED
  BY <1>3, <1>5, <1>7

LEMMA MoveGuardKeeps ==
    ASSUME SlotPart, NEW g \in Guards, NEW h \in Guards, MoveGuard(g, h)
    PROVE  SlotPart'
<1> USE SlotsAssumed DEF SlotPart, MoveGuard
<1>1. g # h /\ \E d \in Devices : d = guard[g].device
  OBVIOUS
<1>2. /\ guard'[h] = guard[g] /\ guard'[g].phase = "spent"
      /\ \A k \in Guards \ {g, h} : guard'[k] = guard[k]
  BY <1>1
<1> PICK d \in Devices : d = guard[g].device
  BY <1>1
<1>3. guard' \in [Guards -> [phase : Phases, device : Devices]]
  BY <1>1 DEF Phases
<1>4. \A e \in Devices : /\ In("asleep", e)' = In("asleep", e)
                         /\ In("woken", e)' = In("woken", e)
                         /\ e # d => In("armed", e)' = In("armed", e)
  BY <1>1, <1>2 DEF In
<1>5. Cardinality(In("armed", d)') = Cardinality(In("armed", d))
  <2> DEFINE rest == In("armed", d) \ {g}
  <2>1. /\ In("armed", d) = rest \cup {g} /\ g \notin rest
        /\ In("armed", d)' = rest \cup {h} /\ h \notin rest
    BY <1>1, <1>2 DEF In
  <2>2. IsFiniteSet(rest)
    BY GuardsFinite, FS_Subset
  <2> HIDE DEF rest
  <2>3. /\ Cardinality(rest \cup {g}) = Cardinality(rest) + 1
        /\ Cardinality(rest \cup {h}) = Cardinality(rest) + 1
    BY <2>1, <2>2, FS_AddElement
  <2> QED
    BY <2>1, <2>3
<1>6. SlotsExact' /\ UnlimitedStandsAside' /\ NoIdlePermit'
  BY <1>4, <1>5 DEF SlotsExact, UnlimitedStandsAside, NoIdlePermit, Limited
<1> QED
  BY <1>3, <1>6

LEMMA TrySlotKeeps ==
    ASSUME SlotPart, NEW d \in Devices, TrySlot(d)
    PROVE  SlotPart'
<1> USE SlotsAssumed DEF SlotPart, TrySlot
<1>1. \A e \in Devices, ph \in Phases : In(ph, e)' = In(ph, e)
  BY DEF In
<1>2. \A e \in Devices : Cardinality(In("armed", e)) \in Nat /\ Cardinality(In("woken", e)) \in Nat
  BY GuardsFinite
<1>3. /\ permits' \in [Devices -> Nat] /\ taken' \in [Devices -> Nat]
      /\ permits'[d] = permits[d] - 1 /\ taken'[d] = taken[d] + 1
      /\ \A e \in Devices : e # d => permits'[e] = permits[e] /\ taken'[e] = taken[e]
  OBVIOUS
<1>4. SlotsExact'
  <2> SUFFICES ASSUME NEW e \in Devices, Limited(e)
               PROVE  SlotLimit[e] - permits'[e] = Cardinality(In("armed", e)') + taken'[e]
    BY DEF SlotsExact, Limited
  <2>1. SlotLimit[e] - permits[e] = Cardinality(In("armed", e)) + taken[e]
    BY DEF SlotsExact
  <2> QED
    BY <2>1, <1>1, <1>2, <1>3 DEF Phases
<1>5. UnlimitedStandsAside'
  BY <1>1, <1>3 DEF UnlimitedStandsAside, Limited, Phases
<1>6. NoIdlePermit'
  BY <1>1, <1>2, <1>3 DEF NoIdlePermit, Phases
<1> QED
  BY <1>3, <1>4, <1>5, <1>6

(* A release: guards is what the guards are when the permit is back, but   *)
(* for the one that is woken.                                              *)
LEMMA ReleaseWakes ==
    ASSUME SlotPart, NEW d \in Devices,
           NEW guards \in [Guards -> [phase : Phases, device : Devices]],
           \A k \in Guards : guards[k].phase \in {"asleep", "woken"}
                                 \/ guard[k].phase \in {"asleep", "woken"}
                             => guards[k] = guard[k],
           Release(d, guards)
    PROVE  /\ permits' \in [Devices -> Nat]
           /\ guard' \in [Guards -> [phase : Phases, device : Devices]]
           /\ Limited(d) => permits'[d] = permits[d] + 1
           /\ ~ Limited(d) => permits'[d] = permits[d]
           /\ \A e \in Devices \ {d} : permits'[e] = permits[e]
           /\ \A e \in Devices :
                  In("armed", e)' = {k \in Guards : guards[k].phase = "armed" /\ guards[k].device = e}
           /\ \A e \in Devices : ~ Limited(e) => In("asleep", e)' = {} /\ In("woken", e)' = {}
           /\ NoIdlePermit'
<1> USE SlotsAssumed DEF SlotPart
<1>1. /\ permits' \in [Devices -> Nat]
      /\ Limited(d) => permits'[d] = permits[d] + 1
      /\ ~ Limited(d) => permits'[d] = permits[d]
      /\ \A e \in Devices \ {d} : permits'[e] = permits[e]
  BY DEF Release
<1>2. \A e \in Devices :
          /\ In("asleep", e) = {k \in Guards : guards[k].phase = "asleep" /\ guards[k].device = e}
          /\ In("woken", e) = {k \in Guards : guards[k].phase = "woken" /\ guards[k].device = e}
  BY DEF In
<1>3. \A e \in Devices : /\ Cardinality(In("woken", e)) \in Nat
                         /\ Cardinality(In("woken", e)') \in Nat
  BY GuardsFinite
<1>4. ASSUME NEW h \in In("asleep", d), Limited(d), guards[h].phase = "asleep",
             guard' = [guards EXCEPT ![h].phase = "woken"]
      PROVE  /\ guard' \in [Guards -> [phase : Phases, device : Devices]]
             /\ \A e \in Devices :
                  In("armed", e)' = {k \in Guards : guards[k].phase = "armed" /\ guards[k].device = e}
             /\ \A e \in Devices : ~ Limited(e) => In("asleep", e)' = {} /\ In("woken", e)' = {}
             /\ NoIdlePermit'
  <2>1. h \in Guards /\ guards[h].device = d
    BY DEF In
  <2>2. /\ guard'[h].phase = "woken" /\ guard'[h].device = d
        /\ \A k \in Guards \ {h} : guard'[k] = guards[k]
    BY <1>4, <2>1
  <2>3. guard' \in [Guards -> [phase : Phases, device : Devices]]
    <3>1. guards[h] \in [phase : Phases, device : Devices]
      BY <2>1
    <3>2. [guards[h] EXCEPT !.phase = "woken"] \in [phase : Phases, device : Devices]
      BY <3>1 DEF Phases
    <3> QED
      BY <1>4, <2>1, <3>2
  <2>4. /\ \A e \in Devices :
               In("armed", e)' = {k \in Guards : guards[k].phase = "armed" /\ guards[k].device = e}
        /\ \A e \in Devices \ {d} : /\ In("asleep", e)' = In("asleep", e)
                                    /\ In("woken", e)' = In("woken", e)
        /\ In("woken", d)' = In("woken", d) \cup {h} /\ h \notin In("woken", d)
    BY <1>2, <1>4, <2>1, <2>2 DEF In
  <2>5. Cardinality(In("woken", d)') = Cardinality(In("woken", d)) + 1
    BY <2>4, GuardComes
  <2>6. NoIdlePermit'
    <3> SUFFICES ASSUME NEW e \in Devices, In("asleep", e)' # {}
                 PROVE  permits'[e] <= Cardinality(In("woken", e)')
      BY DEF NoIdlePermit
    <3>1. CASE e = d
      <4>1. permits[d] <= Cardinality(In("woken", d))
        BY DEF NoIdlePermit
      <4> QED
        BY <3>1, <4>1, <1>1, <1>3, <1>4, <2>5
    <3>2. CASE e # d
      BY <3>2, <1>1, <2>4 DEF NoIdlePermit
    <3> QED
      BY <3>1, <3>2
  <2> QED
    BY <1>4, <2>3, <2>4, <2>6 DEF UnlimitedStandsAside
<1>5. ASSUME ~ Limited(d) \/ In("asleep", d) = {}, guard' = guards
      PROVE  /\ guard' \in [Guards -> [phase : Phases, device : Devices]]
             /\ \A e \in Devices :
                  In("armed", e)' = {k \in Guards : guards[k].phase = "armed" /\ guards[k].device = e}
             /\ \A e \in Devices : ~ Limited(e) => In("asleep", e)' = {} /\ In("woken", e)' = {}
             /\ NoIdlePermit'
  <2>1. \A e \in Devices :
            /\ In("armed", e)' = {k \in Guards : guards[k].phase = "armed" /\ guards[k].device = e}
            /\ In("asleep", e)' = In("asleep", e) /\ In("woken", e)' = In("woken", e)
    BY <1>2, <1>5 DEF In
  <2>2. In("asleep", d) = {}
    BY <1>5 DEF UnlimitedStandsAside
  <2>3. NoIdlePermit'
    BY <1>1, <2>1, <2>2 DEF NoIdlePermit
  <2> QED
    BY <1>5, <2>1, <2>3 DEF UnlimitedStandsAside
<1>6. \/ Limited(d) /\ \E h \in In("asleep", d) :
             guards[h].phase = "asleep" /\ guard' = [guards EXCEPT ![h].phase = "woken"]
      \/ (~ Limited(d) \/ In("asleep", d) = {}) /\ guard' = guards
  BY <1>2 DEF Release, In
<1> QED
  BY <1>1, <1>4, <1>5, <1>6

LEMMA DestroyGuardKeeps ==
    ASSUME SlotPart, NEW g \in Guards, DestroyGuard(g)
    PROVE  SlotPart'
<1> USE SlotsAssumed DEF SlotPart
<1>1. CASE guard[g].phase = "armed" /\ Release(guard[g].device, [guard EXCEPT ![g] = NoGuard])
  <2>1. PICK d \in Devices : d = guard[g].device
    OBVIOUS
  <2>2. PICK guards : guards = [guard EXCEPT ![g] = NoGuard]
    OBVIOUS
  <2>3. /\ guards \in [Guards -> [phase : Phases, device : Devices]]
        /\ guards[g].phase = "none"
        /\ \A k \in Guards \ {g} : guards[k] = guard[k]
    BY <2>2, NoGuardTyped DEF Phases
  <2>4. Release(d, guards)
    BY <1>1, <2>1, <2>2
  <2>5. \A k \in Guards : guards[k].phase \in {"asleep", "woken"}
                              \/ guard[k].phase \in {"asleep", "woken"}
                          => guards[k] = guard[k]
    BY <1>1, <2>3
  <2>6. /\ permits' \in [Devices -> Nat]
        /\ guard' \in [Guards -> [phase : Phases, device : Devices]]
        /\ Limited(d) => permits'[d] = permits[d] + 1
        /\ ~ Limited(d) => permits'[d] = permits[d]
        /\ \A e \in Devices \ {d} : permits'[e] = permits[e]
        /\ \A e \in Devices :
               In("armed", e)' = {k \in Guards : guards[k].phase = "armed" /\ guards[k].device = e}
        /\ \A e \in Devices : ~ Limited(e) => In("asleep", e)' = {} /\ In("woken", e)' = {}
        /\ NoIdlePermit'
    BY <2>3, <2>4, <2>5, ReleaseWakes
  <2>7. /\ In("armed", d)' = In("armed", d) \ {g} /\ g \in In("armed", d)
        /\ \A e \in Devices \ {d} : In("armed", e)' = In("armed", e)
    <3>1. \A e \in Devices :
              In("armed", e) = {k \in Guards : guard[k].phase = "armed" /\ guard[k].device = e}
      BY DEF In
    <3>2. \A e \in Devices :
              In("armed", e)' = {k \in Guards : guards[k].phase = "armed" /\ guards[k].device = e}
      BY <2>6
    <3> HIDE DEF SlotPart
    <3>3. ASSUME NEW k \in Guards, NEW e \in Devices
          PROVE  (k \in In("armed", e)') <=> (k \in In("armed", e) /\ ~ (e = d /\ k = g))
      <4>1. CASE k = g
        BY <4>1, <3>1, <3>2, <1>1, <2>1, <2>3
      <4>2. CASE k # g
        BY <4>2, <3>1, <3>2, <2>3
      <4> QED
        BY <4>1, <4>2
    <3>4. \A e \in Devices : In("armed", e)' \subseteq Guards /\ In("armed", e) \subseteq Guards
      BY <3>1, <3>2
    <3>5. g \in In("armed", d)
      BY <3>1, <1>1, <2>1
    <3> QED
      BY <3>3, <3>4, <3>5
  <2>8. /\ Cardinality(In("armed", d)') = Cardinality(In("armed", d)) - 1
        /\ Cardinality(In("armed", d)) \in Nat
    BY <2>7, GuardLeaves, GuardsFinite
  <2>9. taken' = taken
    BY DEF DestroyGuard
  <2>10. SlotsExact'
    <3> SUFFICES ASSUME NEW e \in Devices, Limited(e)
                 PROVE  SlotLimit[e] - permits'[e] = Cardinality(In("armed", e)') + taken'[e]
      BY DEF SlotsExact, Limited
    <3>1. SlotLimit[e] - permits[e] = Cardinality(In("armed", e)) + taken[e]
      BY DEF SlotsExact
    <3>2. CASE e = d
      <4>1. permits[d] \in Nat /\ SlotLimit[d] \in Nat /\ taken[d] \in Nat
        OBVIOUS
      <4>2. permits'[d] = permits[d] + 1
        BY <3>2, <2>6
      <4> HIDE DEF SlotPart
      <4> QED
        BY <3>1, <3>2, <4>1, <4>2, <2>8, <2>9
    <3>3. CASE e # d
      BY <3>1, <3>3, <2>6, <2>7, <2>9
    <3> QED
      BY <3>2, <3>3
  <2>11. UnlimitedStandsAside'
    BY <2>6, <2>9 DEF UnlimitedStandsAside, Limited
  <2> QED
    BY <2>6, <2>9, <2>10, <2>11
<1>2. CASE guard[g].phase = "spent" /\ guard' = [guard EXCEPT ![g] = NoGuard] /\ UNCHANGED permits
  <2>1. guard' \in [Guards -> [phase : Phases, device : Devices]]
    BY <1>2, NoGuardTyped DEF Phases
  <2>2. guard'[g].phase = "none" /\ \A k \in Guards \ {g} : guard'[k] = guard[k]
    BY <1>2, NoGuardTyped
  <2>3. \A e \in Devices : /\ In("armed", e)' = In("armed", e)
                           /\ In("asleep", e)' = In("asleep", e)
                           /\ In("woken", e)' = In("woken", e)
    BY <1>2, <2>2 DEF In
  <2>4. taken' = taken
    BY DEF DestroyGuard
  <2> QED
    BY <1>2, <2>1, <2>3, <2>4 DEF SlotsExact, UnlimitedStandsAside, NoIdlePermit, Limited
<1> QED
  BY <1>1, <1>2 DEF DestroyGuard

LEMMA ReleaseSlotKeeps ==
    ASSUME SlotPart, NEW d \in Devices, ReleaseSlot(d)
    PROVE  SlotPart'
<1> USE SlotsAssumed DEF SlotPart
<1>1. PICK guards : guards = guard
  OBVIOUS
<1>2. Release(d, guards)
  BY <1>1 DEF ReleaseSlot
<1>3. /\ permits' \in [Devices -> Nat]
      /\ guard' \in [Guards -> [phase : Phases, device : Devices]]
      /\ Limited(d) => permits'[d] = permits[d] + 1
      /\ \A e \in Devices \ {d} : permits'[e] = permits[e]
      /\ \A e \in Devices :
             In("armed", e)' = {k \in Guards : guards[k].phase = "armed" /\ guards[k].device = e}
      /\ \A e \in Devices : ~ Limited(e) => In("asleep", e)' = {} /\ In("woken", e)' = {}
      /\ NoIdlePermit'
  BY <1>1, <1>2, ReleaseWakes
<1>4. \A e \in Devices : In("armed", e)' = In("armed", e)
  BY <1>1, <1>3 DEF In
<1>5. /\ taken[d] > 0 /\ taken' \in [Devices -> Nat] /\ taken'[d] = taken[d] - 1
      /\ \A e \in Devices \ {d} : taken'[e] = taken[e]
  BY DEF ReleaseSlot
<1>6. Limited(d)
  BY <1>5 DEF UnlimitedStandsAside
<1>7. SlotsExact'
  <2> SUFFICES ASSUME NEW e \in Devices, Limited(e)
               PROVE  SlotLimit[e] - permits'[e] = Cardinality(In("armed", e)') + taken'[e]
    BY DEF SlotsExact, Limited
  <2>1. SlotLimit[e] - permits[e] = Cardinality(In("armed", e)) + taken[e]
    BY DEF SlotsExact
  <2>2. Cardinality(In("armed", e)) \in Nat
    BY GuardsFinite
  <2>3. CASE e = d
    <3>1. permits[d] \in Nat /\ SlotLimit[d] \in Nat /\ taken[d] \in Nat
      OBVIOUS
    <3>2. permits'[d] = permits[d] + 1
      BY <1>3, <1>6
    <3> HIDE DEF SlotPart
    <3> QED
      BY <2>1, <2>2, <2>3, <3>1, <3>2, <1>4, <1>5
  <2>4. CASE e # d
    BY <2>1, <2>4, <1>3, <1>4, <1>5
  <2> QED
    BY <2>3, <2>4
<1>8. UnlimitedStandsAside'
  BY <1>3, <1>5, <1>6 DEF UnlimitedStandsAside, Limited
<1> QED
  BY <1>3, <1>5, <1>7, <1>8
-----------------------------------------------------------------------------
(* Arithmetic of size_t: what fits is not reduced. *)
LEMMA SizesAssumed ==
    /\ 2 ^ SizeBits \in Nat \ {0} /\ MemoryLimit \in 1 .. 2 ^ SizeBits - 1
    /\ Requests \subseteq Nat /\ IsFiniteSet(Requests)
    /\ MaxGrants \in Nat
<1>1. PICK size : size = 2 ^ SizeBits
  OBVIOUS
<1>2. /\ MemoryLimit \in 1 .. size - 1 /\ size \in Int
      /\ Requests \subseteq 0 .. size - 1 /\ MaxGrants \in Nat
  BY <1>1, LimiterAssumption DEF LimiterAssumption
<1>3. MemoryLimit \in Nat /\ MemoryLimit >= 1 /\ size \in Nat \ {0}
  BY <1>2
<1>4. Requests \subseteq Nat
  BY <1>2, <1>3
<1>5. IsFiniteSet(0 .. size - 1)
  BY <1>2, <1>3, FS_Interval
<1>6. IsFiniteSet(Requests)
  BY <1>2, <1>5, FS_Subset
<1> QED
  BY <1>1, <1>2, <1>3, <1>4, <1>6

LEMMA Wraps ==
    ASSUME NEW size \in Nat \ {0}, NEW n \in Nat
    PROVE  n % size \in Nat /\ n % size <= n
OBVIOUS

LEMMA Fits ==
    ASSUME NEW size \in Nat \ {0}, NEW n \in Nat, n < size
    PROVE  n % size = n
OBVIOUS

(* The bytes granted: so many grants of each size. *)
Granted == [r \in Requests |-> r * grants[r]]

LEMMA GrantedIsSum ==
    /\ MapThenSumSet(LAMBDA r : r * grants[r], Requests) = SumOver(Granted, Requests)
    /\ MapThenSumSet(LAMBDA r : r * grants'[r], Requests) = SumOver(Granted', Requests)
<1>1. ASSUME NEW g
      PROVE  MapThenSumSet(LAMBDA r : r * g[r], Requests)
                 = SumOver([r \in Requests |-> r * g[r]], Requests)
  <2> DEFINE P(it) == it = [s \in SUBSET Requests |->
                 IF s = {} THEN 0 ELSE (FirstOf(s) * g[FirstOf(s)]) + it[s \ {FirstOf(s)}]]
             w == [r \in Requests |-> r * g[r]]
  <2>1. MapThenSumSet(LAMBDA r : r * g[r], Requests) = (CHOOSE it : P(it))[Requests]
    BY DEF MapThenSumSet, MapThenFoldSet, FirstOf
  <2>2. ASSUME NEW it
        PROVE  P(it) <=> Adds(w, Requests, it)
    <3>1. \A s \in SUBSET Requests : s # {} => FirstOf(s) * g[FirstOf(s)] = w[FirstOf(s)]
      BY FirstIsMember
    <3> HIDE DEF w
    <3>2. [s \in SUBSET Requests |->
              IF s = {} THEN 0 ELSE (FirstOf(s) * g[FirstOf(s)]) + it[s \ {FirstOf(s)}]]
            = [s \in SUBSET Requests |->
              IF s = {} THEN 0 ELSE w[FirstOf(s)] + it[s \ {FirstOf(s)}]]
      BY <3>1
    <3> QED
      BY <3>2 DEF Adds
  <2> HIDE DEF P, w
  <2>3. (CHOOSE it : P(it)) = (CHOOSE it : Adds(w, Requests, it))
    BY <2>2, Zenon
  <2> QED
    BY <2>1, <2>3, SumIsFold DEF w
<1> QED
  BY <1>1 DEF Granted

(* The counter never exceeds the bytes granted, and until a sum wraps it   *)
(* is exact.                                                               *)
BudgetPart ==
    /\ memory \in Nat /\ memory <= MemoryLimit
    /\ grants \in [Requests -> 0 .. MaxGrants]
    /\ wrapped \in BOOLEAN
    /\ memory <= SumOver(Granted, Requests)
    /\ ~ wrapped => memory = SumOver(Granted, Requests)

(* One grant of a size more makes the sum larger by that size. *)
LEMMA OneGrantMore ==
    ASSUME NEW g \in [Requests -> Nat], NEW h \in [Requests -> Nat],
           NEW bytes \in Requests, h[bytes] = g[bytes] + 1,
           \A r \in Requests \ {bytes} : h[r] = g[r],
           NEW v, v = [r \in Requests |-> r * g[r]],
           NEW w, w = [r \in Requests |-> r * h[r]]
    PROVE  /\ bytes \in Nat
           /\ SumOver(v, Requests) \in Nat
           /\ SumOver(w, Requests) = SumOver(v, Requests) + bytes
<1>1. IsFiniteSet(Requests) /\ bytes \in Nat /\ \A r \in Requests : r \in Nat
  BY SizesAssumed
<1>2. /\ \A r \in Requests : v[r] = r * g[r] /\ w[r] = r * h[r]
      /\ \A r \in Requests : v[r] \in Nat /\ w[r] \in Nat
  BY <1>1
<1>3. w[bytes] = v[bytes] + bytes
  <2>1. /\ g[bytes] \in Nat
        /\ bytes * (g[bytes] + 1) = bytes * g[bytes] + bytes
    BY <1>1
  <2> QED
    BY <2>1, <1>2
<1>4. \A r \in Requests \ {bytes} : v[r] = w[r]
  BY <1>2
<1>5. SumOver(v, Requests) + w[bytes] = SumOver(w, Requests) + v[bytes]
  <2>1. IsFiniteSet(Requests)
    BY <1>1
  <2>2. \A r \in Requests : v[r] \in Nat /\ w[r] \in Nat
    BY <1>2
  <2> QED
    BY <2>1, <2>2, <1>4, SumChange
<1>6. SumOver(v, Requests) \in Nat /\ SumOver(w, Requests) \in Nat
  BY <1>1, <1>2, SumType
<1>7. v[bytes] \in Nat /\ w[bytes] \in Nat
  BY <1>2
<1> HIDE <1>2, <1>4
<1> QED
  BY <1>1, <1>3, <1>5, <1>6, <1>7

LEMMA TryAllocateKeeps ==
    ASSUME BudgetPart, NEW bytes \in Requests, TryAllocate(bytes)
    PROVE  BudgetPart'
<1>1. PICK size : size = 2 ^ SizeBits
  OBVIOUS
<1>2. size \in Nat \ {0} /\ MemoryLimit \in Nat /\ bytes \in Nat /\ MaxGrants \in Nat
  BY <1>1, SizesAssumed
<1>3. memory \in Nat /\ memory <= MemoryLimit /\ grants \in [Requests -> 0 .. MaxGrants]
  BY DEF BudgetPart
<1>4. /\ memory' = (memory + bytes) % size /\ memory' <= MemoryLimit
      /\ wrapped' = (wrapped \/ memory + bytes >= size)
  BY <1>1 DEF TryAllocate
<1>5. /\ memory' \in Nat /\ memory' <= memory + bytes
      /\ memory + bytes < size => memory' = memory + bytes
  <2>1. memory + bytes \in Nat
    BY <1>2, <1>3
  <2> QED
    BY <2>1, <1>2, <1>4, Wraps, Fits
<1>6. /\ grants' \in [Requests -> 0 .. MaxGrants] /\ grants'[bytes] = grants[bytes] + 1
      /\ \A r \in Requests \ {bytes} : grants'[r] = grants[r]
  BY <1>2, <1>3 DEF TryAllocate
<1>7. PICK v, w : v = Granted /\ w = Granted'
  OBVIOUS
<1>8. /\ SumOver(v, Requests) \in Nat
      /\ SumOver(w, Requests) = SumOver(v, Requests) + bytes
  <2>1. grants \in [Requests -> Nat] /\ grants' \in [Requests -> Nat]
    BY <1>2, <1>3, <1>6
  <2>2. v = [r \in Requests |-> r * grants[r]] /\ w = [r \in Requests |-> r * grants'[r]]
    BY <1>7 DEF Granted
  <2> QED
    BY <2>1, <2>2, <1>6, OneGrantMore
<1>9. memory <= SumOver(v, Requests) /\ (~ wrapped => memory = SumOver(v, Requests))
  BY <1>7 DEF BudgetPart
<1>10. memory' <= SumOver(w, Requests)
  BY <1>2, <1>3, <1>5, <1>8, <1>9
<1>11. ~ wrapped' => memory' = SumOver(w, Requests)
  <2> SUFFICES ASSUME ~ wrapped' PROVE memory' = SumOver(w, Requests)
    OBVIOUS
  <2>1. ~ wrapped /\ ~ (memory + bytes >= size)
    BY <1>4
  <2>2. memory = SumOver(v, Requests)
    BY <1>9, <2>1
  <2>3. memory + bytes < size
    BY <1>2, <1>3, <2>1
  <2> QED
    BY <1>5, <1>8, <2>2, <2>3
<1>12. wrapped' \in BOOLEAN
  BY <1>4
<1> QED
  BY <1>4, <1>5, <1>6, <1>7, <1>10, <1>11, <1>12 DEF BudgetPart

LEMMA FreeMemoryKeeps ==
    ASSUME BudgetPart, NEW bytes \in Requests, FreeMemory(bytes)
    PROVE  BudgetPart'
<1>1. MemoryLimit \in Nat /\ bytes \in Nat /\ MaxGrants \in Nat
  BY SizesAssumed
<1>2. /\ memory \in Nat /\ memory <= MemoryLimit /\ wrapped \in BOOLEAN
      /\ grants \in [Requests -> 0 .. MaxGrants] /\ grants[bytes] > 0
  BY DEF BudgetPart, FreeMemory
<1>3. /\ memory' = (IF bytes > memory THEN 0 ELSE memory - bytes)
      /\ wrapped' = wrapped
  BY DEF FreeMemory
<1>4. /\ grants' \in [Requests -> 0 .. MaxGrants] /\ grants[bytes] = grants'[bytes] + 1
      /\ \A r \in Requests \ {bytes} : grants[r] = grants'[r]
  BY <1>1, <1>2 DEF FreeMemory
<1>5. PICK v, w : v = Granted /\ w = Granted'
  OBVIOUS
<1>6. /\ SumOver(w, Requests) \in Nat
      /\ SumOver(v, Requests) = SumOver(w, Requests) + bytes
  <2>1. PICK g, h : g = grants' /\ h = grants
    OBVIOUS
  <2>2. g \in [Requests -> Nat] /\ h \in [Requests -> Nat]
    BY <2>1, <1>1, <1>2, <1>4
  <2>3. h[bytes] = g[bytes] + 1 /\ \A r \in Requests \ {bytes} : h[r] = g[r]
    BY <2>1, <1>4
  <2>4. w = [r \in Requests |-> r * g[r]] /\ v = [r \in Requests |-> r * h[r]]
    BY <2>1, <1>5 DEF Granted
  <2> QED
    BY <2>2, <2>3, <2>4, OneGrantMore
<1>7. memory <= SumOver(v, Requests) /\ (~ wrapped => memory = SumOver(v, Requests))
  BY <1>5 DEF BudgetPart
<1>8. memory' \in Nat /\ memory' <= MemoryLimit /\ memory' <= SumOver(w, Requests)
  BY <1>1, <1>2, <1>3, <1>6, <1>7
<1>9. ~ wrapped' => memory' = SumOver(w, Requests)
  BY <1>1, <1>2, <1>3, <1>6, <1>7
<1> QED
  BY <1>2, <1>3, <1>4, <1>5, <1>8, <1>9 DEF BudgetPart
-----------------------------------------------------------------------------
Added == {a \in Adders : adder[a] = "added"}

TaskPart ==
    /\ adder \in [Adders -> {"outside", "allowed", "added"}]
    /\ totalTasks = Cardinality(Added)

LEMMA AddedFits ==
    /\ IsFiniteSet(Added) /\ Cardinality(Added) \in 0 .. 2 ^ SizeBits - 1
    /\ IsFiniteSet(Added') /\ Cardinality(Added') \in 0 .. 2 ^ SizeBits - 1
<1>1. PICK size : size = 2 ^ SizeBits
  OBVIOUS
<1>2. IsFiniteSet(Adders) /\ Cardinality(Adders) < size /\ size \in Nat
  BY <1>1, SizesAssumed, LimiterAssumption DEF LimiterAssumption
<1>3. Cardinality(Adders) \in Nat
  BY <1>2, FS_CardinalityType
<1>4. ASSUME NEW T, T \subseteq Adders
      PROVE  IsFiniteSet(T) /\ Cardinality(T) \in 0 .. size - 1
  <2>1. IsFiniteSet(T) /\ Cardinality(T) <= Cardinality(Adders)
    BY <1>2, <1>4, FS_Subset
  <2>2. Cardinality(T) \in Nat
    BY <2>1, FS_CardinalityType
  <2> QED
    BY <2>1, <2>2, <1>2, <1>3
<1>5. Added \subseteq Adders /\ Added' \subseteq Adders
  BY DEF Added
<1> QED
  BY <1>1, <1>4, <1>5

LEMMA TaskStepKeeps ==
    ASSUME TaskPart, NEW a \in Adders,
           CanAddTask(a) \/ AddTaskCount(a) \/ RemoveTaskCount(a)
    PROVE  TaskPart'
<1> PICK size : size = 2 ^ SizeBits
  OBVIOUS
<1>1. size \in Nat \ {0} /\ IsFiniteSet(Added) /\ Cardinality(Added) \in Nat
  BY SizesAssumed, AddedFits
<1>2. Cardinality(Added) < size /\ Cardinality(Added') \in Nat /\ Cardinality(Added') < size
  BY <1>1, AddedFits
<1>3. adder' \in [Adders -> {"outside", "allowed", "added"}]
  BY DEF TaskPart, CanAddTask, AddTaskCount, RemoveTaskCount
<1>4. CASE CanAddTask(a)
  <2>1. Added' = Added
    BY <1>4 DEF TaskPart, CanAddTask, Added
  <2> QED
    BY <1>3, <1>4, <2>1 DEF TaskPart, CanAddTask
<1>5. CASE AddTaskCount(a)
  <2>1. Added' = Added \cup {a} /\ a \notin Added
    BY <1>5 DEF TaskPart, AddTaskCount, Added
  <2>2. Cardinality(Added') = Cardinality(Added) + 1
    BY <2>1, <1>1, FS_AddElement
  <2>3. totalTasks' = (Cardinality(Added) + 1) % size
    BY <1>5 DEF TaskPart, AddTaskCount
  <2>4. (Cardinality(Added) + 1) % size = Cardinality(Added) + 1
    BY <1>1, <1>2, <2>2, Fits
  <2> QED
    BY <1>3, <2>2, <2>3, <2>4 DEF TaskPart
<1>6. CASE RemoveTaskCount(a)
  <2>1. Added' = Added \ {a} /\ a \in Added
    BY <1>6 DEF TaskPart, RemoveTaskCount, Added
  <2>2. Cardinality(Added') = Cardinality(Added) - 1
    BY <2>1, <1>1, FS_RemoveElement
  <2>3. totalTasks' = (Cardinality(Added) - 1) % size
    BY <1>6 DEF TaskPart, RemoveTaskCount
  <2>4. (Cardinality(Added) - 1) % size = Cardinality(Added) - 1
    <3>1. Cardinality(Added) - 1 \in Nat /\ Cardinality(Added) - 1 < size
      BY <1>1, <1>2, <2>2
    <3> QED
      BY <3>1, <1>1, Fits
  <2> QED
    BY <1>3, <2>2, <2>3, <2>4 DEF TaskPart
<1> QED
  BY <1>4, <1>5, <1>6
-----------------------------------------------------------------------------
LimiterInv == SlotPart /\ BudgetPart /\ TaskPart

LEMMA LimiterInvInit ==
    ASSUME LimiterInit
    PROVE  LimiterInv
<1>1. SlotPart
  <2>1. /\ permits \in [Devices -> Nat] /\ taken \in [Devices -> Nat]
        /\ guard \in [Guards -> [phase : Phases, device : Devices]]
    BY SlotsAssumed, NoGuardTyped DEF LimiterInit, Unlimited, Phases
  <2>2. \A g \in Guards : guard[g].phase = "none"
    BY NoGuardTyped DEF LimiterInit
  <2>3. \A d \in Devices : In("armed", d) = {} /\ In("asleep", d) = {} /\ In("woken", d) = {}
    BY <2>2 DEF In
  <2>4. SlotsExact
    <3> SUFFICES ASSUME NEW d \in Devices, Limited(d)
                 PROVE  SlotLimit[d] - permits[d] = Cardinality(In("armed", d)) + taken[d]
      BY DEF SlotsExact
    <3>1. permits[d] = SlotLimit[d] /\ taken[d] = 0 /\ SlotLimit[d] \in Nat
      BY SlotsAssumed DEF LimiterInit
    <3>2. Cardinality(In("armed", d)) = 0
      BY <2>3, FS_EmptySet
    <3> QED
      BY <3>1, <3>2
  <2>5. UnlimitedStandsAside /\ NoIdlePermit
    BY <2>3 DEF UnlimitedStandsAside, NoIdlePermit, LimiterInit
  <2> QED
    BY <2>1, <2>4, <2>5 DEF SlotPart
<1>2. BudgetPart
  <2>1. /\ MemoryLimit \in Nat /\ IsFiniteSet(Requests) /\ \A r \in Requests : r \in Nat
        /\ memory = 0 /\ grants = [r \in Requests |-> 0]
        /\ MaxGrants \in Nat /\ wrapped = FALSE
    BY SizesAssumed DEF LimiterInit
  <2>2. \A r \in Requests : Granted[r] = 0
    BY <2>1 DEF Granted
  <2>3. SumOver(Granted, Requests) = 0
    <3>1. PICK w : w = Granted
      OBVIOUS
    <3> QED
      BY <2>1, <2>2, <3>1, SumOfNothing
  <2>4. grants \in [Requests -> 0 .. MaxGrants]
    BY <2>1
  <2>5. PICK sum : sum = SumOver(Granted, Requests)
    OBVIOUS
  <2>6. memory \in Nat /\ memory <= MemoryLimit /\ memory <= sum /\ memory = sum
    BY <2>1, <2>3, <2>5
  <2> QED
    BY <2>1, <2>4, <2>5, <2>6 DEF BudgetPart
<1>3. TaskPart
  <2>1. Added = {}
    BY DEF LimiterInit, Added
  <2> QED
    BY <2>1, FS_EmptySet DEF TaskPart, LimiterInit
<1> QED
  BY <1>1, <1>2, <1>3 DEF LimiterInv

(* Each of the three parts is touched by its own steps alone. *)
LEMMA SlotPartFrame ==
    ASSUME SlotPart, UNCHANGED SlotVars
    PROVE  SlotPart'
BY DEF SlotPart, SlotVars, SlotsExact, UnlimitedStandsAside, NoIdlePermit, In, Limited

LEMMA BudgetPartFrame ==
    ASSUME BudgetPart, UNCHANGED BudgetVars
    PROVE  BudgetPart'
BY DEF BudgetPart, BudgetVars, Granted

LEMMA TaskPartFrame ==
    ASSUME TaskPart, UNCHANGED TaskVars
    PROVE  TaskPart'
BY DEF TaskPart, TaskVars, Added

LEMMA LimiterInvStep ==
    ASSUME LimiterInv, [LimiterNext]_limiterVars
    PROVE  LimiterInv'
<1> USE DEF LimiterInv
<1>1. ASSUME NEW g \in Guards, NEW d \in Devices, AcquireAtOnce(g, d)
      PROVE  LimiterInv'
  BY <1>1, AcquireAtOnceKeeps, BudgetPartFrame, TaskPartFrame DEF AcquireAtOnce
<1>2. ASSUME NEW g \in Guards, NEW d \in Devices, SleepForPermit(g, d)
      PROVE  LimiterInv'
  BY <1>2, SleepForPermitKeeps, BudgetPartFrame, TaskPartFrame DEF SleepForPermit
<1>3. ASSUME NEW g \in Guards, Reacquire(g)
      PROVE  LimiterInv'
  BY <1>3, ReacquireKeeps, BudgetPartFrame, TaskPartFrame DEF Reacquire
<1>4. ASSUME NEW g \in Guards, TimeOut(g)
      PROVE  LimiterInv'
  BY <1>4, TimeOutKeeps, BudgetPartFrame, TaskPartFrame DEF TimeOut
<1>5. ASSUME NEW g \in Guards, DestroyGuard(g)
      PROVE  LimiterInv'
  BY <1>5, DestroyGuardKeeps, BudgetPartFrame, TaskPartFrame DEF DestroyGuard
<1>6. ASSUME NEW g \in Guards, NEW h \in Guards, MoveGuard(g, h)
      PROVE  LimiterInv'
  BY <1>6, MoveGuardKeeps, BudgetPartFrame, TaskPartFrame DEF MoveGuard
<1>7. ASSUME NEW d \in Devices, TrySlot(d)
      PROVE  LimiterInv'
  BY <1>7, TrySlotKeeps, BudgetPartFrame, TaskPartFrame DEF TrySlot
<1>8. ASSUME NEW d \in Devices, ReleaseSlot(d)
      PROVE  LimiterInv'
  BY <1>8, ReleaseSlotKeeps, BudgetPartFrame, TaskPartFrame DEF ReleaseSlot
<1>9. ASSUME NEW bytes \in Requests, TryAllocate(bytes)
      PROVE  LimiterInv'
  BY <1>9, TryAllocateKeeps, SlotPartFrame, TaskPartFrame DEF TryAllocate
<1>10. ASSUME NEW bytes \in Requests, FreeMemory(bytes)
       PROVE  LimiterInv'
  BY <1>10, FreeMemoryKeeps, SlotPartFrame, TaskPartFrame DEF FreeMemory
<1>11. ASSUME NEW a \in Adders, CanAddTask(a) \/ AddTaskCount(a) \/ RemoveTaskCount(a)
       PROVE  LimiterInv'
  BY <1>11, TaskStepKeeps, SlotPartFrame, BudgetPartFrame
     DEF CanAddTask, AddTaskCount, RemoveTaskCount
<1>12. CASE UNCHANGED limiterVars
  BY <1>12, SlotPartFrame, BudgetPartFrame, TaskPartFrame
     DEF limiterVars, SlotVars, BudgetVars, TaskVars
<1> QED
  BY <1>1, <1>2, <1>3, <1>4, <1>5, <1>6, <1>7, <1>8, <1>9, <1>10, <1>11, <1>12 DEF LimiterNext

LEMMA LimiterInvHolds ==
    LimiterSpec => []LimiterInv
BY LimiterInvInit, LimiterInvStep, PTL DEF LimiterSpec

LEMMA LimiterInvTyped ==
    ASSUME LimiterInv
    PROVE  LimiterTypeOK
<1>1. PICK size : size = 2 ^ SizeBits
  OBVIOUS
<1>2. size \in Nat /\ MemoryLimit \in Nat /\ MemoryLimit < size
  BY <1>1, SizesAssumed
<1>3. memory \in 0 .. size - 1
  BY <1>2 DEF LimiterInv, BudgetPart
<1>4. totalTasks \in 0 .. size - 1
  BY <1>1, AddedFits DEF LimiterInv, TaskPart
<1> QED
  BY <1>1, <1>3, <1>4 DEF LimiterInv, LimiterTypeOK, SlotPart, BudgetPart, TaskPart

(* Every variable of the limiter keeps its type, size_t's arithmetic       *)
(* included: requests are any values of size_t, no more is freed than was  *)
(* granted and no more tasks are counted out than in.                      *)
THEOREM LimiterTypeCorrect ==
    LimiterSpec => []LimiterTypeOK
BY LimiterInvHolds, LimiterInvTyped, PTL

(* What get_stats() reports is what the clients hold: the slots of every   *)
(* semaphore, the tasks counted in and, until a request wraps a sum of     *)
(* try_allocate_memory, the bytes granted, however guards were moved,      *)
(* timed out and destroyed and however the calls interleave.  For requests *)
(* of any size_t the counter stays within the limit and never exceeds the  *)
(* bytes granted, so none of the budget is missing once all was freed.     *)
THEOREM StatsAlwaysTrue ==
    LimiterSpec => []StatsTrue
<1>1. LimiterInv => StatsTrue
  <2> SUFFICES ASSUME LimiterInv
               PROVE  StatsTrue
    OBVIOUS
  <2>1. \A d \in Devices :
            Limited(d) => CurrentTasks(d) = Cardinality(In("armed", d)) + taken[d]
    BY DEF LimiterInv, SlotPart, SlotsExact, CurrentTasks
  <2>2. /\ memory <= MemoryLimit /\ memory <= BytesGranted
        /\ ~ wrapped => memory = BytesGranted
    BY GrantedIsSum DEF LimiterInv, BudgetPart, BytesGranted
  <2>3. totalTasks = Cardinality({a \in Adders : adder[a] = "added"})
    BY DEF LimiterInv, TaskPart, Added
  <2> QED
    BY <2>1, <2>2, <2>3 DEF StatsTrue
<1> QED
  BY <1>1, LimiterInvHolds, PTL

(* A permit is never left lying while somebody sleeps for it, for every    *)
(* number of guards, devices and permits: notify_one wakes one waiter per  *)
(* permit, and one that finds the permit gone goes back to sleep with none *)
(* left behind.                                                            *)
THEOREM NoPermitIdles ==
    LimiterSpec => []NoIdlePermit
BY LimiterInvHolds, PTL DEF LimiterInv, SlotPart
-----------------------------------------------------------------------------
(* The future. *)
(* Who was given an error, or saw an outcome, stands on what cannot be     *)
(* undone.                                                                 *)
FutureInv ==
    /\ FutureTypeOK
    /\ \A r \in Readers : /\ answer[r] = Error => hasError
                          /\ reader[r] = "sawOutcome" => Ready

LEMMA OutcomesTyped ==
    /\ MaxSets \in Nat /\ NoValue \notin Values /\ Error \notin Values /\ Error # NoValue
BY FutureAssumption DEF FutureAssumption, NoValue, Error

LEMMA FutureInvStep ==
    ASSUME FutureInv, [FutureNext]_futureVars
    PROVE  /\ FutureInv'
           /\ \A r \in Readers :
                 /\ answer[r] = Error => answer'[r] = Error
                 /\ reader[r] = "sawOutcome" /\ reader'[r] = "outside"
                        => answer'[r] # NoValue
<1> USE OutcomesTyped DEF FutureInv, FutureTypeOK, Ready, ReaderAt
<1>1. CASE (\E v \in Values : SetValue(v)) \/ SetError
  <2>1. /\ reader' \in [Readers -> ReaderAt] /\ answer' = answer
        /\ \A r \in Readers : reader'[r] \in {reader[r], "woken"}
    BY <1>1 DEF SetValue, SetError, Awakened
  <2>2. Ready' /\ (hasError => hasError')
    BY <1>1 DEF SetValue, SetError
  <2>3. value' \in Values \cup {NoValue}
    BY <1>1 DEF SetValue, SetError
  <2>4. hasError' \in BOOLEAN
    BY <1>1 DEF SetValue, SetError
  <2>5. sets' \in 0 .. MaxSets
    <3>1. sets \in 0 .. MaxSets /\ sets < MaxSets /\ sets' = sets + 1
      BY <1>1 DEF SetValue, SetError
    <3> HIDE DEF FutureInv
    <3> QED
      BY <3>1
  <2> QED
    BY <2>1, <2>2, <2>3, <2>4, <2>5
<1>2. ASSUME NEW r \in Readers, CallGet(r) \/ WakeUp(r) \/ GiveUp(r)
      PROVE  FutureInv' /\ answer' = answer /\ (reader[r] # "sawOutcome")
                 /\ \A s \in Readers \ {r} : reader'[s] = reader[s]
  BY <1>2 DEF CallGet, WakeUp, GiveUp
<1>3. ASSUME NEW r \in Readers, TakeAnswer(r)
      PROVE  /\ FutureInv' /\ answer'[r] # NoValue /\ (answer[r] = Error => answer'[r] = Error)
             /\ \A s \in Readers \ {r} : answer'[s] = answer[s] /\ reader'[s] = reader[s]
  <2>1. Outcome \in Values \cup {Error} /\ (Outcome = Error <=> hasError)
    BY <1>3 DEF TakeAnswer, Outcome
  <2> QED
    BY <1>3, <2>1 DEF TakeAnswer
<1>4. CASE UNCHANGED futureVars
  BY <1>4 DEF futureVars
<1> QED
  <2>1. CASE \E r \in Readers : CallGet(r) \/ WakeUp(r) \/ GiveUp(r)
    BY <2>1, <1>2
  <2>2. CASE \E r \in Readers : TakeAnswer(r)
    BY <2>2, <1>3
  <2> QED
    BY <1>1, <1>4, <2>1, <2>2 DEF FutureNext

LEMMA FutureInvInit ==
    ASSUME FutureInit
    PROVE  FutureInv
<1>1. /\ value \in Values \cup {NoValue}
      /\ reader \in [Readers -> ReaderAt]
      /\ answer \in [Readers -> Values \cup {NoValue, Error}]
  BY DEF FutureInit, ReaderAt
<1>2. hasError \in BOOLEAN
  BY DEF FutureInit
<1>3. sets \in 0 .. MaxSets
  BY OutcomesTyped DEF FutureInit
<1>4. \A r \in Readers : answer[r] # Error /\ reader[r] # "sawOutcome"
  BY OutcomesTyped DEF FutureInit
<1> QED
  BY <1>1, <1>2, <1>3, <1>4 DEF FutureInv, FutureTypeOK

LEMMA FutureInvHolds ==
    FutureSpec => []FutureInv
BY FutureInvInit, FutureInvStep, PTL DEF FutureSpec

(* The future's state keeps its types. *)
THEOREM FutureTypeCorrect ==
    FutureSpec => []FutureTypeOK
BY FutureInvHolds, PTL DEF FutureInv

(* No answer of get() is taken back: whoever was given the error is never  *)
(* given a value later, and whoever saw an outcome before it gave up the   *)
(* mutex is given one when it has it again, whatever was set in between.   *)
THEOREM AnswersStand ==
    FutureSpec => ErrorIsFinal
<1>1. FutureInv /\ [FutureNext]_futureVars =>
          [\A r \in Readers :
              /\ answer[r] = Error => answer'[r] = Error
              /\ reader[r] = "sawOutcome" /\ reader'[r] = "outside"
                     => answer'[r] # NoValue]_futureVars
  BY FutureInvStep
<1> QED
  BY <1>1, FutureInvHolds, PTL DEF FutureSpec, ErrorIsFinal
-----------------------------------------------------------------------------
(* The barrier. *)
(* The counter is the number of reports about tasks that are listed, and   *)
(* whoever passed found it at the end.                                     *)
BarrierInv ==
    /\ BarrierTypeOK
    /\ count = SumOver(reports, Range(listed))
    /\ \A w \in Waiters : waiterAt[w] = "passed" => count >= Len(listed)

LEMMA ListedFinite ==
    ASSUME NEW s \in Seq(Preds)
    PROVE  Range(s) \subseteq Preds /\ IsFiniteSet(Range(s)) /\ Cardinality(Range(s)) <= Len(s)
<1>1. /\ Len(s) \in Nat /\ DOMAIN s = 1 .. Len(s) /\ \A i \in 1 .. Len(s) : s[i] \in Preds
      /\ s = [i \in 1 .. Len(s) |-> s[i]]
  OBVIOUS
<1>2. IsFiniteSet(1 .. Len(s)) /\ Cardinality(1 .. Len(s)) = Len(s)
  <2>1. PICK n \in Nat : n = Len(s)
    BY <1>1
  <2>2. IsFiniteSet(1 .. n) /\ Cardinality(1 .. n) = n
    <3>1. IsFiniteSet(1 .. n) /\ Cardinality(1 .. n) = IF 1 > n THEN 0 ELSE n - 1 + 1
      BY FS_Interval
    <3> QED
      BY <3>1
  <2> QED
    BY <2>1, <2>2
<1>3. s \in Surjection(1 .. Len(s), Range(s))
  BY <1>1 DEF Surjection, Range
<1>4. IsFiniteSet(Range(s)) /\ Cardinality(Range(s)) <= Len(s)
  BY <1>2, <1>3, FS_Surjection
<1> QED
  BY <1>1, <1>4 DEF Range

LEMMA NotifyCompletionKeeps ==
    ASSUME BarrierInv, NEW p \in Preds, NotifyCompletion(p)
    PROVE  BarrierInv'
<1> USE DEF BarrierInv, BarrierTypeOK
<1>1. /\ reports[p] \in Nat /\ MaxReports \in Nat /\ reports[p] < MaxReports
      /\ \A q \in Preds : reports[q] \in Nat
  BY BarrierAssumption DEF BarrierAssumption, NotifyCompletion
<1>2. /\ reports' \in [Preds -> 0 .. MaxReports] /\ reports'[p] = reports[p] + 1
      /\ \A q \in Preds \ {p} : reports'[q] = reports[q]
  BY <1>1 DEF NotifyCompletion
<1>3. PICK v, u, S : v = reports /\ u = reports' /\ S = Range(listed)
  OBVIOUS
<1>4. S \subseteq Preds /\ IsFiniteSet(S)
  BY <1>3, ListedFinite
<1>5. count' = IF p \in S THEN count + 1 ELSE count
  BY <1>3 DEF NotifyCompletion, Counted
<1>6. \A q \in S : v[q] \in Nat /\ u[q] \in Nat
  BY <1>1, <1>2, <1>3, <1>4
<1>7. count = SumOver(v, S) /\ count \in Nat
  BY <1>3
<1>8. count' = SumOver(u, S)
  <2>1. CASE p \in S
    <3>1. \A q \in S \ {p} : v[q] = u[q]
      BY <1>2, <1>3, <1>4
    <3>2. SumOver(v, S) + u[p] = SumOver(u, S) + v[p]
      BY <2>1, <3>1, <1>4, <1>6, SumChange
    <3>3. u[p] = v[p] + 1 /\ v[p] \in Nat
      BY <1>1, <1>2, <1>3
    <3>4. SumOver(u, S) \in Nat
      BY <1>4, <1>6, SumType
    <3> HIDE DEF BarrierInv
    <3> QED
      BY <2>1, <3>2, <3>3, <3>4, <1>5, <1>7
  <2>2. CASE p \notin S
    <3>1. \A q \in S : v[q] = u[q]
      BY <2>2, <1>2, <1>3, <1>4
    <3>2. SumOver(v, S) = SumOver(u, S)
      BY <3>1, <1>4, SumSame
    <3> QED
      BY <2>2, <3>2, <1>5, <1>7
  <2> QED
    BY <2>1, <2>2
<1>9. listed' = listed /\ waiterAt' = waiterAt /\ notifiers' \in Nat
  BY DEF NotifyCompletion
<1>10. count' = SumOver(reports', Range(listed'))
  BY <1>3, <1>8, <1>9
<1>11. count' \in Nat /\ count' >= count
  BY <1>5, <1>7
<1>12. \A w \in Waiters : waiterAt'[w] = "passed" => count' >= Len(listed')
  BY <1>7, <1>9, <1>11
<1> QED
  BY <1>2, <1>9, <1>10, <1>11, <1>12

LEMMA BarrierInvStep ==
    ASSUME BarrierInv, [BarrierNext]_barrierVars
    PROVE  BarrierInv'
<1> USE DEF BarrierInv, BarrierTypeOK
<1>1. ASSUME NEW p \in Preds, NotifyCompletion(p)
      PROVE  BarrierInv'
  BY <1>1, NotifyCompletionKeeps
<1>2. ASSUME UNCHANGED <<listed, count, reports>>, notifiers' \in Nat,
             waiterAt' \in [Waiters -> BarrierPlaces],
             \A w \in Waiters : waiterAt'[w] = "passed" => waiterAt[w] = "passed" \/ Complete
      PROVE  BarrierInv'
  BY <1>2 DEF Complete
<1>3. CASE NotifyAll
  <2>1. notifiers' \in Nat
    BY <1>3 DEF NotifyAll
  <2> QED
    BY <1>2, <1>3, <2>1 DEF NotifyAll, BarrierPlaces
<1>4. ASSUME NEW w \in Waiters, Test(w) \/ FallAsleep(w) \/ TimeOutWait(w)
      PROVE  BarrierInv'
  <2>1. /\ UNCHANGED <<listed, count, reports, notifiers>>
        /\ waiterAt' \in [Waiters -> BarrierPlaces]
    BY <1>4 DEF Test, FallAsleep, TimeOutWait, BarrierPlaces
  <2>2. \A u \in Waiters : waiterAt'[u] = "passed" => waiterAt[u] = "passed" \/ Complete
    BY <1>4 DEF Test, FallAsleep, TimeOutWait, BarrierPlaces
  <2> QED
    BY <1>2, <2>1, <2>2
<1>5. CASE UNCHANGED barrierVars
  BY <1>5 DEF barrierVars
<1> QED
  BY <1>1, <1>3, <1>4, <1>5 DEF BarrierNext

LEMMA BarrierInvInit ==
    ASSUME BarrierInit
    PROVE  BarrierInv
<1>1. listed \in Seq(Preds)
  BY BarrierAssumption DEF BarrierInit, BarrierAssumption, BoundedSeq, SeqOf
<1>2. PICK S, u : S = Range(listed) /\ u = reports
  OBVIOUS
<1>3. S \subseteq Preds /\ IsFiniteSet(S) /\ \A q \in S : u[q] = 0
  BY <1>1, <1>2, ListedFinite DEF BarrierInit
<1>4. SumOver(u, S) = 0
  BY <1>3, SumOfNothing
<1>5. BarrierTypeOK
  BY <1>1, BarrierAssumption DEF BarrierTypeOK, BarrierInit, BarrierAssumption, BarrierPlaces
<1> QED
  BY <1>2, <1>4, <1>5 DEF BarrierInv, BarrierInit

LEMMA BarrierInvHolds ==
    BarrierSpec => []BarrierInv
BY BarrierInvInit, BarrierInvStep, PTL DEF BarrierSpec

(* The barrier's counter and its threads keep their types. *)
THEOREM BarrierTypeCorrect ==
    BarrierSpec => []BarrierTypeOK
BY BarrierInvHolds, PTL DEF BarrierInv

(* A barrier that lets a thread pass too early had one predecessor         *)
(* reported twice, for every list of predecessors, also with repetitions,  *)
(* and every number of reports and waiters.                                *)
THEOREM OnlyDuplicatesOpenEarly ==
    BarrierSpec => []EarlyOnlyByDuplicates
<1>1. BarrierInv => EarlyOnlyByDuplicates
  <2> SUFFICES ASSUME BarrierInv, NEW w \in Waiters, waiterAt[w] = "passed",
                      NEW p \in Range(listed), ~ (reports[p] > 0),
                      \A q \in Range(listed) : ~ (reports[q] > 1)
               PROVE  FALSE
    BY DEF EarlyOnlyByDuplicates, AllReported
  <2>1. PICK S, u : S = Range(listed) /\ u = reports
    OBVIOUS
  <2>2. S \subseteq Preds /\ IsFiniteSet(S) /\ Cardinality(S) <= Len(listed)
    BY <2>1, ListedFinite DEF BarrierInv, BarrierTypeOK
  <2>3. \A q \in Preds : u[q] \in Nat
    BY <2>1, BarrierAssumption DEF BarrierInv, BarrierTypeOK, BarrierAssumption
  <2>4. \A q \in S : u[q] \in Nat /\ u[q] <= 1
    BY <2>1, <2>2, <2>3
  <2>5. p \in S /\ u[p] = 0
    BY <2>1, <2>2, <2>3
  <2>6. SumOver(u, S) < Cardinality(S)
    BY <2>2, <2>4, <2>5, SumOfOnesWithout
  <2>7. SumOver(u, S) >= Len(listed) /\ SumOver(u, S) \in Nat
    BY <2>1 DEF BarrierInv, BarrierTypeOK
  <2>8. Len(listed) \in Nat /\ Cardinality(S) \in Nat
    BY <2>2, FS_CardinalityType DEF BarrierInv, BarrierTypeOK
  <2> QED
    BY <2>2, <2>6, <2>7, <2>8
<1> QED
  BY <1>1, BarrierInvHolds, PTL
-----------------------------------------------------------------------------
(* Together.  A step is one component's, and the others stand still.       *)
AllInv == WakeInv /\ LimiterInv /\ BarrierInv /\ StreamInv /\ FutureInv

LEMMA AllInvStep ==
    ASSUME AllInv, [MCNext]_<<threadVars, focus>>
    PROVE  AllInv'
<1>1. \/ [WakeNext]_wakeVars /\ UNCHANGED <<limiterVars, barrierVars, streamVars, futureVars>>
      \/ [LimiterNext]_limiterVars /\ UNCHANGED <<wakeVars, barrierVars, streamVars, futureVars>>
      \/ [BarrierNext]_barrierVars /\ UNCHANGED <<wakeVars, limiterVars, streamVars, futureVars>>
      \/ [StreamNext]_streamVars /\ UNCHANGED <<wakeVars, limiterVars, barrierVars, futureVars>>
      \/ [FutureNext]_futureVars /\ UNCHANGED <<wakeVars, limiterVars, barrierVars, streamVars>>
  BY DEF MCNext, threadVars
<1>2. /\ [WakeNext]_wakeVars /\ [LimiterNext]_limiterVars /\ [BarrierNext]_barrierVars
      /\ [StreamNext]_streamVars /\ [FutureNext]_futureVars
  BY <1>1
<1> QED
  BY <1>2, WakeStep, LimiterInvStep, BarrierInvStep, StreamInvStep, FutureInvStep DEF AllInv

(* Every variable of the five components keeps its type, in whichever of   *)
(* them the threads are at work.                                           *)
THEOREM ThreadTypesCorrect ==
    MCSpec => []ThreadTypesOK
<1>1. MCInit => AllInv
  BY WakeInitHolds, LimiterInvInit, BarrierInvInit, StreamInvInit, FutureInvInit DEF MCInit, AllInv
<1>2. AllInv /\ [MCNext]_<<threadVars, focus>> => AllInv'
  BY AllInvStep
<1>3. AllInv => ThreadTypesOK
  BY LimiterInvTyped DEF AllInv, ThreadTypesOK, WakeInv, BarrierInv, StreamInv, StreamPart, FutureInv
<1> QED
  BY <1>1, <1>2, <1>3, PTL DEF MCSpec
==============================================================================
