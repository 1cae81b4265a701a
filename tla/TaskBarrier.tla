---------------------------- MODULE TaskBarrier ----------------------------
(***************************************************************************)
(* The waiting side of hts::TaskBarrier (src/src/core/task_barrier.cpp):   *)
(* threads that wait for a barrier, and the threads that report to it that *)
(* a predecessor completed.  The counter is atomic and is incremented      *)
(* outside mutex_; a waiter holds mutex_ from its test until it sleeps.    *)
(* The barrier is built before it is used (add_predecessor takes no lock); *)
(* that it also is a task of the graph with edges to and from it is        *)
(* TaskGraph's AddTask and AddDependency.                                  *)
(***************************************************************************)
EXTENDS Naturals, Sequences, SequencesExt

CONSTANTS
    Preds,       \* the tasks that may be predecessors
    MaxListed,   \* bound: length of predecessors_
    Waiters,     \* threads that call wait or wait_for
    MaxReports   \* bound: times the completion of one task is reported

ASSUME BarrierAssumption ==
    /\ IsFiniteSet(Preds) /\ IsFiniteSet(Waiters)
    /\ MaxListed \in Nat /\ MaxReports \in Nat

VARIABLES
    listed,     \* predecessors_: add_predecessor pushes whatever it is given
    count,      \* completed_count_
    reports,    \* how often notify_completion was called for each task
    notifiers,  \* calls of notify_completion that are yet to notify
    waiterAt      \* where each waiter is

barrierVars == <<listed, count, reports, notifiers, waiterAt>>

BarrierPlaces == {"outside", "tested", "asleep", "woken", "passed", "gaveUp"}

BarrierTypeOK ==
    /\ listed \in Seq(Preds)
    /\ count \in Nat
    /\ reports \in [Preds -> 0 .. MaxReports]
    /\ notifiers \in Nat
    /\ waiterAt \in [Waiters -> BarrierPlaces]

BarrierInit ==
    /\ listed \in BoundedSeq(Preds, MaxListed)
    /\ count = 0
    /\ reports = [p \in Preds |-> 0]
    /\ notifiers = 0
    /\ waiterAt = [w \in Waiters |-> "outside"]
-----------------------------------------------------------------------------
(* is_ready(), and the predicate of wait *)
Complete == count >= Len(listed)

NobodyTesting == \A w \in Waiters : waiterAt[w] # "tested"

(* Plausible bug: a task that is no predecessor is counted, too. *)
BugCountsStrangers(p) == 1

(* What notify_completion(p) adds: it stops at the first match. *)
Counted(p) == IF p \in Range(listed) THEN 1 ELSE 0

(* The loop of notify_completion: the counter, and whether to notify. *)
NotifyCompletion(p) ==
    /\ reports[p] < MaxReports
    /\ reports' = [reports EXCEPT ![p] = @ + 1]
    /\ count' = count + Counted(p)
    /\ notifiers' = IF p \in Range(listed) /\ count' >= Len(listed)
                    THEN notifiers + 1 ELSE notifiers
    /\ UNCHANGED <<listed, waiterAt>>

(* Plausible bug: the notification does not wait for the mutex. *)
BugUnlocked ==
    /\ notifiers > 0
    /\ notifiers' = notifiers - 1
    /\ waiterAt' = [w \in Waiters |->
                     IF waiterAt[w] = "asleep" THEN "woken" ELSE waiterAt[w]]
    /\ UNCHANGED <<listed, count, reports>>

(* notify_all, under the mutex *)
NotifyAll ==
    /\ notifiers > 0
    /\ NobodyTesting
    /\ notifiers' = notifiers - 1
    /\ waiterAt' = [w \in Waiters |->
                     IF waiterAt[w] = "asleep" THEN "woken" ELSE waiterAt[w]]
    /\ UNCHANGED <<listed, count, reports>>

(* The test of wait or wait_for, on the way in or after waking, also when  *)
(* the time of wait_for is over.                                           *)
Test(w) ==
    /\ waiterAt[w] \in {"outside", "woken"}
    /\ NobodyTesting
    /\ waiterAt' = [waiterAt EXCEPT ![w] = IF Complete THEN "passed" ELSE "tested"]
    /\ UNCHANGED <<listed, count, reports, notifiers>>

(* The counter may have reached the end since the test. *)
FallAsleep(w) ==
    /\ waiterAt[w] = "tested"
    /\ waiterAt' = [waiterAt EXCEPT ![w] = "asleep"]
    /\ UNCHANGED <<listed, count, reports, notifiers>>

TimeOutWait(w) ==
    /\ waiterAt[w] \in {"asleep", "woken"}
    /\ NobodyTesting
    /\ waiterAt' = [waiterAt EXCEPT ![w] = IF Complete THEN "passed" ELSE "gaveUp"]
    /\ UNCHANGED <<listed, count, reports, notifiers>>

BarrierNext ==
    \/ \E p \in Preds : NotifyCompletion(p)
    \/ NotifyAll
    \/ \E w \in Waiters : Test(w)
    \/ \E w \in Waiters : FallAsleep(w)
    \/ \E w \in Waiters : TimeOutWait(w)

(* A thread inside a call goes on; nobody has to call wait or to report,   *)
(* and no time out is promised (wait has none).                            *)
Inside(w) == waiterAt[w] \in {"tested", "asleep", "woken"}
GoOn(w) == Inside(w) /\ (Test(w) \/ FallAsleep(w))

BarrierSpec ==
    /\ BarrierInit /\ [][BarrierNext]_barrierVars
    /\ WF_barrierVars(NotifyAll)
    /\ \A w \in Waiters : WF_barrierVars(GoOn(w))
-----------------------------------------------------------------------------
AllReported == \A p \in Range(listed) : reports[p] > 0

(* A barrier that lets a thread pass before every predecessor was reported *)
(* had some predecessor reported twice: nothing else opens it early, also  *)
(* not a predecessor that was listed twice.                                *)
EarlyOnlyByDuplicates ==
    (\E w \in Waiters : waiterAt[w] = "passed") /\ ~ AllReported
        => \E p \in Range(listed) : reports[p] > 1

(* Once every predecessor is reported a waiter returns: the last increment *)
(* may fall between its test and its sleep, and still wakes it.  The list  *)
(* must name each predecessor once.                                        *)
BarrierOpens ==
    \A w \in Waiters :
        IsInjective(listed) /\ AllReported /\ Inside(w) ~> ~ Inside(w)
==============================================================================
