------------------------------ MODULE Profiler ------------------------------
(***************************************************************************)
(* hts::Profiler (src/include/hts/profiler.hpp), fed by the events of a    *)
(* scheduler's runs (src/src/core/scheduler.cpp).  publish() runs on the   *)
(* scheduler's thread and so do the profiler's handlers: an event and all  *)
(* its calls are one step.  Of a run only what it publishes is modelled:   *)
(* tasks start in any order, and each that started is harvested, unless    *)
(* the error callback throws and the run is abandoned without an end.      *)
(*                                                                         *)
(* profiling_enabled_ and subscription_ids_ have no lock: clients touch    *)
(* them between runs.  Only the scheduler reaches its own event system:    *)
(* clients subscribe its profiler to systems of theirs.  Unsubscribing     *)
(* from one of those drops the ids of Home too, so that Home's handlers    *)
(* outlive the profiling, and the next one hears every event twice.        *)
(***************************************************************************)
EXTENDS EventSystem, SequencesExt

CONSTANTS
    Home,      \* the scheduler's own event system
    Tasks,     \* the tasks of its graph
    MaxRuns    \* bound: executions

ASSUME ProfilerAssumption ==
    /\ Home \in Systems /\ IsFiniteSet(Tasks) /\ MaxRuns \in Nat
    /\ {"GraphStarted", "GraphCompleted", "TaskStarted", "TaskCompleted",
        "TaskFailed", "MemoryAllocated", "MemoryFreed"} \subseteq Types

VARIABLES
    profiling,   \* profiling_enabled_
    subIds,      \* subscription_ids_
    prof,        \* active_, pending_records_, records_
    run          \* the execution: what it has published

profilerVars == <<profiling, subIds, prof, run>>
clientVars == <<scope, calls, wiped, late>>

Verdicts == {"TaskCompleted", "TaskFailed"}
EndOf(t, verdict) == [task |-> t, verdict |-> verdict]
RecordOf(t, verdict, begun) == [end |-> EndOf(t, verdict), begun |-> begun]

RunNumbers == 0 .. MaxRuns   \* 0 where no run is meant
Ends == [task : Tasks, verdict : Verdicts]

ProfilerTypeOK ==
    /\ profiling \in BOOLEAN
    /\ subIds \in Seq(SubscriptionIds)
    /\ prof \in [active : BOOLEAN, pending : [Tasks -> RunNumbers],
                  records : Seq([end : Ends, begun : RunNumbers])]
    /\ run \in [number : RunNumbers, going : BOOLEAN, profiled : BOOLEAN,
                 started : SUBSET Tasks, ended : SUBSET Ends]

ProfilerInit ==
    /\ EventInit
    /\ profiling = FALSE
    /\ subIds = <<>>
    /\ prof = [active |-> FALSE, pending |-> [t \in Tasks |-> 0], records |-> <<>>]
    /\ run = [number |-> 0, going |-> FALSE, profiled |-> FALSE,
              started |-> {}, ended |-> {}]
-----------------------------------------------------------------------------
(* The number of the run in which a pending record began; 0 for none. *)
Pending(p, t) == p.pending[t] # 0

(* Plausible bug: the record of a task that ended stays pending. *)
BugStaysPending(p, t, verdict) ==
    IF p.active /\ Pending(p, t)
    THEN [p EXCEPT !.records = Append(@, RecordOf(t, verdict, p.pending[t]))]
    ELSE p

RecordTaskEnd(p, t, verdict) ==
    IF p.active /\ Pending(p, t)
    THEN [p EXCEPT !.records = Append(@, RecordOf(t, verdict, p.pending[t])),
                   !.pending[t] = 0]
    ELSE p

RecordTaskStart(p, t) ==
    IF p.active THEN [p EXCEPT !.pending[t] = run.number] ELSE p

(* start() empties the records, and leaves what is pending. *)
Start(p) == [p EXCEPT !.active = TRUE, !.records = <<>>]

OnEvent(p, type, t) ==
    CASE type = "GraphStarted"   -> Start(p)
      [] type = "GraphCompleted" -> [p EXCEPT !.active = FALSE]
      [] type = "TaskStarted"    -> RecordTaskStart(p, t)
      [] type \in Verdicts       -> RecordTaskEnd(p, t, type)
      [] OTHER                   -> p

(* publish, as far as the profiler is listening *)
Deliver(type, t) ==
    LET hearing == {h \in Listeners(Home, type) : h.owner = "profiler"}
    IN  prof' = IF profiling
                THEN FoldSet(LAMBDA h, p : OnEvent(p, type, t), prof, hearing)
                ELSE prof

SubscribeTo(s) ==
    /\ AddHandlers(s, <<"GraphStarted", "GraphCompleted", "TaskStarted", "TaskCompleted",
                        "TaskFailed", "MemoryAllocated", "MemoryFreed">>, "profiler")
    /\ subIds' = subIds \o [i \in 1 .. 7 |-> nextId[s] + i - 1]

(* It ends the ids it knows in the one system it is given, whichever       *)
(* system they came from.                                                  *)
UnsubscribeFrom(s) ==
    /\ handlers' = [handlers EXCEPT ![s] = Remaining(s, Range(subIds))]
    /\ subIds' = <<>>
    /\ UNCHANGED nextId

SetProfiling(enabled) ==
    /\ ~ run.going /\ enabled # profiling
    /\ profiling' = enabled
    /\ IF enabled THEN SubscribeTo(Home) ELSE UnsubscribeFrom(Home)
    /\ UNCHANGED <<prof, run, clientVars>>

ClientSubscribes(s) ==
    /\ ~ run.going /\ s # Home
    /\ SubscribeTo(s)
    /\ UNCHANGED <<profiling, prof, run, clientVars>>

ClientUnsubscribes(s) ==
    /\ ~ run.going /\ s # Home /\ subIds # <<>>
    /\ UnsubscribeFrom(s)
    /\ UNCHANGED <<profiling, prof, run, clientVars>>
-----------------------------------------------------------------------------
Listening == \E h \in handlers[Home] : h.owner = "profiler"
NoTask == CHOOSE t \in Tasks : TRUE   \* for the events of the graph

BeginRun ==
    /\ ~ run.going /\ run.number < MaxRuns
    /\ run' = [number |-> run.number + 1, going |-> TRUE,
               profiled |-> profiling /\ Listening, started |-> {}, ended |-> {}]
    /\ Deliver("GraphStarted", NoTask)
    /\ UNCHANGED <<profiling, subIds, eventVars>>

Dispatch(t) ==
    /\ run.going /\ t \notin run.started
    /\ Deliver("TaskStarted", t)
    /\ run' = [run EXCEPT !.started = @ \cup {t}]
    /\ UNCHANGED <<profiling, subIds, eventVars>>

HasEnded(t) == \E e \in run.ended : e.task = t

Harvest(t, verdict) ==
    /\ run.going /\ t \in run.started /\ ~ HasEnded(t)
    /\ Deliver(verdict, t)
    /\ run' = [run EXCEPT !.ended = @ \cup {EndOf(t, verdict)}]
    /\ UNCHANGED <<profiling, subIds, eventVars>>

(* The error callback for t throws: before the event, and out of the loop. *)
AbandonRun(t) ==
    /\ run.going /\ t \in run.started /\ ~ HasEnded(t)
    /\ run' = [run EXCEPT !.going = FALSE]
    /\ UNCHANGED <<profiling, subIds, prof, eventVars>>

EndRun ==
    /\ run.going /\ \A t \in run.started : HasEnded(t)
    /\ Deliver("GraphCompleted", NoTask)
    /\ run' = [run EXCEPT !.going = FALSE]
    /\ UNCHANGED <<profiling, subIds, eventVars>>

ProfilerNext ==
    \/ \E enabled \in BOOLEAN : SetProfiling(enabled)
    \/ \E s \in Systems : ClientSubscribes(s)
    \/ \E s \in Systems : ClientUnsubscribes(s)
    \/ BeginRun
    \/ \E t \in Tasks : Dispatch(t)
    \/ \E t \in Tasks, verdict \in Verdicts : Harvest(t, verdict)
    \/ \E t \in Tasks : AbandonRun(t)
    \/ EndRun

ProfilerSpec == ProfilerInit /\ [][ProfilerNext]_<<profilerVars, eventVars>>
-----------------------------------------------------------------------------
(* generate_summary: how many tasks came to each end *)
Summary(verdict) == Cardinality({i \in DOMAIN prof.records :
                                     prof.records[i].end.verdict = verdict})

(* The records of a profiled run are the tasks that ended in it, each once *)
(* with its verdict and from its start in this run: whatever earlier runs  *)
(* recorded, or began and abandoned, and however often the profiler is     *)
(* subscribed.                                                             *)
ProfileMatchesRun ==
    run.profiled =>
        /\ {prof.records[i].end : i \in DOMAIN prof.records} = run.ended
        /\ \A i \in DOMAIN prof.records : prof.records[i].begun = run.number
        /\ \A verdict \in Verdicts :
               Summary(verdict) = Cardinality({e \in run.ended : e.verdict = verdict})
==============================================================================
