------------------------------ MODULE TaskGroup ------------------------------
(***************************************************************************)
(* hts::TaskGroup (src/src/core/task_group.cpp) and hts::TaskBuilder       *)
(* (src/include/hts/task_builder.hpp): loops of add_dependency calls over  *)
(* the graph they were given.  Each call takes the graph's mutex on its    *)
(* own, so other clients' calls, and clear(), come between two turns of a  *)
(* loop.  A turn whose edge is refused is passed over; an unknown id       *)
(* throws and ends the loop.                                               *)
(*                                                                         *)
(* A client owns a group and a builder and is in one call at a time;       *)
(* others add edges on their own.  The order of a loop's turns is left     *)
(* open.  A group keeps its Task objects when the graph is cleared, and so *)
(* ids that are handed out again.                                          *)
(***************************************************************************)
EXTENDS TaskGraph

CONSTANT GraphClients   \* threads with a group and a builder each

VARIABLES
    members,   \* tasks_ of each client's group, by id
    after,     \* dependencies_ of its builder
    call,      \* the loop a client is in: the pairs still to do, and all
    promised   \* the pairs of the last loop, once it has returned

groupVars == <<members, after, call, promised>>

Pairs == (1 .. MaxTasks) \X (1 .. MaxTasks)
NoCall == [kind |-> "none", todo |-> {}, all |-> {}]
IsIdle(c) == call[c] = NoCall

GroupInit ==
    /\ Init
    /\ members = [c \in GraphClients |-> {}]
    /\ after = [c \in GraphClients |-> {}]
    /\ call = [c \in GraphClients |-> NoCall]
    /\ promised = {}
-----------------------------------------------------------------------------
(* add_task of a group: a new task of the graph, or one that exists. *)
GroupAddTask(c) ==
    /\ IsIdle(c)
    /\ members' = [members EXCEPT ![c] = @ \cup {nextId}]
    /\ AddTask
    /\ UNCHANGED <<after, call, promised>>

GroupTakeTask(c, t) ==
    /\ IsIdle(c) /\ t \in tasks
    /\ members' = [members EXCEPT ![c] = @ \cup {t}]
    /\ UNCHANGED <<graphVars, after, call, promised>>

StartLoop(c, kind, pairs) ==
    /\ call' = [call EXCEPT ![c] = [kind |-> kind, todo |-> pairs, all |-> pairs]]
    /\ promised' = {}

(* depends_on and then, of a task (it need not exist) or of a group. *)
DependsOn(c, ids) ==
    /\ IsIdle(c)
    /\ StartLoop(c, "group", ids \X members[c])
    /\ UNCHANGED <<graphVars, members, after>>

Then(c, ids) ==
    /\ IsIdle(c)
    /\ StartLoop(c, "group", members[c] \X ids)
    /\ UNCHANGED <<graphVars, members, after>>

(* after() remembers ids, and build() adds a task and loops over them, and *)
(* over those that a build() that threw has left.                          *)
Build(c, ids) ==
    /\ IsIdle(c)
    /\ after' = [after EXCEPT ![c] = @ \cup ids]
    /\ StartLoop(c, "build", after'[c] \X {nextId})
    /\ AddTask
    /\ UNCHANGED members

(* A turn of the loop. *)
Done(c, pair) == [call EXCEPT ![c].todo = @ \ {pair}]

Refused(from, to) ==
    from = to \/ to \in adjacencyList[from] \/ WouldCreateCycle(from, to)

(* Plausible bug: a refused edge ends the loop as if it were complete. *)
BugStopsAtRefusal(c, pair) ==
    /\ pair \in call[c].todo /\ {pair[1], pair[2]} \subseteq tasks
    /\ \/ AddDependency(pair[1], pair[2]) /\ call' = Done(c, pair)
       \/ /\ Refused(pair[1], pair[2])
          /\ call' = [call EXCEPT ![c].todo = {}]
          /\ UNCHANGED graphVars
    /\ UNCHANGED <<members, after, promised>>

Turn(c, pair) ==
    /\ pair \in call[c].todo /\ {pair[1], pair[2]} \subseteq tasks
    /\ \/ AddDependency(pair[1], pair[2])
       \/ Refused(pair[1], pair[2]) /\ UNCHANGED graphVars
    /\ call' = Done(c, pair)
    /\ UNCHANGED <<members, after, promised>>

(* add_dependency throws: the rest of the loop is not done, and a builder  *)
(* keeps what it was told for its next task.                               *)
TurnThrows(c, pair) ==
    /\ pair \in call[c].todo /\ ~ {pair[1], pair[2]} \subseteq tasks
    /\ call' = [call EXCEPT ![c] = NoCall]
    /\ UNCHANGED <<graphVars, members, after, promised>>

(* The loop is over; build() resets the builder. *)
LoopReturns(c) ==
    /\ ~ IsIdle(c) /\ call[c].todo = {}
    /\ after' = [after EXCEPT ![c] = IF call[c].kind = "build" THEN {} ELSE @]
    /\ promised' = call[c].all
    /\ call' = [call EXCEPT ![c] = NoCall]
    /\ UNCHANGED <<graphVars, members>>

(* clear() takes back what was done, also of the loops that are going on. *)
ClearUnderGroups ==
    /\ Clear
    /\ promised' = {}
    /\ call' = [c \in GraphClients |-> [call[c] EXCEPT !.all = call[c].todo]]
    /\ UNCHANGED <<members, after>>

GroupNext ==
    \/ \E c \in GraphClients : GroupAddTask(c)
    \/ \E c \in GraphClients, t \in tasks : GroupTakeTask(c, t)
    \/ \E c \in GraphClients, t \in 1 .. MaxTasks : DependsOn(c, {t})
    \/ \E c, d \in GraphClients : DependsOn(c, members[d])
    \/ \E c \in GraphClients, t \in 1 .. MaxTasks : Then(c, {t})
    \/ \E c, d \in GraphClients : Then(c, members[d])
    \/ \E c \in GraphClients, ids \in SUBSET (1 .. MaxTasks) : Build(c, ids)
    \/ \E c \in GraphClients : \E pair \in call[c].todo : Turn(c, pair)
    \/ \E c \in GraphClients : \E pair \in call[c].todo : TurnThrows(c, pair)
    \/ \E c \in GraphClients : LoopReturns(c)
    \/ \E s, t \in tasks : AddDependency(s, t) /\ UNCHANGED groupVars
    \/ ClearUnderGroups

GroupSpec == GroupInit /\ [][GroupNext]_<<graphVars, groupVars>>
-----------------------------------------------------------------------------
(* What a loop that returned asked for is an order of the graph: every     *)
(* pair is ordered, in the other direction where that was asked for first, *)
(* and never left open, whatever other clients added between its turns.    *)
GroupsKeepOrder ==
    \A pair \in promised :
        \/ pair[1] = pair[2]
        \/ HasPath(adjacencyList, pair[1], pair[2])
        \/ HasPath(adjacencyList, pair[2], pair[1])
==============================================================================
