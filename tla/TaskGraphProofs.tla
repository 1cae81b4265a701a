--------------------------- MODULE TaskGraphProofs ---------------------------
(***************************************************************************)
(* The graph, for every number of tasks: its types, that the two adjacency *)
(* maps agree, and that no sequence of calls builds a cycle; that groups   *)
(* and builders order what they were asked to order; and that the two      *)
(* algorithms that run over it, the search for a path and Kahn's sort,     *)
(* answer what GraphOps says.                                              *)
(***************************************************************************)
EXTENDS TaskGroup, KahnSort, CycleCheck, FiniteInduction, SequenceTheorems, TLAPS

(* The graph itself: the conjunction of the three is inductive. *)
GraphInv == TypeOK /\ MapsAgree /\ Acyclic

(* The heart of add_dependency: when there is no path back from `to` to    *)
(* `from`, adding the edge keeps the graph acyclic.  A set C closed under  *)
(* the old edges holds `to` and not `from`; a set of tasks that reaches    *)
(* outside C has its source there, where the new edge does not arrive, and *)
(* one inside C does not hold `from`, so the new edge does not leave it.   *)
LEMMA AddEdgeKeepsAcyclic ==
    ASSUME NEW T, NEW links \in [T -> SUBSET T],
           NEW from \in T, NEW to \in T,
           IsAcyclic(links), ~ HasPath(links, to, from)
    PROVE  IsAcyclic([links EXCEPT ![from] = @ \cup {to}])
<1> DEFINE new == [links EXCEPT ![from] = @ \cup {to}]
<1>1. DOMAIN links = T /\ DOMAIN new = T
  OBVIOUS
<1>2. PICK C \in SUBSET T : to \in C /\ Closed(links, C) /\ from \notin C
  BY <1>1 DEF HasPath
<1>3. \A s \in T, t \in T : t \in new[s] => t \in links[s] \/ (s = from /\ t = to)
  OBVIOUS
<1>4. SUFFICES ASSUME NEW S \in SUBSET T, S # {}
               PROVE  \E t \in S : \A s \in S : t \notin new[s]
  BY <1>1 DEF IsAcyclic
<1>5. CASE S \subseteq C
  <2>1. PICK t \in S : \A s \in S : t \notin links[s]
    BY <1>1, <1>4 DEF IsAcyclic
  <2>2. from \notin S
    BY <1>2, <1>5
  <2> QED
    BY <1>3, <2>1, <2>2
<1>6. CASE ~ (S \subseteq C)
  <2>1. PICK t \in S \ C : \A s \in S \ C : t \notin links[s]
    <3>1. S \ C \in SUBSET T /\ S \ C # {}
      BY <1>6
    <3> QED
      BY <1>1, <3>1 DEF IsAcyclic
  <2>2. \A s \in C : t \notin links[s]
    BY <1>2, <2>1 DEF Closed
  <2>3. t # to
    BY <1>2, <2>1
  <2> QED
    BY <1>3, <2>1, <2>2, <2>3
<1> QED
  BY <1>5, <1>6

(* A graph that gains a task without edges stays acyclic. *)
LEMMA AddTaskKeepsAcyclic ==
    ASSUME NEW T, NEW links \in [T -> SUBSET T], NEW n, n \notin T, IsAcyclic(links)
    PROVE  IsAcyclic([t \in T \cup {n} |-> IF t = n THEN {} ELSE links[t]])
<1> DEFINE new == [t \in T \cup {n} |-> IF t = n THEN {} ELSE links[t]]
<1>1. DOMAIN links = T /\ DOMAIN new = T \cup {n}
  OBVIOUS
<1>2. SUFFICES ASSUME NEW S \in SUBSET (T \cup {n}), S # {}
               PROVE  \E t \in S : \A s \in S : t \notin new[s]
  BY <1>1 DEF IsAcyclic
<1>3. \A s \in T, t \in T : t \in new[s] => t \in links[s]
  OBVIOUS
<1>4. \A s \in T : n \notin new[s]
  OBVIOUS
<1>5. new[n] = {}
  OBVIOUS
<1>6. CASE n \in S
  BY <1>4, <1>5, <1>6
<1>7. CASE n \notin S
  <2>1. S \in SUBSET T
    BY <1>7
  <2>2. PICK t \in S : \A s \in S : t \notin links[s]
    BY <1>1, <1>2, <2>1 DEF IsAcyclic
  <2> QED
    BY <1>3, <2>1, <2>2
<1> QED
  BY <1>6, <1>7

LEMMA GraphInit == Init => GraphInv
  BY MaxTasksAssumption
  DEF Init, GraphInv, TypeOK, MapsAgree, Acyclic, IsAcyclic

LEMMA GraphStep == GraphInv /\ [Next]_graphVars => GraphInv'
<1> SUFFICES ASSUME GraphInv, [Next]_graphVars
             PROVE  GraphInv'
  OBVIOUS
<1> USE MaxTasksAssumption
<1>1. CASE AddTask
  <2>1. tasks' = tasks \cup {nextId} /\ nextId \notin tasks
    BY <1>1 DEF AddTask, GraphInv, TypeOK
  <2>2. TypeOK'
    BY <1>1, <2>1 DEF AddTask, GraphInv, TypeOK
  <2>3. MapsAgree'
    BY <1>1, <2>1 DEF AddTask, GraphInv, TypeOK, MapsAgree
  <2>4. Acyclic'
    <3>1. IsAcyclic(adjacencyList) /\ adjacencyList \in [tasks -> SUBSET tasks]
      BY DEF GraphInv, TypeOK, Acyclic
    <3>2. adjacencyList' =
            [t \in tasks \cup {nextId} |->
                IF t = nextId THEN {} ELSE adjacencyList[t]]
      BY <1>1, <2>1 DEF AddTask
    <3> QED
      BY <2>1, <3>1, <3>2, AddTaskKeepsAcyclic DEF Acyclic
  <2> QED
    BY <2>2, <2>3, <2>4 DEF GraphInv
<1>2. ASSUME NEW from \in tasks, NEW to \in tasks, AddDependency(from, to)
      PROVE  GraphInv'
  <2>1. TypeOK'
    BY <1>2 DEF AddDependency, GraphInv, TypeOK
  <2>2. MapsAgree'
    BY <1>2 DEF AddDependency, GraphInv, TypeOK, MapsAgree
  <2>3. Acyclic'
    <3>1. IsAcyclic(adjacencyList) /\ adjacencyList \in [tasks -> SUBSET tasks]
      BY DEF GraphInv, TypeOK, Acyclic
    <3>2. ~ HasPath(adjacencyList, to, from)
      BY <1>2 DEF AddDependency, WouldCreateCycle
    <3> QED
      BY <1>2, <3>1, <3>2, AddEdgeKeepsAcyclic DEF AddDependency, Acyclic
  <2> QED
    BY <2>1, <2>2, <2>3 DEF GraphInv
<1>3. CASE Clear
  BY <1>3 DEF Clear, GraphInv, TypeOK, MapsAgree, Acyclic, IsAcyclic
<1>4. CASE UNCHANGED graphVars
  BY <1>4 DEF graphVars, GraphInv, TypeOK, MapsAgree, Acyclic, IsAcyclic
<1> QED
  BY <1>1, <1>2, <1>3, <1>4 DEF Next

LEMMA GraphInvariant == Spec => []GraphInv
  BY GraphInit, GraphStep, PTL DEF Spec

(* The types of the graph: ids are consecutive from 1 since the last clear *)
(* and no edge leaves the set of tasks.                                    *)
THEOREM GraphTypeCorrect == Spec => []TypeOK
  BY GraphInvariant, PTL DEF GraphInv

(* No history of add_task, add_dependency and clear builds a cycle: the    *)
(* validation at the start of execute_internal always succeeds.            *)
THEOREM GraphAlwaysAcyclic == Spec => []Acyclic
  BY GraphInvariant, PTL DEF GraphInv

(* adjacency_list_ and reverse_adjacency_ always hold the same edges.      *)
THEOREM GraphMapsAgree == Spec => []MapsAgree
  BY GraphInvariant, PTL DEF GraphInv

(* A graph that is not empty has a task without predecessors: take all the *)
(* tasks as the set that acyclicity gives a source of.                     *)
THEOREM GraphHasRoot == Spec => []RootExists
<1>1. GraphInv => RootExists
  <2> SUFFICES ASSUME GraphInv, tasks # {}
               PROVE  Roots # {}
    BY DEF RootExists
  <2>1. DOMAIN adjacencyList = tasks
    BY DEF GraphInv, TypeOK
  <2>2. PICK t \in tasks : \A s \in tasks : t \notin adjacencyList[s]
    BY <2>1 DEF GraphInv, Acyclic, IsAcyclic
  <2>3. reverseAdjacency[t] = {}
    BY <2>2 DEF GraphInv, TypeOK, MapsAgree
  <2> QED
    BY <2>3 DEF Roots
<1> QED
  BY <1>1, GraphInvariant, PTL
-----------------------------------------------------------------------------
(* Groups and builders. *)
(* The pair is ordered in the graph, one way or the other. *)
Ordered(pair) ==
    /\ pair[1] \in tasks /\ pair[2] \in tasks
    /\ \/ pair[1] = pair[2]
       \/ HasPath(adjacencyList, pair[1], pair[2])
       \/ HasPath(adjacencyList, pair[2], pair[1])

CallTypes ==
    call \in [GraphClients -> [kind : {"none", "group", "build"}, todo : SUBSET Pairs, all : SUBSET Pairs]]

(* What a loop has done, since the last clear(), is ordered, and so is     *)
(* what the last loop that returned was asked for.                         *)
LoopsKeepOrder ==
    /\ \A c \in GraphClients : \A pair \in call[c].all \ call[c].todo : Ordered(pair)
    /\ \A pair \in promised : Ordered(pair)

MemberTypes ==
    /\ members \in [GraphClients -> SUBSET (1 .. MaxTasks)]
    /\ after \in [GraphClients -> SUBSET (1 .. MaxTasks)]

GroupInv == GraphInv /\ MemberTypes /\ CallTypes /\ LoopsKeepOrder

(* A path stays when tasks and edges are added. *)
LEMMA PathStays ==
    ASSUME NEW T, NEW R, T \subseteq R,
           NEW a \in [T -> SUBSET T], NEW b \in [R -> SUBSET R],
           \A t \in T : a[t] \subseteq b[t],
           NEW s \in T, NEW u, HasPath(a, s, u)
    PROVE  HasPath(b, s, u)
<1> SUFFICES ASSUME NEW C \in SUBSET R, s \in C, Closed(b, C)
             PROVE  u \in C
  BY DEF HasPath
<1>1. s \in C \cap T /\ Closed(a, C \cap T)
  BY DEF Closed
<1> QED
  BY <1>1 DEF HasPath

LEMMA OrderStays ==
    ASSUME GraphInv, AddTask \/ (\E s, t \in tasks : AddDependency(s, t)) \/ UNCHANGED graphVars,
           NEW pair, Ordered(pair)
    PROVE  Ordered(pair)'
<1>1. GraphInv'
  BY GraphStep DEF Next
<1>2. /\ adjacencyList \in [tasks -> SUBSET tasks]
      /\ adjacencyList' \in [tasks' -> SUBSET tasks']
  BY <1>1 DEF GraphInv, TypeOK
<1>3. tasks \subseteq tasks' /\ \A t \in tasks : adjacencyList[t] \subseteq adjacencyList'[t]
  <2>1. CASE AddTask
    <3>1. nextId \notin tasks
      BY MaxTasksAssumption DEF GraphInv, TypeOK
    <3> QED
      BY <2>1, <3>1 DEF AddTask
  <2>2. ASSUME NEW s \in tasks, NEW t \in tasks, AddDependency(s, t)
        PROVE  tasks \subseteq tasks' /\ \A u \in tasks : adjacencyList[u] \subseteq adjacencyList'[u]
    BY <2>2, <1>2 DEF AddDependency
  <2>3. CASE UNCHANGED graphVars
    BY <2>3 DEF graphVars
  <2> QED
    BY <2>1, <2>2, <2>3
<1>4. /\ HasPath(adjacencyList, pair[1], pair[2]) => HasPath(adjacencyList', pair[1], pair[2])
      /\ HasPath(adjacencyList, pair[2], pair[1]) => HasPath(adjacencyList', pair[2], pair[1])
  BY <1>2, <1>3, PathStays DEF Ordered
<1> QED
  BY <1>3, <1>4 DEF Ordered

(* A turn, whether its edge is added or refused, leaves its pair ordered.  *)
LEMMA TurnOrders ==
    ASSUME GraphInv, NEW c \in GraphClients, NEW pair, Turn(c, pair)
    PROVE  Ordered(pair)'
<1>1. GraphInv' /\ pair[1] \in tasks /\ pair[2] \in tasks
  <2>1. pair[1] \in tasks /\ pair[2] \in tasks
    BY DEF Turn
  <2> QED
    BY <2>1, GraphStep DEF Turn, Next
<1>2. \A a : \A s, t : t \in a[s] => HasPath(a, s, t)
  BY DEF HasPath, Closed
<1>3. CASE AddDependency(pair[1], pair[2])
  <2>1. pair[2] \in adjacencyList'[pair[1]] /\ tasks' = tasks
    BY <1>1, <1>3 DEF AddDependency, GraphInv, TypeOK
  <2>2. HasPath(adjacencyList', pair[1], pair[2])
    BY <2>1, <1>2
  <2> QED
    BY <1>1, <2>1, <2>2 DEF Ordered
<1>4. CASE Refused(pair[1], pair[2]) /\ UNCHANGED graphVars
  BY <1>1, <1>2, <1>4 DEF Refused, WouldCreateCycle, graphVars, Ordered
<1> QED
  BY <1>3, <1>4 DEF Turn

LEMMA GroupInitHolds ==
    ASSUME GroupInit
    PROVE  GroupInv
BY GraphInit DEF GroupInit, GroupInv, MemberTypes, CallTypes, LoopsKeepOrder, NoCall

(* A step that adds a task or an edge, or leaves the graph alone. *)
LEMMA LoopsFrame ==
    ASSUME GroupInv, AddTask \/ (\E s, t \in tasks : AddDependency(s, t)) \/ UNCHANGED graphVars,
           CallTypes', promised' \subseteq promised,
           \A c \in GraphClients : call'[c] = call[c] \/ call'[c].all = call'[c].todo
    PROVE  LoopsKeepOrder'
<1>1. \A pair : Ordered(pair) => Ordered(pair)'
  BY OrderStays DEF GroupInv
<1> QED
  BY <1>1 DEF GroupInv, LoopsKeepOrder

LEMMA LoopStarts ==
    ASSUME GroupInv, NEW c \in GraphClients, NEW kind \in {"group", "build"},
           NEW pairs \in SUBSET Pairs, StartLoop(c, kind, pairs)
    PROVE  /\ CallTypes' /\ promised' \subseteq promised
           /\ \A d \in GraphClients : call'[d] = call[d] \/ call'[d].all = call'[d].todo
BY DEF GroupInv, CallTypes, StartLoop

LEMMA GroupStep ==
    ASSUME GroupInv, [GroupNext]_<<graphVars, groupVars>>
    PROVE  GroupInv' /\ [Next]_graphVars
<1> USE DEF GroupInv
<1>1. nextId <= MaxTasks => nextId \in 1 .. MaxTasks
  BY MaxTasksAssumption DEF GraphInv, TypeOK
<1>2. tasks \subseteq 1 .. MaxTasks
  BY MaxTasksAssumption DEF GraphInv, TypeOK
<1>3. AddTask \/ (\E s, t \in tasks : AddDependency(s, t)) \/ Clear \/ UNCHANGED graphVars
          => GraphInv' /\ [Next]_graphVars
  BY GraphStep DEF Next
<1>4. ASSUME NEW c \in GraphClients, GroupAddTask(c)
      PROVE  GroupInv' /\ [Next]_graphVars
  <2>1. AddTask /\ UNCHANGED <<after, call, promised>>
    BY <1>4 DEF GroupAddTask
  <2>2. MemberTypes' /\ CallTypes'
    BY <1>4, <1>1, <2>1 DEF GroupAddTask, AddTask, MemberTypes, CallTypes
  <2> QED
    BY <1>3, <2>1, <2>2, LoopsFrame
<1>5. ASSUME NEW c \in GraphClients, NEW t \in tasks, GroupTakeTask(c, t)
      PROVE  GroupInv' /\ [Next]_graphVars
  <2>1. UNCHANGED <<graphVars, after, call, promised>>
    BY <1>5 DEF GroupTakeTask
  <2>2. MemberTypes' /\ CallTypes'
    BY <1>5, <1>2, <2>1 DEF GroupTakeTask, MemberTypes, CallTypes
  <2> QED
    BY <1>3, <2>1, <2>2, LoopsFrame
<1>6. ASSUME NEW c \in GraphClients, NEW ids \in SUBSET (1 .. MaxTasks),
             DependsOn(c, ids) \/ Then(c, ids)
      PROVE  GroupInv' /\ [Next]_graphVars
  <2>1. ids \X members[c] \in SUBSET Pairs /\ members[c] \X ids \in SUBSET Pairs
    BY DEF MemberTypes, Pairs
  <2>2. /\ UNCHANGED <<graphVars, members, after>>
        /\ StartLoop(c, "group", ids \X members[c]) \/ StartLoop(c, "group", members[c] \X ids)
    BY <1>6 DEF DependsOn, Then
  <2>3. /\ CallTypes' /\ promised' \subseteq promised
        /\ \A d \in GraphClients : call'[d] = call[d] \/ call'[d].all = call'[d].todo
    BY <2>1, <2>2, LoopStarts
  <2>4. MemberTypes'
    BY <2>2 DEF MemberTypes
  <2> QED
    BY <1>3, <2>2, <2>3, <2>4, LoopsFrame
<1>7. ASSUME NEW c \in GraphClients, NEW ids \in SUBSET (1 .. MaxTasks), Build(c, ids)
      PROVE  GroupInv' /\ [Next]_graphVars
  <2>1. AddTask /\ nextId \in 1 .. MaxTasks
    BY <1>1, <1>7 DEF Build, AddTask
  <2>2. MemberTypes' /\ after'[c] \in SUBSET (1 .. MaxTasks)
    BY <1>7 DEF Build, MemberTypes
  <2>3. after'[c] \X {nextId} \in SUBSET Pairs /\ StartLoop(c, "build", after'[c] \X {nextId})
    BY <1>7, <2>1, <2>2 DEF Build, Pairs
  <2>4. /\ CallTypes' /\ promised' \subseteq promised
        /\ \A d \in GraphClients : call'[d] = call[d] \/ call'[d].all = call'[d].todo
    BY <2>3, LoopStarts
  <2> QED
    BY <1>3, <2>1, <2>2, <2>4, LoopsFrame
<1>8. ASSUME NEW c \in GraphClients, NEW pair \in call[c].todo, Turn(c, pair)
      PROVE  GroupInv' /\ [Next]_graphVars
  <2>1. (\E s, t \in tasks : AddDependency(s, t)) \/ UNCHANGED graphVars
    BY <1>8 DEF Turn
  <2>2. /\ call' = [call EXCEPT ![c].todo = @ \ {pair}]
        /\ UNCHANGED <<members, after, promised>>
    BY <1>8 DEF Turn, Done
  <2>3. MemberTypes' /\ CallTypes'
    BY <2>2 DEF MemberTypes, CallTypes
  <2>4. \A p : Ordered(p) => Ordered(p)'
    BY <2>1, OrderStays
  <2>5. Ordered(pair)'
    BY <1>8, TurnOrders
  <2>6. /\ \A d \in GraphClients : call'[d].all = call[d].all
        /\ \A d \in GraphClients \ {c} : call'[d] = call[d]
        /\ call'[c].todo = call[c].todo \ {pair}
    BY <2>2 DEF CallTypes
  <2>7. LoopsKeepOrder'
    <3>1. ASSUME NEW d \in GraphClients, NEW p \in call'[d].all \ call'[d].todo
          PROVE  Ordered(p)'
      BY <3>1, <2>4, <2>5, <2>6 DEF LoopsKeepOrder
    <3>2. \A p \in promised' : Ordered(p)'
      BY <2>2, <2>4 DEF LoopsKeepOrder
    <3> QED
      BY <3>1, <3>2 DEF LoopsKeepOrder
  <2> QED
    BY <1>3, <2>1, <2>3, <2>7
<1>9. ASSUME NEW c \in GraphClients, NEW pair \in call[c].todo, TurnThrows(c, pair)
      PROVE  GroupInv' /\ [Next]_graphVars
  <2>1. call' = [call EXCEPT ![c] = NoCall] /\ UNCHANGED <<graphVars, members, after, promised>>
    BY <1>9 DEF TurnThrows
  <2>2. /\ MemberTypes' /\ CallTypes'
        /\ \A d \in GraphClients : call'[d] = call[d] \/ call'[d].all = call'[d].todo
    BY <2>1 DEF MemberTypes, CallTypes, NoCall
  <2> QED
    BY <1>3, <2>1, <2>2, LoopsFrame
<1>10. ASSUME NEW c \in GraphClients, LoopReturns(c)
       PROVE  GroupInv' /\ [Next]_graphVars
  <2>1. /\ UNCHANGED graphVars /\ members' = members
        /\ call[c].todo = {} /\ promised' = call[c].all
        /\ call' = [call EXCEPT ![c] = NoCall]
    BY <1>10 DEF LoopReturns
  <2>2. MemberTypes'
    BY <1>10 DEF LoopReturns, MemberTypes
  <2>3. /\ CallTypes'
        /\ \A d \in GraphClients : call'[d] = call[d] \/ call'[d].all = call'[d].todo
    BY <2>1 DEF CallTypes, NoCall
  <2>4. \A p : Ordered(p) => Ordered(p)'
    BY <2>1, OrderStays
  <2>5. \A p \in promised' : Ordered(p)'
    BY <2>1, <2>4 DEF LoopsKeepOrder
  <2>6. LoopsKeepOrder'
    BY <2>3, <2>4, <2>5 DEF LoopsKeepOrder
  <2> QED
    BY <1>3, <2>1, <2>2, <2>3, <2>6
<1>11. ASSUME NEW s \in tasks, NEW t \in tasks, AddDependency(s, t), UNCHANGED groupVars
       PROVE  GroupInv' /\ [Next]_graphVars
  <2>1. MemberTypes' /\ CallTypes' /\ call' = call /\ promised' = promised
    BY <1>11 DEF groupVars, MemberTypes, CallTypes
  <2> QED
    BY <1>3, <1>11, <2>1, LoopsFrame
<1>12. CASE ClearUnderGroups
  <2>1. /\ Clear /\ promised' = {} /\ UNCHANGED <<members, after>>
        /\ call' = [c \in GraphClients |-> [call[c] EXCEPT !.all = call[c].todo]]
    BY <1>12 DEF ClearUnderGroups
  <2>2. /\ MemberTypes' /\ CallTypes'
        /\ \A c \in GraphClients : call'[c].all = call'[c].todo
    BY <2>1 DEF MemberTypes, CallTypes
  <2>3. LoopsKeepOrder'
    BY <2>1, <2>2 DEF LoopsKeepOrder
  <2> QED
    BY <1>3, <2>1, <2>2, <2>3
<1>13. CASE UNCHANGED <<graphVars, groupVars>>
  <2>1. UNCHANGED graphVars /\ MemberTypes' /\ CallTypes' /\ call' = call /\ promised' = promised
    BY <1>13 DEF groupVars, MemberTypes, CallTypes
  <2> QED
    BY <1>3, <2>1, LoopsFrame
<1> QED
  <2>1. \A c \in GraphClients : members[c] \in SUBSET (1 .. MaxTasks)
    BY DEF MemberTypes
  <2>2. \A t \in 1 .. MaxTasks : {t} \in SUBSET (1 .. MaxTasks)
    OBVIOUS
  <2> QED
    BY <1>4, <1>5, <1>6, <1>7, <1>8, <1>9, <1>10, <1>11, <1>12, <1>13, <2>1, <2>2 DEF GroupNext

LEMMA GroupInvHolds ==
    GroupSpec => []GroupInv
BY GroupInitHolds, GroupStep, PTL DEF GroupSpec

(* Groups and builders do nothing to the graph that a client could not do  *)
(* by its own calls of add_task, add_dependency and clear: what is proved  *)
(* of the graph holds under them, too.                                     *)
THEOREM GroupsUseTheGraph ==
    GroupSpec => Spec
<1>1. GroupInit => Init
  BY DEF GroupInit
<1>2. GroupInv /\ [GroupNext]_<<graphVars, groupVars>> => [Next]_graphVars
  BY GroupStep
<1> QED
  BY <1>1, <1>2, GroupInvHolds, PTL DEF GroupSpec, Spec

(* A loop of depends_on, then or build that returned leaves every pair it  *)
(* was asked for ordered in the graph, whatever other clients added or     *)
(* cleared between its turns, for every number of clients and tasks.       *)
THEOREM GroupsAlwaysOrder ==
    GroupSpec => []GroupsKeepOrder
<1>1. GroupInv => GroupsKeepOrder
  BY DEF GroupInv, LoopsKeepOrder, Ordered, GroupsKeepOrder
<1> QED
  BY <1>1, GroupInvHolds, PTL
-----------------------------------------------------------------------------
(* The search for a path, which keeps the cycles out. *)
Frames == 1 .. Len(stack)

SearchTypes ==
    /\ adj \in [Vertices -> SUBSET Vertices]
    /\ origin \in Vertices /\ target \in Vertices
    /\ visited \in SUBSET Vertices
    /\ stack \in Seq(Frame)
    /\ found \in BOOLEAN

(* Every call is for a task that can be reached from the first one, and    *)
(* what its loop has yet to come to are successors of the task.            *)
CallsAreReached ==
    \A i \in Frames : /\ HasPath(adj, origin, stack[i].task)
                      /\ stack[i].todo \subseteq adj[stack[i].task]

(* Until the target is found, an edge that leaves the visited tasks is in  *)
(* the loop of some call.                                                  *)
OpenEdgesInLoops ==
    ~ found => /\ origin \in visited /\ target \notin visited
               /\ \A v \in visited : \A u \in adj[v] \ visited :
                      \E i \in Frames : stack[i].task = v /\ u \in stack[i].todo

SearchInv ==
    /\ SearchTypes
    /\ CallsAreReached
    /\ OpenEdgesInLoops
    /\ found => HasPath(adj, origin, target)

LEMMA PathOnward ==
    ASSUME NEW a, NEW s, NEW v, NEW u, u \in a[v], HasPath(a, s, v)
    PROVE  HasPath(a, s, u)
BY DEF HasPath, Closed

LEMMA SearchInitHolds ==
    ASSUME SearchInit
    PROVE  SearchInv
<1>1. /\ adj \in [Vertices -> SUBSET Vertices] /\ origin \in Vertices /\ target \in Vertices
      /\ found <=> origin = target
      /\ found \in BOOLEAN
  BY DEF SearchInit
<1>2. Called(origin) \in Frame /\ Called(origin).task = origin /\ Called(origin).todo = adj[origin]
  BY <1>1 DEF Called, Frame
<1>3. HasPath(adj, origin, origin)
  BY DEF HasPath
<1>4. CASE found
  <2>1. stack = <<>> /\ visited = {} /\ Len(stack) = 0
    BY <1>4 DEF SearchInit
  <2> QED
    BY <1>1, <1>3, <1>4, <2>1 DEF SearchInv, SearchTypes, CallsAreReached, OpenEdgesInLoops, Frames
<1>5. CASE ~ found
  <2>1. stack = <<Called(origin)>> /\ visited = {origin} /\ Len(stack) = 1
    BY <1>5 DEF SearchInit
  <2>2. stack \in Seq(Frame) /\ stack[1] = Called(origin) /\ Frames = {1}
    BY <1>2, <2>1 DEF Frames
  <2> QED
    BY <1>1, <1>2, <1>3, <1>5, <2>1, <2>2
       DEF SearchInv, SearchTypes, CallsAreReached, OpenEdgesInLoops
<1> QED
  BY <1>4, <1>5

LEMMA DescendKeeps ==
    ASSUME SearchInv, NEW t \in Vertices, Descend(t)
    PROVE  SearchInv'
<1> DEFINE n == Len(stack)
           rest == [stack EXCEPT ![Len(stack)].todo = @ \ {t}]
<1>1. /\ SearchTypes /\ stack # <<>> /\ n \in Nat \ {0} /\ DOMAIN stack = 1 .. n
      /\ \A i \in 1 .. n : stack[i] \in Frame
  BY DEF Descend, SearchInv, SearchTypes
<1>2. /\ ~ found /\ t \in stack[n].todo /\ n \in 1 .. n
      /\ UNCHANGED <<adj, origin, target>>
  BY <1>1 DEF Descend, Top
<1>3. HasPath(adj, origin, t)
  BY <1>2, PathOnward DEF SearchInv, CallsAreReached, Frames
<1>4. CASE t = target
  <2>1. found' = TRUE /\ visited' = visited /\ stack' = stack
    BY <1>4 DEF Descend
  <2>2. SearchTypes' /\ CallsAreReached'
    BY <1>1, <1>2, <2>1 DEF SearchTypes, SearchInv, CallsAreReached, Frames
  <2> QED
    BY <1>2, <1>3, <1>4, <2>1, <2>2 DEF SearchInv, OpenEdgesInLoops
<1>5. CASE t # target
  <2>1. /\ visited' = visited \cup {t} /\ found' = found
        /\ stack' = IF t \in visited THEN rest ELSE Append(rest, Called(t))
    BY <1>5 DEF Descend
  <2>2. /\ rest \in Seq(Frame) /\ Len(rest) = n
        /\ \A i \in 1 .. n : rest[i].task = stack[i].task
        /\ \A i \in 1 .. n - 1 : rest[i] = stack[i]
        /\ rest[n].todo = stack[n].todo \ {t}
    <3>1. /\ rest = [i \in 1 .. n |-> IF i = n THEN [stack[n] EXCEPT !.todo = @ \ {t}] ELSE stack[i]]
          /\ stack[n] = [task |-> stack[n].task, todo |-> stack[n].todo]
      BY <1>1, <1>2 DEF Frame
    <3>2. \A i \in 1 .. n : rest[i] \in Frame
      BY <1>1, <3>1 DEF Frame
    <3>3. rest \in Seq(Frame) /\ Len(rest) = n
      <4>1. PICK top : top = [stack[n] EXCEPT !.todo = @ \ {t}]
        OBVIOUS
      <4>2. rest = [i \in 1 .. n |-> IF i = n THEN top ELSE stack[i]] /\ rest[n] = top
        BY <1>2, <3>1, <4>1
      <4>3. top \in Frame
        BY <1>2, <3>2, <4>2
      <4>4. rest = [stack EXCEPT ![n] = top]
        BY <1>1, <4>2
      <4> HIDE DEF rest
      <4> QED
        BY <1>1, <1>2, <4>3, <4>4, ExceptSeq DEF SearchTypes
    <3>4. \A i \in 1 .. n : /\ rest[i].task = stack[i].task
                            /\ i # n => rest[i] = stack[i]
      BY <1>1, <1>2, <3>1 DEF Frame
    <3>5. rest[n].todo = stack[n].todo \ {t}
      BY <1>1, <1>2, <3>1 DEF Frame
    <3> QED
      BY <1>1, <3>3, <3>4, <3>5
  <2>3. Called(t) \in Frame /\ Called(t).task = t /\ Called(t).todo = adj[t]
    BY <1>1 DEF Called, Frame, SearchTypes
  <2> HIDE DEF rest, n
  <2>4. /\ stack' \in Seq(Frame) /\ Len(stack') \in {n, n + 1}
        /\ \A i \in 1 .. n : stack'[i] = rest[i]
        /\ t \notin visited => Len(stack') = n + 1 /\ stack'[n + 1] = Called(t)
        /\ t \in visited => Len(stack') = n
    <3>1. CASE t \in visited
      BY <2>1, <2>2, <3>1
    <3>2. CASE t \notin visited
      BY <2>1, <2>2, <2>3, <3>2
    <3> QED
      BY <3>1, <3>2
  <2>5. SearchTypes'
    BY <1>1, <1>2, <2>1, <2>4 DEF SearchTypes
  <2>6. CallsAreReached'
    <3> SUFFICES ASSUME NEW i \in Frames'
                 PROVE  HasPath(adj, origin, stack'[i].task) /\ stack'[i].todo \subseteq adj[stack'[i].task]
      BY <1>2 DEF CallsAreReached
    <3>1. CASE i \in 1 .. n
      <4>1. /\ HasPath(adj, origin, stack[i].task)
            /\ stack[i].todo \subseteq adj[stack[i].task]
        BY <3>1 DEF SearchInv, CallsAreReached, Frames, n
      <4>2. rest[i].todo \subseteq stack[i].todo
        BY <1>1, <2>2, <3>1
      <4> QED
        BY <2>2, <2>4, <3>1, <4>1, <4>2
    <3>2. CASE i \notin 1 .. n
      <4>1. i = n + 1 /\ stack'[i] = Called(t)
        BY <1>1, <2>4, <3>2 DEF Frames
      <4> QED
        BY <1>3, <2>3, <4>1
    <3> QED
      BY <3>1, <3>2
  <2>7. OpenEdgesInLoops'
    <3>1. /\ origin \in visited /\ target \notin visited
          /\ \A v \in visited : \A u \in adj[v] \ visited :
                 \E i \in 1 .. n : stack[i].task = v /\ u \in stack[i].todo
      BY <1>2 DEF SearchInv, OpenEdgesInLoops, Frames, n
    <3>4. adj' = adj /\ origin' \in visited' /\ target' \notin visited'
      BY <1>2, <1>5, <2>1, <3>1
    <3> SUFFICES ASSUME NEW v \in visited', NEW u \in adj[v] \ visited'
                 PROVE  \E i \in Frames' : stack'[i].task = v /\ u \in stack'[i].todo
      BY <3>4 DEF OpenEdgesInLoops
    <3>2. CASE v \in visited
      <4>1. u \notin visited /\ u # t
        BY <2>1
      <4>2. PICK i \in 1 .. n : stack[i].task = v /\ u \in stack[i].todo
        BY <3>1, <3>2, <4>1
      <4>3. stack'[i].task = v /\ u \in stack'[i].todo
        BY <1>1, <2>2, <2>4, <4>1, <4>2
      <4>4. i \in Frames'
        BY <1>1, <2>4 DEF Frames
      <4> QED
        BY <4>3, <4>4
    <3>3. CASE v \notin visited
      <4>1. v = t /\ t \notin visited
        BY <2>1, <3>3
      <4>2. n + 1 \in Frames' /\ stack'[n + 1].task = v /\ u \in stack'[n + 1].todo
        BY <1>1, <2>3, <2>4, <4>1 DEF Frames
      <4> QED
        BY <4>2
    <3> QED
      BY <3>2, <3>3
  <2> QED
    BY <1>2, <2>1, <2>5, <2>6, <2>7 DEF SearchInv
<1> QED
  BY <1>4, <1>5

LEMMA BacktrackKeeps ==
    ASSUME SearchInv, Backtrack
    PROVE  SearchInv'
<1> DEFINE n == Len(stack)
<1>1. /\ stack \in Seq(Frame) /\ n \in Nat \ {0} /\ SearchTypes
      /\ ~ found /\ stack[n].todo = {} /\ UNCHANGED <<adj, origin, target, visited, found>>
  BY DEF Backtrack, SearchInv, SearchTypes, Top
<1>2. stack' = SubSeq(stack, 1, n - 1)
  BY DEF Backtrack
<1> HIDE DEF n
<1>3. /\ stack' \in Seq(Frame) /\ Len(stack') = n - 1
      /\ \A i \in 1 .. n - 1 : stack'[i] = stack[i]
  <2>1. n - 1 \in 1 - 1 .. Len(stack) /\ 1 \in 1 .. Len(stack) + 1
    BY <1>1 DEF n
  <2> QED
    BY <1>1, <1>2, <2>1, SubSeqProperties
<1>4. Frames' = 1 .. n - 1 /\ Frames = 1 .. n
  BY <1>3 DEF Frames, n
<1>5. SearchTypes'
  BY <1>1, <1>3 DEF SearchTypes
<1>6. CallsAreReached'
  BY <1>1, <1>3, <1>4 DEF SearchInv, CallsAreReached
<1>7. OpenEdgesInLoops'
  <2>1. \A i \in 1 .. n : \A u \in stack[i].todo : i \in 1 .. n - 1
    BY <1>1
  <2> QED
    BY <2>1, <1>1, <1>3, <1>4 DEF SearchInv, OpenEdgesInLoops
<1> QED
  BY <1>1, <1>5, <1>6, <1>7 DEF SearchInv

(* The depth-first search answers whether there is a path, for every graph *)
(* and every order of its loops: when the outermost call has returned      *)
(* false, the visited tasks are a set that no edge leaves.                 *)
THEOREM SearchAlwaysCorrect ==
    SearchSpec => []SearchCorrect
<1>1. SearchInv /\ [SearchNext]_searchVars => SearchInv'
  <2> SUFFICES ASSUME SearchInv, UNCHANGED searchVars
               PROVE  SearchInv'
    BY BacktrackKeeps, DescendKeeps DEF SearchNext
  <2> QED
    BY DEF searchVars, SearchInv, SearchTypes, CallsAreReached, OpenEdgesInLoops, Frames
<1>2. SearchInv => SearchCorrect
  <2> SUFFICES ASSUME SearchInv, ~ found, stack = <<>>, HasPath(adj, origin, target)
               PROVE  FALSE
    BY DEF SearchInv, SearchCorrect, SearchDone
  <2>1. Frames = {} /\ visited \in SUBSET DOMAIN adj /\ origin \in visited /\ target \notin visited
    BY DEF SearchInv, SearchTypes, OpenEdgesInLoops, Frames
  <2>2. Closed(adj, visited)
    BY <2>1 DEF SearchInv, OpenEdgesInLoops, Closed
  <2> QED
    BY <2>1, <2>2 DEF HasPath
<1> QED
  BY <1>1, <1>2, SearchInitHolds, PTL DEF SearchSpec
-----------------------------------------------------------------------------
(* Kahn's algorithm, in validate() and topological_sort(). *)
(* A task is queued when its count is down to zero, and its count is that  *)
(* of the predecessors that are not in the result.                         *)
CountsExact ==
    \A t \in Nodes : inDegrees[t] = Cardinality(Predecessors(edges, t) \ Sorted)

QueueExact == queue = {t \in Nodes \ Sorted : inDegrees[t] = 0}

KahnInv ==
    /\ edges \in Digraphs
    /\ inDegrees \in [Nodes -> Nat]
    /\ result \in Seq(Nodes)
    /\ CountsExact
    /\ QueueExact
    /\ TopologicalOrder

LEMMA PredecessorsFinite ==
    ASSUME NEW links \in Digraphs, NEW S, NEW t
    PROVE  /\ Predecessors(links, t) \subseteq Nodes
           /\ IsFiniteSet(Predecessors(links, t) \ S)
           /\ Cardinality(Predecessors(links, t) \ S) \in Nat
<1>1. Predecessors(links, t) \subseteq Nodes
  BY DEF Predecessors, Digraphs
<1>2. IsFiniteSet(Predecessors(links, t) \ S)
  BY <1>1, NodesAssumption, FS_Subset DEF NodesAssumption
<1> QED
  BY <1>1, <1>2, FS_CardinalityType

LEMMA KahnInitHolds ==
    ASSUME KahnInit
    PROVE  KahnInv
<1>1. edges \in Digraphs /\ result = <<>> /\ result \in Seq(Nodes) /\ Len(result) = 0
  BY DEF KahnInit
<1>2. Sorted = {}
  BY <1>1 DEF Sorted
<1>3. \A t \in Nodes : /\ inDegrees[t] = Cardinality(Predecessors(edges, t))
                       /\ Predecessors(edges, t) \ Sorted = Predecessors(edges, t)
  BY <1>2 DEF KahnInit, InDegree
<1>4. inDegrees \in [Nodes -> Nat]
  <2>1. \A t \in Nodes : InDegree(t) \in Nat
    <3> TAKE t \in Nodes
    <3>1. Cardinality(Predecessors(edges, t) \ {}) \in Nat
      BY <1>1, PredecessorsFinite
    <3>2. Predecessors(edges, t) \ {} = Predecessors(edges, t)
      OBVIOUS
    <3> QED
      BY <3>1, <3>2 DEF InDegree
  <2> QED
    BY <2>1 DEF KahnInit
<1>5. CountsExact
  BY <1>3 DEF CountsExact
<1>6. QueueExact
  BY <1>2, <1>3 DEF QueueExact, KahnInit, InDegree
<1>7. TopologicalOrder
  BY <1>1 DEF TopologicalOrder
<1> QED
  BY <1>1, <1>4, <1>5, <1>6, <1>7 DEF KahnInv

(* A task in the result has all its predecessors there. *)
LEMMA SortedIsClosed ==
    ASSUME KahnInv, NEW t \in Sorted
    PROVE  Predecessors(edges, t) \subseteq Sorted
<1>1. PICK i \in 1 .. Len(result) : result[i] = t
  BY DEF Sorted
<1>2. \A p \in Predecessors(edges, t) : \E k \in 1 .. i - 1 : result[k] = p
  BY <1>1 DEF KahnInv, TopologicalOrder
<1>3. Len(result) \in Nat
  BY DEF KahnInv
<1> QED
  BY <1>1, <1>2, <1>3 DEF Sorted

LEMMA TakeKeeps ==
    ASSUME KahnInv, NEW t \in Nodes, Take(t)
    PROVE  KahnInv'
<1>1. /\ edges \in Digraphs /\ edges' = edges
      /\ inDegrees \in [Nodes -> Nat] /\ result \in Seq(Nodes) /\ Len(result) \in Nat
      /\ \A u \in Nodes : edges[u] \subseteq Nodes /\ u \notin edges[u]
  BY DEF KahnInv, Take, Digraphs
<1>2. t \notin Sorted /\ inDegrees[t] = 0
  BY DEF KahnInv, QueueExact, Take
<1>3. \A u \in Nodes : /\ IsFiniteSet(Predecessors(edges, u) \ Sorted)
                       /\ inDegrees[u] = Cardinality(Predecessors(edges, u) \ Sorted)
  BY <1>1, PredecessorsFinite DEF KahnInv, CountsExact
<1>4. Predecessors(edges, t) \subseteq Sorted
  BY <1>2, <1>3, FS_EmptySet
<1>5. /\ result' \in Seq(Nodes) /\ Len(result') = Len(result) + 1
      /\ \A i \in 1 .. Len(result) : result'[i] = result[i]
      /\ result'[Len(result) + 1] = t
  BY <1>1 DEF Take
<1>6. Sorted' = Sorted \cup {t}
  <2>1. \A x : x \in Sorted' <=> \E i \in 1 .. Len(result) + 1 : result'[i] = x
    BY <1>5 DEF Sorted
  <2>2. \A x : x \in Sorted <=> \E i \in 1 .. Len(result) : result[i] = x
    BY DEF Sorted
  <2>3. \A i : i \in 1 .. Len(result) + 1 <=> i \in 1 .. Len(result) \/ i = Len(result) + 1
    BY <1>1
  <2>4. ASSUME NEW x
        PROVE  x \in Sorted' <=> x \in Sorted \/ x = t
    <3>1. (\E i \in 1 .. Len(result) + 1 : result'[i] = x)
              <=> (\E i \in 1 .. Len(result) : result[i] = x) \/ t = x
      BY <2>3, <1>5, Zenon
    <3> QED
      BY <2>1, <2>2, <3>1, Zenon
  <2> QED
    BY <2>4
<1>7. ASSUME NEW u \in Nodes
      PROVE  /\ inDegrees'[u] \in Nat
             /\ inDegrees'[u] = Cardinality(Predecessors(edges, u) \ Sorted')
             /\ u \in edges[t] => inDegrees[u] > 0 /\ inDegrees'[u] = inDegrees[u] - 1
             /\ u \notin edges[t] => inDegrees'[u] = inDegrees[u]
  <2>1. inDegrees'[u] = IF u \in edges[t] THEN inDegrees[u] - 1 ELSE inDegrees[u]
    BY DEF Take
  <2>2. CASE u \in edges[t]
    <3>1. t \in Predecessors(edges, u) \ Sorted
      BY <1>1, <1>2, <2>2 DEF Predecessors, Digraphs
    <3>2. Predecessors(edges, u) \ Sorted' = (Predecessors(edges, u) \ Sorted) \ {t}
      BY <1>6
    <3>3. Cardinality(Predecessors(edges, u) \ Sorted') = inDegrees[u] - 1
      BY <1>3, <3>1, <3>2, FS_RemoveElement
    <3>4. inDegrees[u] \in Nat /\ inDegrees[u] # 0
      BY <1>1, <1>3, <3>1, FS_EmptySet
    <3> QED
      BY <2>1, <2>2, <3>3, <3>4
  <2>3. CASE u \notin edges[t]
    <3>1. t \notin Predecessors(edges, u)
      BY <2>3 DEF Predecessors
    <3>2. Predecessors(edges, u) \ Sorted' = Predecessors(edges, u) \ Sorted
      BY <1>6, <3>1
    <3> QED
      BY <1>1, <1>3, <2>1, <2>3, <3>2
  <2> QED
    BY <2>2, <2>3
<1>8. inDegrees' \in [Nodes -> Nat]
  <2>1. inDegrees' = [u \in Nodes |-> IF u \in edges[t] THEN inDegrees[u] - 1 ELSE inDegrees[u]]
    BY DEF Take
  <2> QED
    BY <2>1, <1>7
<1>9. CountsExact'
  BY <1>1, <1>7 DEF CountsExact
<1>10. QueueExact'
  <2>1. queue = {u \in Nodes \ Sorted : inDegrees[u] = 0}
    BY DEF KahnInv, QueueExact
  <2>2. queue' = (queue \ {t}) \cup {u \in edges[t] : inDegrees[u] = 1}
    BY DEF Take
  <2>3. \A u \in Nodes : u \in edges[t] => u \notin Sorted /\ u # t
    <3> SUFFICES ASSUME NEW u \in Nodes, u \in edges[t], u \in Sorted
                 PROVE  FALSE
      BY <1>1
    <3>1. t \in Predecessors(edges, u)
      BY <1>1 DEF Predecessors, Digraphs
    <3> QED
      BY <3>1, <1>2, SortedIsClosed
  <2>4. ASSUME NEW u \in Nodes
        PROVE  u \in queue' <=> u \in Nodes \ Sorted' /\ inDegrees'[u] = 0
    <3>1. inDegrees[u] \in Nat
      BY <1>1
    <3>2. CASE u \in edges[t]
      <4>1. inDegrees[u] > 0 /\ inDegrees'[u] = inDegrees[u] - 1 /\ u \in Nodes \ Sorted'
        BY <2>3, <3>2, <1>6, <1>7
      <4>2. u \notin queue /\ (u \in queue' <=> inDegrees[u] = 1)
        BY <2>1, <2>2, <3>2, <4>1
      <4>3. inDegrees'[u] = 0 <=> inDegrees[u] = 1
        BY <3>1, <4>1
      <4> QED
        BY <4>1, <4>2, <4>3
    <3>3. CASE u \notin edges[t]
      BY <2>1, <2>2, <3>3, <1>6, <1>7
    <3> QED
      BY <3>2, <3>3
  <2>5. queue' \subseteq Nodes
    BY <1>1, <2>1, <2>2
  <2> QED
    BY <2>4, <2>5 DEF QueueExact
<1>11. TopologicalOrder'
  <2> SUFFICES ASSUME NEW i \in 1 .. Len(result')
               PROVE  /\ \A p \in Predecessors(edges, result'[i]) :
                             \E k \in 1 .. i - 1 : result'[k] = p
                      /\ \A k \in 1 .. i - 1 : result'[k] # result'[i]
    BY <1>1 DEF TopologicalOrder
  <2>1. CASE i \in 1 .. Len(result)
    <3>1. /\ \A p \in Predecessors(edges, result[i]) : \E k \in 1 .. i - 1 : result[k] = p
          /\ \A k \in 1 .. i - 1 : result[k] # result[i]
      BY <2>1 DEF KahnInv, TopologicalOrder
    <3>2. result'[i] = result[i] /\ \A k \in 1 .. i - 1 : result'[k] = result[k]
      BY <1>1, <1>5, <2>1
    <3> QED
      BY <3>1, <3>2
  <2>2. CASE i = Len(result) + 1
    <3>1. result'[i] = t /\ 1 .. i - 1 = 1 .. Len(result)
      BY <1>1, <1>5, <2>2
    <3> QED
      BY <3>1, <1>2, <1>4, <1>5 DEF Sorted
  <2> QED
    BY <1>1, <1>5, <2>1, <2>2
<1> QED
  BY <1>1, <1>5, <1>8, <1>9, <1>10, <1>11 DEF KahnInv

(* The positions of the result and its tasks are as many. *)
LEMMA ResultLength ==
    ASSUME KahnInv
    PROVE  /\ Sorted \subseteq Nodes /\ IsFiniteSet(Sorted)
           /\ Cardinality(Sorted) = Len(result)
<1>1. /\ result \in Seq(Nodes) /\ Len(result) \in Nat /\ DOMAIN result = 1 .. Len(result)
      /\ result \in [1 .. Len(result) -> Nodes]
      /\ \A i \in 1 .. Len(result) : \A k \in 1 .. i - 1 : result[k] # result[i]
  BY DEF KahnInv, TopologicalOrder
<1>2. PICK n \in Nat : n = Len(result)
  BY <1>1
<1>3. IsFiniteSet(1 .. n) /\ Cardinality(1 .. n) = n
  <2>1. IsFiniteSet(1 .. n) /\ Cardinality(1 .. n) = IF 1 > n THEN 0 ELSE n - 1 + 1
    BY FS_Interval
  <2> QED
    BY <2>1
<1>4. result \in [1 .. n -> Sorted] /\ \A x \in Sorted : \E i \in 1 .. n : result[i] = x
  BY <1>1, <1>2 DEF Sorted
<1>5. \A i, k \in 1 .. n : result[i] = result[k] => i = k
  <2> SUFFICES ASSUME NEW i \in 1 .. n, NEW k \in 1 .. n, result[i] = result[k], i # k
               PROVE  FALSE
    OBVIOUS
  <2>1. i \in 1 .. k - 1 \/ k \in 1 .. i - 1
    OBVIOUS
  <2> QED
    BY <2>1, <1>1, <1>2
<1>6. result \in Surjection(1 .. n, Sorted) /\ result \in Injection(1 .. n, Sorted)
  BY <1>4, <1>5 DEF Surjection, Injection, IsInjective
<1>7. IsFiniteSet(Sorted) /\ Cardinality(Sorted) = n
  BY <1>3, <1>6, FS_Surjection
<1> QED
  BY <1>1, <1>2, <1>7 DEF Sorted

(* A result that holds every task is an order of them, and so no set of    *)
(* tasks lies on a cycle: the first of the set in the result has no        *)
(* predecessor in it.                                                      *)
LEMMA OrderedIsAcyclic ==
    ASSUME KahnInv, Sorted = Nodes
    PROVE  IsAcyclic(edges)
<1>1. edges \in Digraphs /\ DOMAIN edges = Nodes
  BY DEF KahnInv, Digraphs
<1> SUFFICES ASSUME NEW S \in SUBSET Nodes, S # {}
             PROVE  \E t \in S : \A s \in S : t \notin edges[s]
  BY <1>1 DEF IsAcyclic
<1> DEFINE Places == {i \in 1 .. Len(result) : result[i] \in S}
<1>2. Len(result) \in Nat
  BY DEF KahnInv
<1>3. Places \in SUBSET Nat /\ Places # {}
  BY <1>2 DEF Sorted
<1>4. PICK i \in Places : \A k \in Places : i <= k
  BY <1>3, LeastOf
<1>5. ASSUME NEW s \in S, result[i] \in edges[s]
      PROVE  FALSE
  <2>1. s \in Predecessors(edges, result[i])
    BY <1>1, <1>5 DEF Predecessors
  <2>2. PICK k \in 1 .. i - 1 : result[k] = s
    BY <2>1 DEF KahnInv, TopologicalOrder
  <2>3. k \in Places /\ k < i
    BY <2>2, <1>2
  <2>4. i \in Nat /\ k \in Nat /\ i <= k
    BY <2>3, <1>3, <1>4
  <2> QED
    BY <2>3, <2>4
<1> QED
  BY <1>5

(* When the queue is empty and the graph has no cycle, nothing is left:    *)
(* what is left would have a first task, and that would be queued.         *)
LEMMA AcyclicIsOrdered ==
    ASSUME KahnInv, KahnDone, IsAcyclic(edges)
    PROVE  Sorted = Nodes
<1>1. edges \in Digraphs /\ DOMAIN edges = Nodes /\ Sorted \subseteq Nodes
  BY ResultLength DEF KahnInv, Digraphs
<1> SUFFICES ASSUME Nodes \ Sorted # {}
             PROVE  FALSE
  BY <1>1
<1>2. PICK t \in Nodes \ Sorted : \A s \in Nodes \ Sorted : t \notin edges[s]
  <2>1. Nodes \ Sorted \in SUBSET Nodes
    OBVIOUS
  <2> QED
    BY <1>1, <2>1 DEF IsAcyclic
<1>3. Predecessors(edges, t) \ Sorted = {}
  BY <1>1, <1>2 DEF Predecessors
<1>4. inDegrees[t] = 0
  BY <1>3, FS_EmptySet DEF KahnInv, CountsExact
<1> QED
  BY <1>4 DEF KahnInv, QueueExact, KahnDone

(* The order topological_sort() returns puts every task after all its      *)
(* predecessors and none in twice, and validate() answers true for exactly *)
(* the graphs without a cycle: for every finite graph, and whichever order *)
(* the tasks are taken off the queue in.                                   *)
THEOREM SortAlwaysCorrect ==
    KahnSpec => []SortCorrect
<1>1. KahnInv /\ [KahnNext]_kahnVars => KahnInv'
  <2> SUFFICES ASSUME KahnInv, UNCHANGED kahnVars
               PROVE  KahnInv'
    BY TakeKeeps DEF KahnNext
  <2> QED
    BY DEF kahnVars, KahnInv, CountsExact, QueueExact, TopologicalOrder, Sorted
<1>2. KahnInv => SortCorrect
  <2> SUFFICES ASSUME KahnInv
               PROVE  SortCorrect
    OBVIOUS
  <2>1. ASSUME KahnDone
        PROVE  Len(result) = Cardinality(Nodes) <=> IsAcyclic(edges)
    <3>1. /\ Sorted \subseteq Nodes /\ IsFiniteSet(Nodes)
          /\ Cardinality(Sorted) = Len(result)
      BY ResultLength, NodesAssumption DEF NodesAssumption
    <3>2. Len(result) = Cardinality(Nodes) => Sorted = Nodes
      BY <3>1, FS_Subset
    <3> QED
      BY <2>1, <3>1, <3>2, OrderedIsAcyclic, AcyclicIsOrdered
  <2> QED
    BY <2>1 DEF KahnInv, SortCorrect, ValidateCorrect
<1> QED
  BY <1>1, <1>2, KahnInitHolds, PTL DEF KahnSpec
=============================================================================
