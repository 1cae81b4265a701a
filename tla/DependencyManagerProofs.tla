----------------------- MODULE DependencyManagerProofs -----------------------
(***************************************************************************)
(* Proofs about DependencyManager for every finite set of ids and every    *)
(* acyclic snapshot: its counters, its verdicts and that work never runs   *)
(* out early.  DepInv is inductive.  The lemmas on MarkCompleted and       *)
(* MarkFailed assume nothing about the order of the calls, so the proofs   *)
(* of the scheduler use them as they are.                                  *)
(***************************************************************************)
EXTENDS DependencyManager, FiniteSetTheorems, TLAPS

(* One step of FailureClosure: every edge out of a failed or blocked task  *)
(* ends in a task with a verdict, completed ones included.                 *)
SuccessorsDecided ==
    \A s \in (failed \cup blocked) \cap Known : successors[s] \subseteq Terminal

DepInv ==
    /\ DepTypeOK
    /\ PendingExact
    /\ VerdictsDisjoint
    /\ SuccessorsDecided
    /\ BlockedHasCause
    /\ IsAcyclic(successors)

LEMMA PredecessorsFinite ==
    ASSUME NEW adj, DOMAIN adj \subseteq Ids, NEW t, NEW C
    PROVE  /\ IsFiniteSet(Predecessors(adj, t) \ C)
           /\ Cardinality(Predecessors(adj, t) \ C) \in Nat
<1>1. Predecessors(adj, t) \ C \subseteq Ids
  BY DEF Predecessors
<1>2. IsFiniteSet(Predecessors(adj, t) \ C)
  BY <1>1, IdsAssumption, FS_Subset
<1> QED
  BY <1>2, FS_CardinalityType

LEMMA InDegreeCounted ==
    ASSUME NEW adj, DOMAIN adj \subseteq Ids, NEW t
    PROVE  /\ Cardinality(Predecessors(adj, t)) \in Nat
           /\ Predecessors(adj, t) \ {} = Predecessors(adj, t)
<1>1. Predecessors(adj, t) \ {} = Predecessors(adj, t)
  OBVIOUS
<1>2. Cardinality(Predecessors(adj, t) \ {}) \in Nat
  BY PredecessorsFinite
<1> QED
  BY <1>1, <1>2

(* Completing id takes one predecessor away from exactly its successors.   *)
LEMMA OneLessPending ==
    ASSUME NEW adj, DOMAIN adj \subseteq Ids, NEW t, NEW C,
           NEW id, id \notin C
    PROVE  Cardinality(Predecessors(adj, t) \ (C \cup {id})) =
             Cardinality(Predecessors(adj, t) \ C)
               - (IF id \in Predecessors(adj, t) THEN 1 ELSE 0)
<1> DEFINE P == Predecessors(adj, t) \ C
<1>1. IsFiniteSet(P) /\ Cardinality(P) \in Nat
  BY PredecessorsFinite
<1>2. Predecessors(adj, t) \ (C \cup {id}) = P \ {id}
  OBVIOUS
<1>3. CASE id \in Predecessors(adj, t)
  <2>1. id \in P
    BY <1>3
  <2>2. Cardinality(P \ {id}) = Cardinality(P) - 1
    BY <1>1, <2>1, FS_RemoveElement
  <2> QED
    BY <1>2, <1>3, <2>2
<1>4. CASE id \notin Predecessors(adj, t)
  <2>1. P \ {id} = P
    BY <1>4
  <2> QED
    BY <1>1, <1>2, <1>4, <2>1
<1> QED
  BY <1>3, <1>4

LEMMA PendingPositive ==
    ASSUME DepTypeOK, PendingExact, NEW t \in Known,
           NEW id \in Predecessors(successors, t), id \notin completed
    PROVE  pending[t] > 0
<1>1. IsFiniteSet(Predecessors(successors, t) \ completed)
  BY PredecessorsFinite DEF DepTypeOK, Known
<1>2. Predecessors(successors, t) \ completed # {}
  OBVIOUS
<1>3. Cardinality(Predecessors(successors, t) \ completed) # 0
  BY <1>1, <1>2, FS_EmptySet
<1> QED
  BY <1>3 DEF PendingExact, DepTypeOK

LEMMA CompletedPreserves ==
    ASSUME DepInv, NEW id \in Ids, MarkCompleted(id)
    PROVE  DepInv'
<1>1. CASE UNCHANGED depVars
  BY <1>1 DEF depVars, DepInv, DepTypeOK, PendingExact, VerdictsDisjoint,
              SuccessorsDecided, BlockedHasCause, Known, Terminal
<1>2. CASE id \notin Terminal /\ ~ UNCHANGED depVars
  <2>1. /\ completed' = completed \cup {id}
        /\ pending' = [t \in Known |->
              IF t \in SuccessorsOf(id) /\ pending[t] > 0
              THEN pending[t] - 1 ELSE pending[t]]
        /\ successors' = successors /\ failed' = failed /\ blocked' = blocked
    BY <1>2 DEF MarkCompleted
  <2>2. DepTypeOK'
    BY <2>1 DEF DepInv, DepTypeOK, Known, Terminal
  <2>3. PendingExact'
    <3> SUFFICES ASSUME NEW t \in Known
                 PROVE  pending'[t] =
                          Cardinality(Predecessors(successors, t) \ (completed \cup {id}))
      BY <2>1 DEF PendingExact, Known
    <3>1. id \notin completed
      BY <1>2 DEF Terminal
    <3>2. id \in Predecessors(successors, t) <=> t \in SuccessorsOf(id)
      BY DEF Predecessors, SuccessorsOf, Known
    <3>3. id \in Predecessors(successors, t) => pending[t] > 0
      BY <3>1, PendingPositive DEF DepInv
    <3>4. pending'[t] = pending[t]
            - (IF id \in Predecessors(successors, t) THEN 1 ELSE 0)
      BY <2>1, <3>2, <3>3 DEF DepInv, DepTypeOK
    <3>5. DOMAIN successors \subseteq Ids
      BY DEF DepInv, DepTypeOK, Known
    <3>6. pending[t] = Cardinality(Predecessors(successors, t) \ completed)
      BY DEF DepInv, PendingExact
    <3> QED
      BY <3>1, <3>4, <3>5, <3>6, OneLessPending
  <2>4. VerdictsDisjoint'
    BY <1>2, <2>1 DEF DepInv, VerdictsDisjoint, Terminal
  <2>5. SuccessorsDecided' /\ BlockedHasCause'
    BY <2>1 DEF DepInv, SuccessorsDecided, BlockedHasCause, Known, Terminal
  <2> QED
    BY <2>1, <2>2, <2>3, <2>4, <2>5 DEF DepInv
<1> QED
  BY <1>1, <1>2 DEF MarkCompleted

(* The tasks mark_failed blocks: no edge leads from id or from one of them *)
(* to an open task that is not one of them.                                *)
LEMMA NewlyBlockedClosed ==
    ASSUME NEW id, id \notin Terminal
    PROVE  \A s \in NewlyBlocked(id) \cup {id} :
               SuccessorsOf(s) \cap Open(id) \subseteq NewlyBlocked(id)
  BY DEF NewlyBlocked

(* And they are no more than that search reaches: each has a predecessor   *)
(* among them, or id itself.  Otherwise they would stay closed without it. *)
LEMMA NewlyBlockedCaused ==
    ASSUME NEW id, id \notin Terminal, NEW t \in NewlyBlocked(id)
    PROVE  \E s \in NewlyBlocked(id) \cup {id} : t \in SuccessorsOf(s)
<1> SUFFICES ASSUME \A s \in NewlyBlocked(id) \cup {id} : t \notin SuccessorsOf(s)
             PROVE  FALSE
  OBVIOUS
<1> DEFINE C == NewlyBlocked(id) \ {t}
<1>1. C \in SUBSET Open(id)
  BY DEF NewlyBlocked
<1>2. \A s \in C \cup {id} : SuccessorsOf(s) \cap Open(id) \subseteq C
  BY NewlyBlockedClosed
<1>3. t \in C
  <2> HIDE DEF C
  <2> QED
    BY <1>1, <1>2 DEF NewlyBlocked
<1> QED
  BY <1>3

LEMMA FailedPreserves ==
    ASSUME DepInv, NEW id \in Ids, MarkFailed(id)
    PROVE  DepInv'
<1>1. CASE UNCHANGED depVars
  BY <1>1 DEF depVars, DepInv, DepTypeOK, PendingExact, VerdictsDisjoint,
              SuccessorsDecided, BlockedHasCause, Known, Terminal
<1>2. CASE id \notin Terminal /\ ~ UNCHANGED depVars
  <2>1. /\ failed' = failed \cup {id}
        /\ blocked' = blocked \cup NewlyBlocked(id)
        /\ successors' = successors /\ pending' = pending
        /\ completed' = completed
    BY <1>2 DEF MarkFailed
  <2>2. NewlyBlocked(id) \subseteq Known \ (Terminal \cup {id})
    BY DEF NewlyBlocked, Open
  <2>3. DepTypeOK'
    BY <2>1, <2>2 DEF DepInv, DepTypeOK, Known, Terminal
  <2>4. PendingExact'
    BY <2>1 DEF DepInv, PendingExact, Known
  <2>5. VerdictsDisjoint'
    BY <1>2, <2>1, <2>2 DEF DepInv, VerdictsDisjoint, Terminal
  <2>6. SuccessorsDecided'
    <3> SUFFICES ASSUME NEW s \in (failed' \cup blocked') \cap Known,
                        NEW t \in successors[s]
                 PROVE  t \in Terminal'
      BY <2>1 DEF SuccessorsDecided, Known
    <3>1. t \in Known
      BY DEF DepInv, DepTypeOK
    <3>2. CASE s \in failed \cup blocked
      BY <2>1, <3>2 DEF DepInv, SuccessorsDecided, Terminal
    <3>3. CASE s \in NewlyBlocked(id) \cup {id}
      <4>1. t \in SuccessorsOf(s)
        BY DEF SuccessorsOf
      <4>2. t \in Open(id) => t \in NewlyBlocked(id)
        BY <1>2, <3>3, <4>1, NewlyBlockedClosed
      <4> QED
        BY <2>1, <3>1, <4>2 DEF Open, Terminal
    <3> QED
      BY <2>1, <3>2, <3>3
  <2>7. BlockedHasCause'
    <3> SUFFICES ASSUME NEW t \in blocked'
                 PROVE  \E s \in failed' \cup blocked' :
                            s \in Predecessors(successors, t)
      BY <2>1 DEF BlockedHasCause
    <3>1. CASE t \in blocked
      BY <2>1, <3>1 DEF DepInv, BlockedHasCause
    <3>2. CASE t \in NewlyBlocked(id)
      <4>1. PICK s \in NewlyBlocked(id) \cup {id} : t \in SuccessorsOf(s)
        BY <1>2, <3>2, NewlyBlockedCaused
      <4>2. s \in Predecessors(successors, t)
        BY <4>1 DEF SuccessorsOf, Predecessors, Known
      <4> QED
        BY <2>1, <4>1, <4>2
    <3> QED
      BY <2>1, <3>1, <3>2
  <2> QED
    BY <2>1, <2>3, <2>4, <2>5, <2>6, <2>7 DEF DepInv
<1> QED
  BY <1>1, <1>2 DEF MarkFailed

(* A fresh snapshot of an acyclic graph satisfies the invariant. *)
LEMMA SnapshotSatisfies ==
    ASSUME NEW T \in SUBSET Ids, NEW adj \in [T -> SUBSET T], IsAcyclic(adj)
    PROVE  InitFromGraph(adj) => DepInv'
<1> SUFFICES ASSUME InitFromGraph(adj) PROVE DepInv'
  OBVIOUS
<1>1. /\ successors' = adj
      /\ pending' = [t \in T |-> Cardinality(Predecessors(adj, t))]
      /\ completed' = {} /\ failed' = {} /\ blocked' = {}
  BY DEF InitFromGraph
<1>2. \A t \in T : /\ Cardinality(Predecessors(adj, t)) \in Nat
                   /\ Predecessors(adj, t) \ {} = Predecessors(adj, t)
  BY InDegreeCounted
<1>3. DepTypeOK'
  BY <1>1, <1>2 DEF DepTypeOK, Known, Terminal
<1>4. PendingExact'
  BY <1>1, <1>2 DEF PendingExact, Known
<1>5. VerdictsDisjoint' /\ SuccessorsDecided' /\ BlockedHasCause'
  BY <1>1 DEF VerdictsDisjoint, SuccessorsDecided, BlockedHasCause
<1> QED
  BY <1>1, <1>3, <1>4, <1>5 DEF DepInv

LEMMA DepInitHolds == DepInit => DepInv
<1> SUFFICES ASSUME NEW T \in SUBSET Ids,
                    successors \in [T -> SUBSET T], IsAcyclic(successors),
                    pending = [t \in T |-> Cardinality(Predecessors(successors, t))],
                    completed = {}, failed = {}, blocked = {}
             PROVE  DepInv
  BY DEF DepInit
<1>1. \A t \in T : /\ Cardinality(Predecessors(successors, t)) \in Nat
                   /\ Predecessors(successors, t) \ {} = Predecessors(successors, t)
  <2>1. DOMAIN successors \subseteq Ids
    OBVIOUS
  <2> QED
    BY <2>1, InDegreeCounted
<1>2. DepTypeOK
  BY <1>1 DEF DepTypeOK, Known, Terminal
<1>3. PendingExact
  BY <1>1 DEF PendingExact, Known
<1>4. VerdictsDisjoint /\ SuccessorsDecided /\ BlockedHasCause
  BY DEF VerdictsDisjoint, SuccessorsDecided, BlockedHasCause
<1> QED
  BY <1>2, <1>3, <1>4 DEF DepInv

LEMMA DepStep == DepInv /\ [DepNext]_depVars => DepInv'
<1> SUFFICES ASSUME DepInv, [DepNext]_depVars PROVE DepInv'
  OBVIOUS
<1>1. CASE \E id \in Ids : MarkCompleted(id)
  BY <1>1, CompletedPreserves
<1>2. CASE \E id \in Ids : MarkFailed(id)
  BY <1>2, FailedPreserves
<1>3. CASE Reset
  <2>1. /\ Known \in SUBSET Ids
        /\ successors \in [Known -> SUBSET Known]
        /\ IsAcyclic(successors)
    BY DEF DepInv, DepTypeOK
  <2> QED
    BY <1>3, <2>1, SnapshotSatisfies DEF Reset
<1>4. CASE UNCHANGED depVars
  BY <1>4 DEF depVars, DepInv, DepTypeOK, PendingExact, VerdictsDisjoint,
              SuccessorsDecided, BlockedHasCause, Known, Terminal
<1> QED
  BY <1>1, <1>2, <1>3, <1>4 DEF DepNext

LEMMA DepInvariant == DepSpec => []DepInv
  BY DepInitHolds, DepStep, PTL DEF DepSpec

(* The types of the manager, its counters among the naturals: the unsigned *)
(* counter is never taken below zero.                                      *)
THEOREM DepTypeCorrect == DepSpec => []DepTypeOK
  BY DepInvariant, PTL DEF DepInv

(* The counter of each task is the number of its uncompleted predecessors, *)
(* for every sequence of calls, repeated and out of order ones included.   *)
THEOREM DepPendingExact == DepSpec => []PendingExact
  BY DepInvariant, PTL DEF DepInv

(* completed_, failed_ and blocked_ never share a task, whatever verdicts  *)
(* are reported of it.                                                     *)
THEOREM DepVerdictsDisjoint == DepSpec => []VerdictsDisjoint
  BY DepInvariant, PTL DEF DepInv

(* The failed and the blocked tasks are a set that no edge leaves but to a *)
(* completed task, so a path that meets no completed task stays in it.     *)
LEMMA InvFailureClosure == DepInv => FailureClosure
<1> SUFFICES ASSUME DepInv, NEW id \in failed, NEW t \in OpenDescendants(id)
             PROVE  t \in failed \cup blocked
  BY DEF FailureClosure
<1> DEFINE C == (failed \cup blocked) \cap Known
<1>1. C \in SUBSET (Known \ completed)
  BY DEF DepInv, VerdictsDisjoint
<1>2. \A s \in C \cup {id} : SuccessorsOf(s) \ completed \subseteq C
  <2> SUFFICES ASSUME NEW s \in C \cup {id}, NEW u \in SuccessorsOf(s),
                      u \notin completed
               PROVE  u \in C
    OBVIOUS
  <2>1. s \in (failed \cup blocked) \cap Known /\ u \in successors[s]
    BY DEF SuccessorsOf
  <2>2. u \in Known
    BY <2>1 DEF DepInv, DepTypeOK
  <2>3. u \in Terminal
    BY <2>1 DEF DepInv, SuccessorsDecided
  <2> QED
    BY <2>2, <2>3 DEF Terminal
<1>3. t \in C
  <2> HIDE DEF C
  <2> QED
    BY <1>1, <1>2 DEF OpenDescendants
<1> QED
  BY <1>3

(* mark_failed leaves open no task that a path without completed tasks     *)
(* leads to from a failed one, in any order of any calls ...               *)
THEOREM DepFailureClosure == DepSpec => []FailureClosure
  BY InvFailureClosure, DepInvariant, PTL

(* ... and blocks nothing else. *)
THEOREM DepBlockedHasCause == DepSpec => []BlockedHasCause
  BY DepInvariant, PTL DEF DepInv

(* A ready task has all its predecessors completed: its counter is 0, the  *)
(* cardinality of the finite set of those that are not.                    *)
LEMMA ReadyHasNoPending ==
    ASSUME DepInv, NEW t \in Known, pending[t] = 0
    PROVE  Predecessors(successors, t) \subseteq completed
<1>1. DOMAIN successors \subseteq Ids
  BY DEF DepInv, DepTypeOK, Known
<1>2. IsFiniteSet(Predecessors(successors, t) \ completed)
  BY <1>1, PredecessorsFinite
<1>3. Cardinality(Predecessors(successors, t) \ completed) = 0
  BY DEF DepInv, PendingExact
<1>4. Predecessors(successors, t) \ completed = {}
  BY <1>2, <1>3, FS_EmptySet
<1> QED
  BY <1>4

THEOREM DepReadyIsSound == DepSpec => []ReadyIsSound
<1>1. DepInv => ReadyIsSound
  BY ReadyHasNoPending DEF ReadyIsSound, ReadyTasks
<1> QED
  BY <1>1, DepInvariant, PTL

(* Work never runs out early: among the tasks without a verdict one has no *)
(* predecessor among them, its predecessors all completed (had one failed  *)
(* or been blocked, the task would be blocked), so its counter is 0.       *)
LEMMA InvNoStall == DepInv => NoStall
<1> SUFFICES ASSUME DepInv, ~ (Known \subseteq Terminal)
             PROVE  ReadyTasks # {}
  BY DEF NoStall
<1> DEFINE U == Known \ Terminal
<1>1. PICK t \in U : \A s \in U : t \notin successors[s]
  <2>1. U \in SUBSET DOMAIN successors /\ U # {}
    BY DEF Known
  <2> QED
    BY <2>1 DEF DepInv, IsAcyclic
<1>2. Predecessors(successors, t) \ completed = {}
  <2> SUFFICES ASSUME NEW s \in Predecessors(successors, t), s \notin completed
               PROVE  FALSE
    OBVIOUS
  <2>1. s \in Known /\ t \in successors[s]
    BY DEF Predecessors, Known
  <2>2. s \in Terminal
    BY <1>1, <2>1
  <2>3. s \in failed \cup blocked
    BY <2>2 DEF Terminal
  <2> QED
    BY <1>1, <2>1, <2>3 DEF DepInv, SuccessorsDecided
<1>3. pending[t] = 0
  BY <1>1, <1>2, FS_EmptySet DEF DepInv, PendingExact
<1> QED
  BY <1>1, <1>3 DEF ReadyTasks

THEOREM DepNoStall == DepSpec => []NoStall
  BY InvNoStall, DepInvariant, PTL
==============================================================================
