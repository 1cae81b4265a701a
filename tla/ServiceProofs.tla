--------------------------- MODULE ServiceProofs ---------------------------
(***************************************************************************)
(* The safety of the components nothing waits for, for every value of      *)
(* their constants: where a policy sends a task, who owns an allocation,   *)
(* how often a handler is called after its subscription ended, that a      *)
(* subscription lives as long as its guard, that a profile is that of its  *)
(* run, and what bounds a back-off.  The two pools are in PoolProofs.      *)
(***************************************************************************)
EXTENDS MCServices, PoolProofs

-----------------------------------------------------------------------------
(* SchedulingPolicy.  What a policy answers fits the task, whatever the    *)
(* loads and the turn: the device asked for, or one it has a function for. *)
Suits(t, d) == Has(t, d) \/ t.preferred = d \/ ~ (t.cpu \/ t.gpu)

LEMMA EveryPolicyFits ==
    ASSUME NEW t \in Profile, NEW gpuIdler \in BOOLEAN, NEW turn \in BOOLEAN
    PROVE  /\ SelectDevice(t, gpuIdler, turn) \in {"CPU", "GPU"}
           /\ Suits(t, SelectDevice(t, gpuIdler, turn))
<1>1. t.preferred \in {"CPU", "GPU", "Any"} /\ t.cpu \in BOOLEAN /\ t.gpu \in BOOLEAN
  BY DEF Profile
<1>2. CASE policy = "GPU-First"
  BY <1>1, <1>2 DEF SelectDevice, GpuFirst, Suits, Has
<1>3. CASE policy = "CPU-First"
  BY <1>1, <1>3 DEF SelectDevice, CpuFirst, Suits, Has
<1>4. CASE policy = "Round-Robin"
  BY <1>1, <1>4 DEF SelectDevice, RoundRobin, Suits, Has
<1>5. CASE policy \notin {"GPU-First", "CPU-First", "Round-Robin"}
  BY <1>1, <1>5 DEF SelectDevice, Balanced, Suits, Has
<1> QED
  BY <1>2, <1>3, <1>4, <1>5

PolicyInv == PolicyTypeOK /\ DeviceFits

LEMMA PolicyStep == PolicyInv /\ [PolicyNext]_policyVars => PolicyInv'
<1> SUFFICES ASSUME PolicyInv, [PolicyNext]_policyVars
             PROVE  PolicyInv'
  OBVIOUS
<1> USE DEF PolicyInv
<1>1. CASE Prioritize
  <2>1. Cardinality(PolicyTasks) \in Nat
    BY PolicyAssumption, FS_CardinalityType DEF PolicyAssumption
  <2>2. queue' \in Seq(PolicyTasks)
    BY <1>1, <2>1 DEF Prioritize
  <2> QED
    BY <1>1, <2>2 DEF Prioritize, PolicyTypeOK, DeviceFits
<1>2. ASSUME NEW gpuIdler \in BOOLEAN, SendNext(gpuIdler)
      PROVE  PolicyInv'
  <2>1. Head(queue) \in PolicyTasks /\ queue' \in Seq(PolicyTasks)
    BY <1>2 DEF SendNext, PolicyTypeOK
  <2> DEFINE t == profile[Head(queue)]
             d == SelectDevice(t, gpuIdler, useGpu')
  <2>2. t \in Profile
    BY <2>1 DEF PolicyTypeOK
  <2>3. useGpu' \in BOOLEAN
    BY <1>2 DEF SendNext, PolicyTypeOK
  <2>4. d \in {"CPU", "GPU"} /\ Suits(t, d)
    BY <2>2, <2>3, EveryPolicyFits
  <2>5. sent' = sent \cup {[task |-> Head(queue), device |-> d]}
    BY <1>2 DEF SendNext
  <2>6. UNCHANGED <<policy, profile>>
    BY <1>2 DEF SendNext
  <2>7. PolicyTypeOK'
    BY <2>1, <2>3, <2>4, <2>5, <2>6 DEF PolicyTypeOK
  <2>8. DeviceFits'
    <3> SUFFICES ASSUME NEW s \in sent'
                 PROVE  Suits(profile[s.task], s.device)
      BY <2>6 DEF DeviceFits, Suits
    <3>1. CASE s \in sent
      BY <3>1 DEF DeviceFits, Suits
    <3>2. CASE s = [task |-> Head(queue), device |-> d]
      BY <3>2, <2>4
    <3> QED
      BY <2>5, <3>1, <3>2
  <2> QED
    BY <2>7, <2>8
<1>3. ASSUME NEW p \in Policies, NextBatch(p)
      PROVE  PolicyInv'
  BY <1>3 DEF NextBatch, PolicyTypeOK, DeviceFits
<1>4. CASE UNCHANGED policyVars
  BY <1>4 DEF policyVars, PolicyTypeOK, DeviceFits
<1> QED
  BY <1>1, <1>2, <1>3, <1>4 DEF PolicyNext

LEMMA PolicyInvInit == PolicyInit => PolicyInv
<1> SUFFICES ASSUME PolicyInit
             PROVE  PolicyInv
  OBVIOUS
<1>1. queue \in Seq(PolicyTasks)
  BY DEF PolicyInit
<1> QED
  BY <1>1 DEF PolicyInit, PolicyInv, PolicyTypeOK, DeviceFits

(* No policy sends a task that has a function for one device to the other, *)
(* unless the task asked for it: for every batch, every load and every     *)
(* sequence of policies.                                                   *)
THEOREM DeviceAlwaysFits == PolicySpec => []DeviceFits
<1>1. PolicyInit => PolicyInv
  BY PolicyInvInit
<1>2. PolicyInv => DeviceFits
  BY DEF PolicyInv
<1> QED
  BY <1>1, <1>2, PolicyStep, PTL DEF PolicySpec
-----------------------------------------------------------------------------
(* CudaBuffers.  An address is allocated exactly when an object of that    *)
(* kind points to it, and no two of a kind point to the same.              *)
Points(w, k, a) == kindOf[w] = k /\ wrapper[w] = a

AllocatedIffOwned ==
    \A k \in MemoryKinds, a \in Addresses :
        a \in allocations[k] <=> \E w \in Wrappers : Points(w, k, a)
NoneShared ==
    \A k \in MemoryKinds, a \in Addresses, v, w \in Wrappers :
        Points(v, k, a) /\ Points(w, k, a) => v = w
BufferInv == BufferTypeOK /\ AllocatedIffOwned /\ NoneShared

(* A move: w has what other had, other has nothing, and what w had is      *)
(* freed; a new object had nothing.                                        *)
LEMMA MoveKeepsOwners ==
    ASSUME BufferInv, NEW w \in Wrappers, NEW other \in Wrappers, w # other,
           kindOf[w] = kindOf[other], kindOf' = kindOf,
           wrapper' = [wrapper EXCEPT ![w] = wrapper[other], ![other] = NoPtr],
           allocations' \in [MemoryKinds -> SUBSET Addresses],
           \A k \in MemoryKinds :
               allocations'[k] = IF k = kindOf[w] THEN allocations[k] \ {wrapper[w]}
                                 ELSE allocations[k]
    PROVE  BufferInv'
<1> USE DEF BufferInv
<1>1. \A k \in MemoryKinds, a \in Addresses :
          /\ Points(w, k, a)' <=> Points(other, k, a)
          /\ ~ Points(other, k, a)'
          /\ \A v \in Wrappers \ {w, other} : Points(v, k, a)' <=> Points(v, k, a)
  BY BufferAssumption DEF Points, BufferTypeOK, BufferAssumption
<1>2. BufferTypeOK'
  BY DEF BufferTypeOK
<1>3. NoneShared'
  BY <1>1 DEF NoneShared
<1>4. ASSUME NEW k \in MemoryKinds, NEW a \in Addresses
      PROVE  a \in allocations'[k] <=> \E v \in Wrappers : Points(v, k, a)'
  <2>1. a \in allocations'[k] <=> a \in allocations[k] /\ ~ Points(w, k, a)
    BY DEF Points
  <2>2. a \in allocations[k] <=> \E v \in Wrappers : Points(v, k, a)
    BY DEF AllocatedIffOwned
  <2>3. Points(w, k, a) => \A v \in Wrappers \ {w} : ~ Points(v, k, a)
    BY DEF NoneShared
  <2> QED
    BY <1>1, <2>1, <2>2, <2>3
<1> QED
  BY <1>2, <1>3, <1>4 DEF AllocatedIffOwned

LEMMA BufferStep == BufferInv /\ [BufferNext]_bufferVars => BufferInv'
<1> SUFFICES ASSUME BufferInv, [BufferNext]_bufferVars
             PROVE  BufferInv'
  OBVIOUS
<1> USE DEF BufferInv
<1>1. ASSUME NEW w \in Wrappers, Construct(w)
      PROVE  BufferInv'
  <2>1. PICK b \in Addresses \ Live :
            /\ allocations' = [allocations EXCEPT ![kindOf[w]] = @ \cup {b}]
            /\ wrapper' = [wrapper EXCEPT ![w] = b]
    BY <1>1 DEF Construct
  <2>2. kindOf' = kindOf /\ wrapper[w] = NoObject
    BY <1>1 DEF Construct, Constructed
  <2>3. BufferTypeOK'
    BY <2>1, <2>2 DEF BufferTypeOK
  <2>4. \A k \in MemoryKinds, a \in Addresses :
            /\ Points(w, k, a)' <=> k = kindOf[w] /\ a = b
            /\ ~ Points(w, k, a)
            /\ \A v \in Wrappers \ {w} : Points(v, k, a)' <=> Points(v, k, a)
    BY <2>1, <2>2, BufferAssumption DEF Points, BufferTypeOK, BufferAssumption
  <2>5. \A k \in MemoryKinds, v \in Wrappers : ~ Points(v, k, b)
    BY <2>1 DEF AllocatedIffOwned, Live, MemoryKinds
  <2>6. \A k \in MemoryKinds, a \in Addresses :
            a \in allocations'[k] <=> a \in allocations[k] \/ (k = kindOf[w] /\ a = b)
    BY <2>1 DEF BufferTypeOK
  <2>7. AllocatedIffOwned'
    BY <2>4, <2>6 DEF AllocatedIffOwned
  <2>8. NoneShared'
    BY <2>4, <2>5 DEF NoneShared
  <2> QED
    BY <2>3, <2>7, <2>8
<1>2. ASSUME NEW w \in Wrappers, Destroy(w)
      PROVE  BufferInv'
  <2>1. kindOf' = kindOf /\ wrapper' = [wrapper EXCEPT ![w] = NoObject]
    BY <1>2 DEF Destroy
  <2>2. \A k \in MemoryKinds, a \in Addresses :
            a \in allocations'[k] <=> a \in allocations[k] /\ ~ Points(w, k, a)
    BY <1>2, BufferAssumption DEF Destroy, Without, Points, BufferTypeOK, BufferAssumption
  <2>3. BufferTypeOK'
    BY <1>2, <2>1 DEF Destroy, Without, BufferTypeOK
  <2>4. \A k \in MemoryKinds, a \in Addresses :
            /\ ~ Points(w, k, a)'
            /\ \A v \in Wrappers \ {w} : Points(v, k, a)' <=> Points(v, k, a)
    BY <2>1, BufferAssumption DEF Points, BufferTypeOK, BufferAssumption
  <2>5. AllocatedIffOwned'
    <3> SUFFICES ASSUME NEW k \in MemoryKinds, NEW a \in Addresses
                 PROVE  a \in allocations'[k] <=> \E v \in Wrappers : Points(v, k, a)'
      BY DEF AllocatedIffOwned
    <3>1. Points(w, k, a) => \A v \in Wrappers \ {w} : ~ Points(v, k, a)
      BY DEF NoneShared
    <3> QED
      BY <2>2, <2>4, <3>1 DEF AllocatedIffOwned
  <2>6. NoneShared'
    BY <2>4 DEF NoneShared
  <2> QED
    BY <2>3, <2>5, <2>6
<1>3. ASSUME NEW w \in Wrappers, NEW other \in Wrappers, MoveConstruct(w, other)
      PROVE  BufferInv'
  <2>1. \A k \in MemoryKinds : wrapper[w] \notin allocations[k]
    BY <1>3, BufferAssumption DEF MoveConstruct, Constructed, BufferTypeOK, BufferAssumption
  <2>2. w # other /\ allocations' = allocations
    BY <1>3 DEF MoveConstruct
  <2> QED
    BY <1>3, <2>1, <2>2, MoveKeepsOwners DEF MoveConstruct, BufferTypeOK
<1>4. ASSUME NEW w \in Wrappers, NEW other \in Wrappers, MoveAssign(w, other)
      PROVE  BufferInv'
  <2>1. /\ allocations' \in [MemoryKinds -> SUBSET Addresses]
        /\ \A k \in MemoryKinds :
               allocations'[k] = IF k = kindOf[w] THEN allocations[k] \ {wrapper[w]}
                                 ELSE allocations[k]
    BY <1>4 DEF MoveAssign, Without, BufferTypeOK
  <2> QED
    BY <1>4, <2>1, MoveKeepsOwners DEF MoveAssign
<1>5. CASE UNCHANGED bufferVars
  BY <1>5 DEF bufferVars, BufferTypeOK, AllocatedIffOwned, NoneShared, Points
<1> QED
  BY <1>1, <1>2, <1>3, <1>4, <1>5 DEF BufferNext

(* No two owners of a kind share an address, so there are as many.         *)
LEMMA OwnersCounted ==
    ASSUME BufferInv
    PROVE  OwnersMatch
<1> SUFFICES ASSUME NEW k \in MemoryKinds,
                    NEW owners, owners = {w \in Wrappers : kindOf[w] = k /\ wrapper[w] \in Addresses}
             PROVE  /\ allocations[k] = {wrapper[w] : w \in owners}
                    /\ Cardinality(owners) = Cardinality(allocations[k])
  BY DEF OwnersMatch
<1>1. allocations[k] = {wrapper[w] : w \in owners}
  <2>1. allocations[k] \subseteq Addresses
    BY DEF BufferInv, BufferTypeOK
  <2>2. ASSUME NEW a \in allocations[k]
        PROVE  \E w \in owners : wrapper[w] = a
    BY <2>1 DEF BufferInv, AllocatedIffOwned, Points
  <2>3. ASSUME NEW w \in owners
        PROVE  wrapper[w] \in allocations[k]
    BY DEF BufferInv, AllocatedIffOwned, Points
  <2> QED
    BY <2>2, <2>3
<1>2. IsFiniteSet(owners)
  BY BufferAssumption, FS_Subset DEF BufferAssumption
<1> DEFINE f == [w \in owners |-> wrapper[w]]
<1>3. \A v, w \in owners : wrapper[v] = wrapper[w] => v = w
  BY DEF BufferInv, NoneShared, Points
<1>4. f \in Bijection(owners, allocations[k])
  BY <1>1, <1>3, Fun_IsBij
<1>5. ExistsBijection(owners, allocations[k])
  BY <1>4, Fun_ExistsBij
<1> QED
  BY <1>1, <1>2, <1>5, FS_Bijection

LEMMA BufferInvInit == BufferInit => BufferInv
BY BufferAssumption
   DEF BufferInit, BufferInv, BufferTypeOK, AllocatedIffOwned, NoneShared, Points,
       BufferAssumption

(* Every allocation of the runtime has one owner and every owner its       *)
(* allocation, over any sequence of constructions, moves and destructions. *)
THEOREM OwnersAlwaysMatch == BufferSpec => []OwnersMatch
<1> QED
  BY BufferInvInit, BufferStep, OwnersCounted, PTL DEF BufferSpec
-----------------------------------------------------------------------------
(* EventSystem.  A subscription that is alive, or is yet to be made, was   *)
(* never called late; and each late call was made by a publisher that no   *)
(* longer has the handler in its copy, and gets it there only while the    *)
(* subscription is alive.                                                  *)
Alive(x) == x[2] \in IdsOf(x[1])
Pairs == Systems \X SubscriptionIds
CallersDone(x) == {p \in Publishers : x \notin calls[p]}

FreshIds ==
    \A x \in Pairs : x[2] >= nextId[x[1]] =>
        ~ Alive(x) /\ \A p \in Publishers : x \notin calls[p]
NotLateWhileAlive ==
    \A x \in Pairs : Alive(x) \/ x[2] >= nextId[x[1]] => late[x] = 0
LateByThoseDone == \A x \in Pairs : late[x] <= Cardinality(CallersDone(x))
EventTypes ==
    /\ nextId \in [Systems -> 1 .. MaxId + 1]
    /\ handlers \in [Systems -> SUBSET Handler]
    /\ calls \in [Publishers -> SUBSET Pairs]
    /\ late \in [Pairs -> Nat]
LateInv == EventTypes /\ FreshIds /\ NotLateWhileAlive /\ LateByThoseDone

(* The publishers whose copy does not hold x are finite in number, and one *)
(* more of them is one more.                                               *)
LEMMA CallersFinite ==
    ASSUME NEW x
    PROVE  /\ IsFiniteSet(CallersDone(x))
           /\ Cardinality(CallersDone(x)) \in Nat
           /\ Cardinality(CallersDone(x)) <= Cardinality(Publishers)
           /\ Cardinality(Publishers) \in Nat
<1>1. CallersDone(x) \subseteq Publishers /\ IsFiniteSet(Publishers)
  BY EventAssumption DEF CallersDone, EventAssumption
<1> QED
  BY <1>1, FS_Subset, FS_CardinalityType

(* One subscription: the next id, and one handler under it.                *)
LEMMA SubscribeAddsOne ==
    ASSUME nextId \in [Systems -> 1 .. MaxId + 1], NEW s \in Systems,
           NEW t \in Types \cup {AllTypes}, NEW c \in Scopes, Subscribe(s, t, c)
    PROVE  /\ nextId[s] \in SubscriptionIds
           /\ nextId' = [nextId EXCEPT ![s] = @ + 1]
           /\ handlers' = [handlers EXCEPT ![s] =
                  @ \cup {[id |-> nextId[s], type |-> t, owner |-> "client"]}]
<1>1. nextId[s] \in SubscriptionIds /\ nextId' = [nextId EXCEPT ![s] = @ + 1]
  BY EventAssumption DEF Subscribe, AddHandlers, SubscriptionIds, EventAssumption
<1>2. {[id |-> nextId[s] + i - 1, type |-> <<t>>[i], owner |-> "client"] : i \in DOMAIN <<t>>}
          = {[id |-> nextId[s], type |-> t, owner |-> "client"]}
  <2>1. DOMAIN <<t>> = {1} /\ <<t>>[1] = t
    OBVIOUS
  <2>2. nextId[s] + 1 - 1 = nextId[s]
    BY <1>1 DEF SubscriptionIds
  <2> QED
    BY <2>1, <2>2
<1> QED
  BY <1>1, <1>2 DEF Subscribe, AddHandlers

(* What ends subscriptions and starts none, and calls nobody.              *)
LEMMA EndingIsHarmless ==
    ASSUME LateInv, handlers' \in [Systems -> SUBSET Handler],
           \A s \in Systems : handlers'[s] \subseteq handlers[s],
           UNCHANGED <<nextId, calls, late>>
    PROVE  LateInv'
<1>1. \A x \in Pairs : Alive(x)' => Alive(x)
  BY DEF Alive, IdsOf, Pairs
<1>2. \A x \in Pairs : CallersDone(x)' = CallersDone(x)
  BY DEF CallersDone
<1> QED
  BY <1>1, <1>2 DEF LateInv, EventTypes, FreshIds, NotLateWhileAlive, LateByThoseDone

LEMMA EventStep == LateInv /\ [EventNext]_eventVars => LateInv'
<1> SUFFICES ASSUME LateInv, [EventNext]_eventVars
             PROVE  LateInv'
  OBVIOUS
<1> USE DEF LateInv
<1>1. ASSUME NEW s \in Systems, NEW t \in Types \cup {AllTypes}, NEW c \in Scopes,
             Subscribe(s, t, c)
      PROVE  LateInv'
  <2> DEFINE h == [id |-> nextId[s], type |-> t, owner |-> "client"]
  <2>1. /\ nextId[s] \in SubscriptionIds
        /\ nextId' = [nextId EXCEPT ![s] = @ + 1]
    BY <1>1, SubscribeAddsOne DEF EventTypes
  <2>2. handlers' = [handlers EXCEPT ![s] = @ \cup {h}]
    BY <1>1, SubscribeAddsOne DEF EventTypes
  <2>3. h \in Handler
    BY <2>1 DEF Handler
  <2>4. calls' = calls /\ late' = late
    BY <1>1 DEF Subscribe
  <2>5. EventTypes'
    BY <2>1, <2>2, <2>3, <2>4, EventAssumption DEF EventTypes, SubscriptionIds, EventAssumption
  <2>6. \A x \in Pairs : Alive(x)' <=> Alive(x) \/ (x[1] = s /\ x[2] = nextId[s])
    <3> SUFFICES ASSUME NEW r \in Systems, NEW i \in SubscriptionIds
                 PROVE  i \in IdsOf(r)' <=> i \in IdsOf(r) \/ (r = s /\ i = nextId[s])
      BY DEF Alive, Pairs
    <3>1. handlers'[r] = IF r = s THEN handlers[r] \cup {h} ELSE handlers[r]
      BY <2>2 DEF EventTypes
    <3>2. h.id = nextId[s]
      OBVIOUS
    <3> QED
      BY <3>1, <3>2 DEF IdsOf
  <2>7. \A x \in Pairs : x[1] \in Systems /\ x[2] \in Nat
    BY DEF Pairs, SubscriptionIds
  <2>8. \A x \in Pairs : x[2] >= nextId'[x[1]] =>
            x[2] >= nextId[x[1]] /\ ~ (x[1] = s /\ x[2] = nextId[s])
    BY <2>1, <2>7 DEF EventTypes, SubscriptionIds
  <2>9. FreshIds'
    BY <2>4, <2>6, <2>8 DEF FreshIds
  <2>10. NotLateWhileAlive'
    BY <2>1, <2>4, <2>6, <2>8 DEF NotLateWhileAlive, SubscriptionIds
  <2>11. LateByThoseDone'
    BY <2>4 DEF LateByThoseDone, CallersDone
  <2> QED
    BY <2>5, <2>9, <2>10, <2>11
<1>2. ASSUME NEW c \in Scopes, NEW d \in Scopes, MoveScope(c, d)
      PROVE  LateInv'
  BY <1>2, EndingIsHarmless DEF MoveScope, EventTypes
<1>3. ASSUME NEW c \in Scopes, EndScope(c)
      PROVE  LateInv'
  <2>1. /\ handlers' \in [Systems -> SUBSET Handler]
        /\ \A s \in Systems : handlers'[s] \subseteq handlers[s]
    BY <1>3 DEF EndScope, Remaining, EventTypes
  <2> QED
    BY <1>3, <2>1, EndingIsHarmless DEF EndScope
<1>4. ASSUME NEW s \in Systems, ClearHandlers(s)
      PROVE  LateInv'
  <2>1. /\ handlers' \in [Systems -> SUBSET Handler]
        /\ \A r \in Systems : handlers'[r] \subseteq handlers[r]
    BY <1>4 DEF ClearHandlers, EventTypes
  <2> QED
    BY <1>4, <2>1, EndingIsHarmless DEF ClearHandlers
<1>5. ASSUME NEW p \in Publishers, NEW s \in Systems, NEW t \in Types, Publish(p, s, t)
      PROVE  LateInv'
  <2> DEFINE copy == {<<s, h.id>> : h \in Listeners(s, t)}
  <2>1. /\ calls' = [calls EXCEPT ![p] = copy] /\ calls[p] = {}
        /\ UNCHANGED <<handlers, nextId, late>>
    BY <1>5 DEF Publish
  <2>2. \A x \in copy : x \in Pairs /\ Alive(x)
    BY DEF Listeners, Alive, IdsOf, Pairs, EventTypes, Handler
  <2>3. EventTypes'
    BY <2>1, <2>2 DEF EventTypes
  <2>4. \A x \in Pairs : Alive(x)' = Alive(x)
    BY <2>1 DEF Alive, IdsOf
  <2>5. FreshIds'
    BY <2>1, <2>2, <2>4 DEF FreshIds, EventTypes
  <2>6. NotLateWhileAlive'
    BY <2>1, <2>4 DEF NotLateWhileAlive
  <2>7. LateByThoseDone'
    <3> SUFFICES ASSUME NEW x \in Pairs
                 PROVE  late[x] <= Cardinality(CallersDone(x)')
      BY <2>1 DEF LateByThoseDone
    <3>1. CASE x \in copy
      <4>1. late[x] = 0
        BY <3>1, <2>2 DEF NotLateWhileAlive
      <4>2. IsFiniteSet(CallersDone(x)')
        BY EventAssumption, FS_Subset DEF CallersDone, EventAssumption
      <4>3. Cardinality(CallersDone(x)') \in Nat
        BY <4>2, FS_CardinalityType
      <4> QED
        BY <4>1, <4>3
    <3>2. CASE x \notin copy
      <4>1. CallersDone(x)' = CallersDone(x)
        BY <3>2, <2>1 DEF CallersDone, EventTypes
      <4> QED
        BY <4>1 DEF LateByThoseDone
    <3> QED
      BY <3>1, <3>2
  <2> QED
    BY <2>3, <2>5, <2>6, <2>7
<1>6. ASSUME NEW p \in Publishers, NEW y \in calls[p], CallHandler(p, y)
      PROVE  LateInv'
  <2>1. /\ calls' = [calls EXCEPT ![p] = @ \ {y}]
        /\ late' = [late EXCEPT ![y] = IF Alive(y) THEN @ ELSE @ + 1]
        /\ UNCHANGED <<handlers, nextId>>
    BY <1>6 DEF CallHandler, Alive
  <2>2. y \in Pairs
    BY DEF EventTypes
  <2>3. EventTypes'
    BY <2>1, <2>2 DEF EventTypes
  <2>4. \A x \in Pairs : Alive(x)' = Alive(x)
    BY <2>1 DEF Alive, IdsOf
  <2>5. FreshIds'
    BY <2>1, <2>4 DEF FreshIds, EventTypes
  <2>6. NotLateWhileAlive'
    <3>1. ~ y[2] >= nextId[y[1]]
      BY <2>2 DEF FreshIds
    <3> QED
      BY <2>1, <2>2, <2>4, <3>1 DEF NotLateWhileAlive, EventTypes
  <2>7. LateByThoseDone'
    <3> SUFFICES ASSUME NEW x \in Pairs
                 PROVE  late'[x] <= Cardinality(CallersDone(x)')
      BY DEF LateByThoseDone
    <3>1. CASE x = y
      <4>1. CallersDone(x)' = CallersDone(x) \cup {p} /\ p \notin CallersDone(x)
        BY <3>1, <2>1 DEF CallersDone, EventTypes
      <4>2. Cardinality(CallersDone(x)') = Cardinality(CallersDone(x)) + 1
        BY <4>1, CallersFinite, FS_AddElement
      <4>3. late'[x] <= late[x] + 1 /\ late[x] \in Nat
        BY <2>1, <2>2, <3>1 DEF EventTypes
      <4>4. late[x] <= Cardinality(CallersDone(x)) /\ late'[x] \in Nat
        BY <2>3 DEF LateByThoseDone, EventTypes
      <4> QED
        BY <4>2, <4>3, <4>4, CallersFinite
    <3>2. CASE x # y
      <4>1. CallersDone(x)' = CallersDone(x)
        BY <3>2, <2>1 DEF CallersDone, EventTypes
      <4> QED
        BY <4>1, <2>1, <3>2 DEF LateByThoseDone, EventTypes
    <3> QED
      BY <3>1, <3>2
  <2> QED
    BY <2>3, <2>5, <2>6, <2>7
<1>7. CASE UNCHANGED eventVars
  BY <1>7, EndingIsHarmless DEF eventVars, EventTypes
<1> QED
  BY <1>1, <1>2, <1>3, <1>4, <1>5, <1>6, <1>7 DEF EventNext

LEMMA LateInvInit == EventInit => LateInv
<1> SUFFICES ASSUME EventInit
             PROVE  LateInv
  OBVIOUS
<1>1. EventTypes
  BY EventAssumption DEF EventInit, EventTypes, Pairs, EventAssumption
<1>2. \A x \in Pairs : ~ Alive(x) /\ late[x] = 0
  BY DEF EventInit, Alive, IdsOf, Pairs
<1>3. FreshIds /\ NotLateWhileAlive
  BY <1>2 DEF FreshIds, NotLateWhileAlive, EventInit
<1>4. LateByThoseDone
  BY <1>2, CallersFinite DEF LateByThoseDone
<1> QED
  BY <1>1, <1>3, <1>4 DEF LateInv

(* After its subscription ended a handler is called by each publisher at   *)
(* most once, for any number of publishers, systems and subscriptions.     *)
THEOREM LateCallsAlwaysBounded == EventSpec => []LateCallsBounded
<1>1. EventInit => LateInv
  BY LateInvInit
<1>2. LateInv => LateCallsBounded
  <2> SUFFICES ASSUME LateInv, NEW x \in Pairs
               PROVE  late[x] <= Cardinality(Publishers)
    BY DEF LateCallsBounded, Pairs
  <2>1. late[x] <= Cardinality(CallersDone(x)) /\ late[x] \in Nat
    BY DEF LateInv, LateByThoseDone, EventTypes
  <2> QED
    BY <2>1, CallersFinite
<1> QED
  BY <1>1, <1>2, EventStep, PTL DEF EventSpec
-----------------------------------------------------------------------------
(* The guards.  An id is subscribed exactly when some guard holds it and   *)
(* clear() did not end it, no two guards hold the same, and ids to come    *)
(* are held and ended by nobody.                                           *)
Holds(c, s, i) == scope[c].system = s /\ scope[c].id = i
Ended(s, i) == <<s, i>> \in wiped

SubscribedIffHeld ==
    \A s \in Systems, i \in SubscriptionIds :
        i \in IdsOf(s) <=> ~ Ended(s, i) /\ \E c \in Scopes : Holds(c, s, i)
OneGuardEach ==
    \A s \in Systems, i \in SubscriptionIds, c, d \in Scopes :
        Holds(c, s, i) /\ Holds(d, s, i) => c = d
IdsToCome ==
    \A s \in Systems, i \in SubscriptionIds :
        i >= nextId[s] => ~ Ended(s, i) /\ \A c \in Scopes : ~ Holds(c, s, i)
AllClients == \A s \in Systems : \A h \in handlers[s] : h.owner = "client"
GuardTypes ==
    /\ nextId \in [Systems -> 1 .. MaxId + 1]
    /\ handlers \in [Systems -> SUBSET Handler]
    /\ scope \in [Scopes -> [live : BOOLEAN, system : Systems, id : 0 .. MaxId]]
    /\ \A c \in Scopes : ~ scope[c].live => scope[c].id = 0
GuardInv == GuardTypes /\ SubscribedIffHeld /\ OneGuardEach /\ IdsToCome /\ AllClients

LEMMA GuardStep == GuardInv /\ [EventNext]_eventVars => GuardInv'
<1> SUFFICES ASSUME GuardInv, [EventNext]_eventVars
             PROVE  GuardInv'
  OBVIOUS
<1> USE DEF GuardInv
<1>0. 0 \notin SubscriptionIds /\ SubscriptionIds \subseteq Nat /\ MaxId \in Nat /\ 0 \in 0 .. MaxId
  BY EventAssumption DEF SubscriptionIds, EventAssumption
<1>1. ASSUME NEW s \in Systems, NEW t \in Types \cup {AllTypes}, NEW c \in Scopes,
             Subscribe(s, t, c)
      PROVE  GuardInv'
  <2> DEFINE h == [id |-> nextId[s], type |-> t, owner |-> "client"]
             n == nextId[s]
  <2>1. /\ n \in SubscriptionIds
        /\ nextId' = [nextId EXCEPT ![s] = @ + 1]
        /\ handlers' = [handlers EXCEPT ![s] = @ \cup {h}]
    BY <1>1, SubscribeAddsOne DEF GuardTypes
  <2>2. /\ scope' = [scope EXCEPT ![c] = [live |-> TRUE, system |-> s, id |-> n]]
        /\ wiped' = wiped /\ scope[c].id = 0
    BY <1>1 DEF Subscribe, GuardTypes
  <2>3. h \in Handler
    BY <2>1 DEF Handler
  <2>4. GuardTypes'
    <3>1. nextId' \in [Systems -> 1 .. MaxId + 1]
      BY <2>1, <1>0 DEF GuardTypes, SubscriptionIds
    <3>2. handlers' \in [Systems -> SUBSET Handler]
      BY <2>1, <2>3 DEF GuardTypes
    <3>3. [live |-> TRUE, system |-> s, id |-> n]
              \in [live : BOOLEAN, system : Systems, id : 0 .. MaxId]
      BY <2>1, <1>0 DEF SubscriptionIds
    <3> QED
      BY <3>1, <3>2, <3>3, <2>2 DEF GuardTypes
  <2>5. \A r \in Systems, i \in SubscriptionIds :
            i \in IdsOf(r)' <=> i \in IdsOf(r) \/ (r = s /\ i = n)
    <3> SUFFICES ASSUME NEW r \in Systems, NEW i \in SubscriptionIds
                 PROVE  i \in IdsOf(r)' <=> i \in IdsOf(r) \/ (r = s /\ i = n)
      OBVIOUS
    <3>1. handlers'[r] = IF r = s THEN handlers[r] \cup {h} ELSE handlers[r]
      BY <2>1 DEF GuardTypes
    <3>2. h.id = n
      OBVIOUS
    <3> QED
      BY <3>1, <3>2 DEF IdsOf
  <2>6. \A r \in Systems, i \in SubscriptionIds :
            /\ Holds(c, r, i)' <=> r = s /\ i = n
            /\ ~ Holds(c, r, i)
            /\ \A d \in Scopes \ {c} : Holds(d, r, i)' <=> Holds(d, r, i)
            /\ Ended(r, i)' <=> Ended(r, i)
    BY <2>2, <1>0 DEF Holds, Ended, GuardTypes
  <2>7. ~ Ended(s, n) /\ \A d \in Scopes : ~ Holds(d, s, n)
    <3>1. n \in SubscriptionIds /\ n = nextId[s]
      BY <2>1
    <3>2. n \in Nat
      BY <3>1, <1>0
    <3> HIDE DEF n
    <3>3. n >= nextId[s]
      BY <3>1, <3>2
    <3> QED
      BY <3>1, <3>3 DEF IdsToCome
  <2>8. SubscribedIffHeld'
    BY <2>5, <2>6, <2>7 DEF SubscribedIffHeld
  <2>9. OneGuardEach'
    BY <2>6, <2>7 DEF OneGuardEach
  <2>10. IdsToCome'
    <3>1. \A r \in Systems, i \in SubscriptionIds :
              i >= nextId'[r] => i >= nextId[r] /\ ~ (r = s /\ i = n)
      BY <2>1, <1>0 DEF GuardTypes
    <3> QED
      BY <3>1, <2>6 DEF IdsToCome
  <2>11. AllClients'
    BY <2>1 DEF AllClients, GuardTypes
  <2> QED
    BY <2>4, <2>8, <2>9, <2>10, <2>11
<1>2. ASSUME NEW c \in Scopes, NEW d \in Scopes, MoveScope(c, d)
      PROVE  GuardInv'
  <2>1. /\ c # d /\ scope[d].id = 0
        /\ scope' = [scope EXCEPT ![d] = scope[c], ![c].id = 0]
        /\ UNCHANGED <<handlers, nextId, wiped>>
    BY <1>2 DEF MoveScope, GuardTypes
  <2>2. GuardTypes'
    BY <1>2, <2>1, <1>0 DEF GuardTypes, MoveScope
  <2>3. \A r \in Systems, i \in SubscriptionIds :
            /\ Holds(d, r, i)' <=> Holds(c, r, i)
            /\ ~ Holds(c, r, i)' /\ ~ Holds(d, r, i)
            /\ \A e \in Scopes \ {c, d} : Holds(e, r, i)' <=> Holds(e, r, i)
            /\ Ended(r, i)' <=> Ended(r, i)
    BY <2>1, <1>0 DEF Holds, Ended, GuardTypes
  <2>4. SubscribedIffHeld'
    BY <2>1, <2>3 DEF SubscribedIffHeld, IdsOf
  <2>5. OneGuardEach' /\ IdsToCome'
    BY <2>1, <2>3 DEF OneGuardEach, IdsToCome
  <2> QED
    BY <2>1, <2>2, <2>4, <2>5 DEF AllClients
<1>3. ASSUME NEW c \in Scopes, EndScope(c)
      PROVE  GuardInv'
  <2> DEFINE s == scope[c].system
             n == scope[c].id
  <2>1. /\ s \in Systems
        /\ handlers' = [handlers EXCEPT ![s] = {h \in handlers[s] : h.id \notin {n}}]
        /\ scope' = [scope EXCEPT ![c] = NoScope]
        /\ UNCHANGED <<nextId, wiped>>
    BY <1>3 DEF EndScope, Remaining, GuardTypes
  <2>2. NoScope \in [live : BOOLEAN, system : Systems, id : 0 .. MaxId]
        /\ NoScope.id = 0
    BY EventAssumption, <1>0 DEF NoScope, EventAssumption
  <2>3. GuardTypes'
    BY <2>1, <2>2 DEF GuardTypes
  <2>4. \A r \in Systems, i \in SubscriptionIds :
            i \in IdsOf(r)' <=> i \in IdsOf(r) /\ ~ Holds(c, r, i)
    BY <2>1 DEF IdsOf, Holds, GuardTypes
  <2>5. \A r \in Systems, i \in SubscriptionIds :
            /\ ~ Holds(c, r, i)'
            /\ \A e \in Scopes \ {c} : Holds(e, r, i)' <=> Holds(e, r, i)
            /\ Ended(r, i)' <=> Ended(r, i)
    BY <2>1, <2>2, <1>0 DEF Holds, Ended, GuardTypes
  <2>6. SubscribedIffHeld'
    <3> SUFFICES ASSUME NEW r \in Systems, NEW i \in SubscriptionIds
                 PROVE  i \in IdsOf(r)' <=> ~ Ended(r, i)' /\ \E e \in Scopes : Holds(e, r, i)'
      BY DEF SubscribedIffHeld
    <3>1. Holds(c, r, i) => \A e \in Scopes \ {c} : ~ Holds(e, r, i)
      BY DEF OneGuardEach
    <3> QED
      BY <2>4, <2>5, <3>1 DEF SubscribedIffHeld
  <2>7. OneGuardEach' /\ IdsToCome'
    BY <2>1, <2>5 DEF OneGuardEach, IdsToCome
  <2>8. AllClients'
    BY <2>1 DEF AllClients, GuardTypes
  <2> QED
    BY <2>3, <2>6, <2>7, <2>8
<1>4. ASSUME NEW s \in Systems, ClearHandlers(s)
      PROVE  GuardInv'
  <2>1. /\ handlers' = [handlers EXCEPT ![s] = {}]
        /\ wiped' = wiped \cup ({s} \X IdsOf(s))
        /\ UNCHANGED <<nextId, scope>>
    BY <1>4 DEF ClearHandlers
  <2>2. GuardTypes' /\ AllClients'
    BY <2>1 DEF GuardTypes, AllClients
  <2>3. \A r \in Systems, i \in SubscriptionIds :
            /\ i \in IdsOf(r)' <=> i \in IdsOf(r) /\ r # s
            /\ Ended(r, i)' <=> Ended(r, i) \/ (r = s /\ i \in IdsOf(r))
            /\ \A c \in Scopes : Holds(c, r, i)' <=> Holds(c, r, i)
    BY <2>1 DEF IdsOf, Ended, Holds, GuardTypes
  <2>4. SubscribedIffHeld' /\ OneGuardEach'
    BY <2>3 DEF SubscribedIffHeld, OneGuardEach
  <2>5. IdsToCome'
    BY <2>1, <2>3 DEF IdsToCome, SubscribedIffHeld
  <2> QED
    BY <2>2, <2>4, <2>5
<1>5. ASSUME UNCHANGED <<handlers, nextId, scope, wiped>>
      PROVE  GuardInv'
  BY <1>5 DEF GuardTypes, SubscribedIffHeld, OneGuardEach, IdsToCome, AllClients,
              Holds, Ended, IdsOf
<1>6. ASSUME NEW p \in Publishers, NEW s \in Systems, NEW t \in Types, Publish(p, s, t)
      PROVE  GuardInv'
  BY <1>6, <1>5 DEF Publish
<1>7. ASSUME NEW p \in Publishers, NEW x \in calls[p], CallHandler(p, x)
      PROVE  GuardInv'
  BY <1>7, <1>5 DEF CallHandler
<1>8. CASE UNCHANGED eventVars
  BY <1>8, <1>5 DEF eventVars
<1> QED
  BY <1>1, <1>2, <1>3, <1>4, <1>6, <1>7, <1>8 DEF EventNext

LEMMA GuardInvGivesGuardsHold == GuardInv => GuardsHold
<1> SUFFICES ASSUME GuardInv
             PROVE  GuardsHold
  OBVIOUS
<1> USE DEF GuardInv
<1>1. ASSUME NEW c \in Scopes, NEW d \in Scopes, scope[c].id # 0,
             scope[c].system = scope[d].system, scope[c].id = scope[d].id
      PROVE  c = d
  BY <1>1 DEF GuardTypes, OneGuardEach, Holds, SubscriptionIds
<1>2. ASSUME NEW s \in Systems,
             NEW held, held = {scope[c].id : c \in {d \in Scopes : scope[d].system = s}} \ {0},
             NEW ended, ended = {x \in SubscriptionIds : <<s, x>> \in wiped}
      PROVE  held \ ended = {h.id : h \in {k \in handlers[s] : k.owner = "client"}}
  <2>1. held \subseteq SubscriptionIds
    BY <1>2 DEF GuardTypes, SubscriptionIds
  <2>2. {k \in handlers[s] : k.owner = "client"} = handlers[s]
    BY DEF AllClients
  <2>3. IdsOf(s) \subseteq SubscriptionIds
    BY DEF IdsOf, GuardTypes, Handler
  <2>4. \A i \in SubscriptionIds : i \in held <=> \E c \in Scopes : Holds(c, s, i)
    BY <1>2, EventAssumption DEF Holds, SubscriptionIds, EventAssumption
  <2>5. \A i \in SubscriptionIds : i \in held \ ended <=> i \in IdsOf(s)
    BY <1>2, <2>4 DEF SubscribedIffHeld, Ended
  <2>6. held \ ended = IdsOf(s)
    BY <2>1, <2>3, <2>5
  <2> QED
    BY <2>2, <2>6 DEF IdsOf
<1> QED
  BY <1>1, <1>2 DEF GuardsHold

LEMMA GuardInvInit == EventInit => GuardInv
<1> SUFFICES ASSUME EventInit
             PROVE  GuardInv
  OBVIOUS
<1>1. NoScope \in [live : BOOLEAN, system : Systems, id : 0 .. MaxId]
      /\ NoScope.id = 0 /\ 0 \notin SubscriptionIds
  BY EventAssumption DEF NoScope, EventAssumption, SubscriptionIds
<1>2. GuardTypes
  BY <1>1, EventAssumption DEF EventInit, GuardTypes, EventAssumption
<1>3. \A s \in Systems, i \in SubscriptionIds :
          i \notin IdsOf(s) /\ ~ Ended(s, i) /\ \A c \in Scopes : ~ Holds(c, s, i)
  BY <1>1 DEF EventInit, IdsOf, Ended, Holds
<1> QED
  BY <1>2, <1>3
     DEF EventInit, GuardInv, SubscribedIffHeld, OneGuardEach, IdsToCome, AllClients

(* A subscription lives as long as its guard, over any moves, and no two   *)
(* guards end the same one: for any number of systems and guards.          *)
THEOREM GuardsAlwaysHold == EventSpec => []GuardsHold
<1> QED
  BY GuardInvInit, GuardStep, GuardInvGivesGuardsHold, PTL DEF EventSpec
-----------------------------------------------------------------------------
(* The profiler.  A fold that applies the same idempotent step once per    *)
(* element of a set makes that step once, if there is an element at all.   *)
LEMMA ImageFinite ==
    ASSUME NEW S, IsFiniteSet(S), NEW R, NEW f \in [S -> R]
    PROVE  IsFiniteSet({f[x] : x \in S})
<1> PICK T : T = {f[x] : x \in S}
  OBVIOUS
<1>1. f \in Surjection(S, T)
  BY DEF Surjection
<1> QED
  BY <1>1, FS_Surjection

(* What a profiler's variable can hold. *)
Prof == [active : BOOLEAN, pending : [Tasks -> RunNumbers],
         records : Seq([end : Ends, begun : RunNumbers])]

LEMMA RunsCounted ==
    MaxRuns \in Nat /\ RunNumbers \subseteq Nat /\ 0 \in RunNumbers
BY ProfilerAssumption DEF ProfilerAssumption, RunNumbers

TaskEvents == {"TaskStarted"} \cup Verdicts
GraphEvents == {"GraphStarted", "GraphCompleted"}
CalledFor(type, t) == type \in GraphEvents \/ (type \in TaskEvents /\ t \in Tasks)

(* Hearing an event twice is hearing it once: this is why handlers left    *)
(* over in Home do no harm.                                                *)
LEMMA HeardTwice ==
    ASSUME NEW p \in Prof, run.number \in RunNumbers, NEW type, NEW t, CalledFor(type, t)
    PROVE  OnEvent(OnEvent(p, type, t), type, t) = OnEvent(p, type, t)
<1>1. CASE type = "GraphStarted"
  BY <1>1 DEF OnEvent, Start, Prof, Verdicts
<1>2. CASE type = "GraphCompleted"
  BY <1>2 DEF OnEvent, Prof, Verdicts
<1>3. CASE type = "TaskStarted"
  <2>1. \A q : OnEvent(q, type, t) = RecordTaskStart(q, t)
    BY <1>3 DEF OnEvent, Verdicts
  <2>2. t \in Tasks
    BY <1>3 DEF CalledFor, GraphEvents
  <2>3. CASE p.active
    <3>1. PICK q : q = RecordTaskStart(p, t)
      OBVIOUS
    <3>2. q = [p EXCEPT !.pending[t] = run.number]
      BY <3>1, <2>3 DEF RecordTaskStart
    <3>3. q.active /\ RecordTaskStart(q, t) = [q EXCEPT !.pending[t] = run.number]
      BY <3>2, <2>3 DEF RecordTaskStart, Prof
    <3>4. [q EXCEPT !.pending[t] = run.number] = q
      BY <3>2 DEF Prof
    <3> QED
      BY <2>1, <3>1, <3>3, <3>4
  <2>4. CASE ~ p.active
    BY <2>1, <2>4 DEF RecordTaskStart
  <2> QED
    BY <2>3, <2>4
<1>4. CASE type \in Verdicts
  <2>1. \A q : OnEvent(q, type, t) = RecordTaskEnd(q, t, type)
    BY <1>4 DEF OnEvent, Verdicts
  <2>2. t \in Tasks
    BY <1>4 DEF CalledFor, GraphEvents, Verdicts
  <2>3. CASE p.active /\ Pending(p, t)
    <3>1. PICK q : q = RecordTaskEnd(p, t, type)
      OBVIOUS
    <3>2. q = [p EXCEPT !.records = Append(@, RecordOf(t, type, p.pending[t])),
                        !.pending[t] = 0]
      BY <3>1, <2>3 DEF RecordTaskEnd
    <3>3. ~ Pending(q, t)
      BY <3>2, <2>2 DEF Pending, Prof
    <3> QED
      BY <2>1, <3>1, <3>3 DEF RecordTaskEnd
  <2>4. CASE ~ (p.active /\ Pending(p, t))
    BY <2>1, <2>4 DEF RecordTaskEnd
  <2> QED
    BY <2>3, <2>4
<1> QED
  BY <1>1, <1>2, <1>3, <1>4 DEF CalledFor, GraphEvents, TaskEvents

Tells(type, t, S, iter) ==
    iter = [s \in SUBSET S |->
               IF s = {} THEN prof ELSE OnEvent(iter[s \ {FirstOf(s)}], type, t)]

LEMMA TellsUnfold ==
    ASSUME NEW type, NEW t, NEW S, NEW iter, Tells(type, t, S, iter), NEW s \in SUBSET S
    PROVE  /\ s = {} => iter[s] = prof
           /\ s # {} => iter[s] = OnEvent(iter[s \ {FirstOf(s)}], type, t)
BY DEF Tells

ToldBy(S, type, t) == FoldSet(LAMBDA h, p : OnEvent(p, type, t), prof, S)

LEMMA ToldOnce ==
    ASSUME prof \in Prof, run.number \in RunNumbers, NEW type, NEW t, CalledFor(type, t),
           NEW S, IsFiniteSet(S)
    PROVE  ToldBy(S, type, t) = IF S = {} THEN prof ELSE OnEvent(prof, type, t)
<1> DEFINE once == OnEvent(prof, type, t)
           told == [s \in SUBSET S |-> IF s = {} THEN prof ELSE once]
<1>1. OnEvent(once, type, t) = once
  BY HeardTwice
<1> HIDE DEF once
<1>2. Tells(type, t, S, told)
  <2>1. ASSUME NEW s \in SUBSET S, s # {}
        PROVE  OnEvent(told[s \ {FirstOf(s)}], type, t) = once
    <3>1. s \ {FirstOf(s)} \in SUBSET S
      OBVIOUS
    <3>2. told[s \ {FirstOf(s)}] = prof \/ told[s \ {FirstOf(s)}] = once
      BY <3>1
    <3> QED
      BY <3>2, <1>1 DEF once
  <2>2. told = [s \in SUBSET S |->
                   IF s = {} THEN prof ELSE OnEvent(told[s \ {FirstOf(s)}], type, t)]
    BY <2>1, Zenon
  <2> QED
    BY <2>2 DEF Tells
<1>3. ASSUME NEW iter, Tells(type, t, S, iter)
      PROVE  iter[S] = told[S]
  <2> DEFINE F == {s \in SUBSET S : iter[s] # told[s]}
  <2>2. F = {}
    <3> SUFFICES ASSUME F # {}
                 PROVE  FALSE
      OBVIOUS
    <3>1. F \in SUBSET SUBSET S /\ \A s : s \in F <=> s \in SUBSET S /\ iter[s] # told[s]
      OBVIOUS
    <3> HIDE DEF F
    <3>2. PICK s \in F : \A r \in F : ~ (r \subseteq s /\ r # s)
      BY <3>1, SmallestOf
    <3>3. s \in SUBSET S /\ iter[s] # told[s]
      BY <3>1
    <3> HIDE DEF told
    <3>4. CASE s = {}
      <4>1. iter[s] = prof
        BY <3>3, <3>4, <1>3, TellsUnfold
      <4>2. told[s] = prof
        BY <3>3, <3>4, <1>2, TellsUnfold
      <4> QED
        BY <3>3, <4>1, <4>2
    <3>5. CASE s # {}
      <4> PICK r : r = s \ {FirstOf(s)}
        OBVIOUS
      <4>1. r \in SUBSET S /\ r \subseteq s /\ r # s
        BY <3>3, <3>5, FirstIsMember
      <4>2. iter[r] = told[r]
        BY <4>1, <3>1, <3>2
      <4>3. iter[s] = OnEvent(iter[r], type, t)
        BY <3>3, <3>5, <1>3, <4>1, TellsUnfold
      <4>4. told[s] = OnEvent(told[r], type, t)
        BY <3>3, <3>5, <1>2, <4>1, TellsUnfold
      <4> QED
        BY <3>3, <4>2, <4>3, <4>4
    <3> QED
      BY <3>4, <3>5
  <2> QED
    BY <2>2
<1>4. PICK iter : Tells(type, t, S, iter) /\ ToldBy(S, type, t) = iter[S]
  <2> DEFINE P(it) == it = [s \in SUBSET S |->
                 IF s = {} THEN prof ELSE OnEvent(it[s \ {FirstOf(s)}], type, t)]
  <2>1. ToldBy(S, type, t) = (CHOOSE it : P(it))[S]
    BY DEF ToldBy, FoldSet, MapThenFoldSet, FirstOf
  <2>2. \A it : P(it) <=> Tells(type, t, S, it)
    BY DEF Tells
  <2> HIDE DEF P
  <2>3. P(CHOOSE it : P(it))
    BY <1>2, <2>2
  <2> QED
    BY <2>1, <2>2, <2>3
<1> QED
  BY <1>3, <1>4 DEF once

(* A profiler subscribes to seven types at once, so ids come in batches of *)
(* seven: a batch is alive as a whole or not at all, and the place of an   *)
(* id in its batch says which type the handler is for.                     *)
SevenTypes == <<"GraphStarted", "GraphCompleted", "TaskStarted", "TaskCompleted",
                "TaskFailed", "MemoryAllocated", "MemoryFreed">>
Batch(i) == (i - 1) \div 7
Place(i) == ((i - 1) % 7) + 1
Whole(I) == \A i \in I, j \in Nat \ {0} : Batch(j) = Batch(i) => j \in I

NewIds(s) == {nextId[s] + i - 1 : i \in 1 .. 7}

BatchesWhole ==
    /\ subIds \in Seq(SubscriptionIds) /\ Whole(Range(subIds))
    /\ \A s \in Systems :
           /\ nextId[s] % 7 = 1
           /\ Whole(IdsOf(s))
           /\ IsFiniteSet(handlers[s])
           /\ \A h \in handlers[s] : h.owner = "profiler" /\ h.type = SevenTypes[Place(h.id)]

LEMMA BatchArithmetic ==
    ASSUME NEW n \in Nat, n % 7 = 1
    PROVE  /\ \A i \in 1 .. 7 : n + i - 1 \in Nat \ {0} /\ Place(n + i - 1) = i
           /\ \A i \in 1 .. 7, j \in Nat \ {0} :
                  Batch(j) = Batch(n + i - 1) => \E k \in 1 .. 7 : j = n + k - 1
           /\ (n + 7) % 7 = 1
<1>1. n >= 1 /\ (n - 1) % 7 = 0
  OBVIOUS
<1>2. \A i \in 1 .. 7 : n + i - 1 \in Nat \ {0} /\ Place(n + i - 1) = i
  BY <1>1 DEF Place
<1>3. ASSUME NEW i \in 1 .. 7, NEW j \in Nat \ {0}, Batch(j) = Batch(n + i - 1)
      PROVE  \E k \in 1 .. 7 : j = n + k - 1
  <2>1. Batch(n + i - 1) = (n - 1) \div 7
    BY <1>1 DEF Batch
  <2>2. j - n + 1 \in 1 .. 7
    BY <1>1, <1>3, <2>1 DEF Batch
  <2> QED
    BY <2>2
<1>4. (n + 7) % 7 = 1
  OBVIOUS
<1> QED
  BY <1>2, <1>3, <1>4

LEMMA NewIdsWhole ==
    ASSUME NEW s \in Systems, nextId[s] \in Nat, nextId[s] % 7 = 1
    PROVE  NewIds(s) \subseteq Nat \ {0} /\ Whole(NewIds(s))
BY BatchArithmetic DEF NewIds, Whole

LEMMA WholeJoined ==
    ASSUME NEW I, NEW J, Whole(I), Whole(J)
    PROVE  Whole(I \cup J)
BY DEF Whole

LEMMA WholeCut ==
    ASSUME NEW I \in SUBSET (Nat \ {0}), NEW J \in SUBSET (Nat \ {0}), Whole(I), Whole(J)
    PROVE  Whole(I \ J)
<1> SUFFICES ASSUME NEW i \in I \ J, NEW j \in Nat \ {0}, Batch(j) = Batch(i), j \in J
             PROVE  FALSE
  BY DEF Whole
<1>1. Batch(i) = Batch(j) /\ i \in Nat \ {0}
  OBVIOUS
<1> QED
  BY <1>1 DEF Whole

LEMMA PlaceInBatch ==
    ASSUME NEW b \in Nat, NEW k \in 1 .. 7
    PROVE  7 * b + k \in Nat \ {0} /\ Batch(7 * b + k) = b /\ Place(7 * b + k) = k
<1>1. (7 * b + k - 1) \div 7 = b /\ (7 * b + k - 1) % 7 = k - 1
  OBVIOUS
<1> QED
  BY <1>1 DEF Batch, Place

(* If anybody is subscribed in a system, every type of the seven is.       *)
LEMMA EveryTypeHeard ==
    ASSUME EventTypeOK, BatchesWhole, NEW s \in Systems, handlers[s] # {}, NEW k \in 1 .. 7
    PROVE  \E h \in handlers[s] : h.type = SevenTypes[k]
<1>1. PICK g \in handlers[s] : TRUE
  OBVIOUS
<1>2. g.id \in Nat \ {0} /\ g.id \in IdsOf(s)
  BY DEF EventTypeOK, Handler, SubscriptionIds, IdsOf
<1> PICK b, j : b = Batch(g.id) /\ j = 7 * b + k
  OBVIOUS
<1>3. b \in Nat
  BY <1>2 DEF Batch
<1>4. j \in Nat \ {0} /\ Batch(j) = b /\ Place(j) = k
  BY <1>3, PlaceInBatch
<1>5. j \in IdsOf(s)
  BY <1>2, <1>4 DEF BatchesWhole, Whole
<1>6. PICK h \in handlers[s] : h.id = j
  BY <1>5 DEF IdsOf
<1> QED
  BY <1>4, <1>6 DEF BatchesWhole

LEMMA RangeOfConcat ==
    ASSUME NEW S, NEW p \in Seq(S), NEW q \in Seq(S)
    PROVE  Range(p \o q) = Range(p) \cup Range(q)
<1> PICK m, n, pq : m = Len(p) /\ n = Len(q) /\ pq = p \o q
  OBVIOUS
<1>1. /\ m \in Nat /\ n \in Nat
      /\ DOMAIN p = 1 .. m /\ DOMAIN q = 1 .. n /\ DOMAIN pq = 1 .. m + n
      /\ \A i \in 1 .. m + n : pq[i] = IF i <= m THEN p[i] ELSE q[i - m]
  BY ConcatProperties
<1>2. ASSUME NEW x \in Range(pq)
      PROVE  x \in Range(p) \cup Range(q)
  <2>1. PICK i \in 1 .. m + n : x = pq[i]
    BY <1>1 DEF Range
  <2>2. CASE i <= m
    BY <1>1, <2>1, <2>2 DEF Range
  <2>3. CASE ~ i <= m
    <3>1. i - m \in 1 .. n /\ x = q[i - m]
      BY <1>1, <2>1, <2>3
    <3> QED
      BY <1>1, <3>1 DEF Range
  <2> QED
    BY <2>2, <2>3
<1>3. ASSUME NEW x \in Range(p)
      PROVE  x \in Range(pq)
  <2>1. PICK i \in 1 .. m : x = p[i]
    BY <1>1 DEF Range
  <2>2. i \in 1 .. m + n /\ pq[i] = x
    BY <1>1, <2>1
  <2> QED
    BY <1>1, <2>2 DEF Range
<1>4. ASSUME NEW x \in Range(q)
      PROVE  x \in Range(pq)
  <2>1. PICK i \in 1 .. n : x = q[i]
    BY <1>1 DEF Range
  <2>2. m + i \in 1 .. m + n /\ pq[m + i] = x
    BY <1>1, <2>1
  <2> QED
    BY <1>1, <2>2 DEF Range
<1> QED
  BY <1>2, <1>3, <1>4

(* One batch more, or the known batches fewer. *)
LEMMA SubscribeToKeeps ==
    ASSUME EventTypeOK, BatchesWhole, NEW s \in Systems, SubscribeTo(s), UNCHANGED clientVars
    PROVE  EventTypeOK' /\ BatchesWhole'
<1> PICK n : n = nextId[s]
  OBVIOUS
<1> DEFINE new(i) == [id |-> n + i - 1, type |-> SevenTypes[i], owner |-> "profiler"]
           more == {new(i) : i \in 1 .. 7}
<1>1. DOMAIN SevenTypes = 1 .. 7 /\ Len(SevenTypes) = 7 /\ SevenTypes \in Seq(Types)
  BY ProfilerAssumption DEF SevenTypes, ProfilerAssumption
<1>2. /\ n + 7 <= MaxId + 1 /\ n \in Nat /\ n % 7 = 1 /\ MaxId \in Nat
      /\ handlers' = [handlers EXCEPT ![s] = @ \cup more]
      /\ nextId' = [nextId EXCEPT ![s] = @ + 7]
      /\ subIds' = subIds \o [i \in 1 .. 7 |-> n + i - 1]
  <2>1. AddHandlers(s, SevenTypes, "profiler")
    BY DEF SubscribeTo, SevenTypes
  <2>2. n \in Nat /\ n % 7 = 1 /\ MaxId \in Nat
    BY EventAssumption DEF EventTypeOK, BatchesWhole, EventAssumption
  <2>3. subIds' = subIds \o [i \in 1 .. 7 |-> n + i - 1]
    BY DEF SubscribeTo
  <2> QED
    BY <1>1, <2>1, <2>2, <2>3 DEF AddHandlers
<1>3. \A i \in 1 .. 7 : /\ n + i - 1 \in Nat \ {0} /\ Place(n + i - 1) = i
                        /\ n + i - 1 \in SubscriptionIds /\ new(i) \in Handler
  <2>1. \A i \in 1 .. 7 : n + i - 1 \in Nat \ {0} /\ Place(n + i - 1) = i
    BY <1>2, BatchArithmetic
  <2>2. \A i \in 1 .. 7 : n + i - 1 \in SubscriptionIds
    <3> SUFFICES ASSUME NEW i \in 1 .. 7
                 PROVE  n + i - 1 \in 1 .. MaxId
      BY DEF SubscriptionIds
    <3>1. n + i - 1 \in Nat \ {0}
      BY <2>1
    <3>2. n \in Nat /\ MaxId \in Nat /\ n + 7 <= MaxId + 1
      BY <1>2
    <3>3. n + i - 1 <= MaxId
      BY <3>2
    <3> QED
      BY <3>1, <3>2, <3>3
  <2>3. \A i \in 1 .. 7 : SevenTypes[i] \in Types
    BY <1>1, ElementOfSeq
  <2> QED
    BY <2>1, <2>2, <2>3 DEF Handler
<1>4. NewIds(s) = {n + i - 1 : i \in 1 .. 7} /\ Whole(NewIds(s))
  BY <1>2, NewIdsWhole DEF NewIds
<1>5. /\ handlers'[s] = handlers[s] \cup more
      /\ \A r \in Systems \ {s} : handlers'[r] = handlers[r]
      /\ nextId'[s] = n + 7
      /\ \A r \in Systems \ {s} : nextId'[r] = nextId[r]
  BY <1>2 DEF EventTypeOK
<1>6. EventTypeOK'
  <2>1. more \subseteq Handler
    BY <1>3
  <2> HIDE DEF more
  <2>2. handlers' \in [Systems -> SUBSET Handler]
    BY <1>2, <2>1 DEF EventTypeOK
  <2>3. nextId' \in [Systems -> 1 .. MaxId + 1]
    BY <1>2 DEF EventTypeOK
  <2> QED
    BY <2>2, <2>3 DEF EventTypeOK, clientVars
<1>7. subIds' \in Seq(SubscriptionIds) /\ Range(subIds') = Range(subIds) \cup NewIds(s)
  <2> PICK ids : ids = [i \in 1 .. 7 |-> n + i - 1]
    OBVIOUS
  <2>1. ids \in Seq(SubscriptionIds) /\ Len(ids) = 7 /\ DOMAIN ids = 1 .. 7
    BY <1>3
  <2>2. subIds \in Seq(SubscriptionIds)
    BY DEF BatchesWhole
  <2>3. subIds' = subIds \o ids
    BY <1>2
  <2>4. Range(ids) = NewIds(s)
    BY <1>4, <2>1 DEF Range
  <2>5. Range(subIds \o ids) = Range(subIds) \cup Range(ids)
    <3>1. \A S : \A p, q \in Seq(S) : Range(p \o q) = Range(p) \cup Range(q)
      BY RangeOfConcat, Zenon
    <3>2. \A p, q \in Seq(SubscriptionIds) : Range(p \o q) = Range(p) \cup Range(q)
      BY <3>1
    <3>3. subIds \in Seq(SubscriptionIds) /\ ids \in Seq(SubscriptionIds)
      BY <2>1, <2>2
    <3> HIDE DEF more
    <3> QED
      BY <3>2, <3>3
  <2>6. subIds \o ids \in Seq(SubscriptionIds)
    BY <2>1, <2>2, ConcatProperties, Zenon
  <2> QED
    BY <2>3, <2>4, <2>5, <2>6
<1>8. Whole(Range(subIds'))
  <2>1. Whole(Range(subIds)) /\ Whole(NewIds(s))
    BY <1>4 DEF BatchesWhole
  <2>2. Whole(Range(subIds) \cup NewIds(s))
    BY <2>1, WholeJoined, Zenon
  <2> QED
    BY <1>7, <2>2, Zenon
<1>9. ASSUME NEW r \in Systems
      PROVE  /\ nextId'[r] % 7 = 1
             /\ Whole(IdsOf(r)')
             /\ IsFiniteSet(handlers'[r])
             /\ \A h \in handlers'[r] :
                    h.owner = "profiler" /\ h.type = SevenTypes[Place(h.id)]
  <2>1. CASE r # s
    BY <1>5, <2>1 DEF BatchesWhole, IdsOf
  <2>2. CASE r = s
    <3>1. nextId'[r] % 7 = 1
      BY <1>2, <1>5, <2>2, BatchArithmetic
    <3>2. IdsOf(r)' = IdsOf(s) \cup NewIds(s)
      <4>1. {h.id : h \in more} = NewIds(s)
        <5>1. \A i \in 1 .. 7 : new(i).id = n + i - 1 /\ new(i) \in more
          OBVIOUS
        <5>2. \A h \in more : \E i \in 1 .. 7 : h = new(i)
          OBVIOUS
        <5> HIDE DEF new, more
        <5> QED
          BY <1>4, <5>1, <5>2
      <4> HIDE DEF more
      <4> QED
        BY <1>5, <2>2, <4>1 DEF IdsOf
    <3>3. Whole(IdsOf(r)')
      <4>1. Whole(IdsOf(s)) /\ Whole(NewIds(s))
        BY <1>4 DEF BatchesWhole
      <4>2. Whole(IdsOf(s) \cup NewIds(s))
        BY <4>1, WholeJoined, Zenon
      <4> QED
        BY <3>2, <4>2, Zenon
    <3>4. IsFiniteSet(more)
      <4> PICK I, f : I = 1 .. 7 /\ f = [i \in I |-> new(i)]
        OBVIOUS
      <4>1. f \in [I -> Handler]
        BY <1>3
      <4>2. IsFiniteSet(I)
        <5>1. \A k \in Nat : IsFiniteSet(1 .. k)
          BY FS_Interval
        <5> QED
          BY <5>1
      <4>3. IsFiniteSet({f[i] : i \in I})
        <5> HIDE DEF new, more
        <5> QED
          BY <4>1, <4>2, ImageFinite
      <4>4. {f[i] : i \in I} = more
        OBVIOUS
      <4> QED
        BY <4>3, <4>4
    <3>5. IsFiniteSet(handlers'[r])
      <4> HIDE DEF more
      <4>1. IsFiniteSet(handlers[s])
        BY DEF BatchesWhole
      <4>2. IsFiniteSet(handlers[s] \cup more)
        BY <3>4, <4>1, FS_Union
      <4> QED
        BY <1>5, <2>2, <4>2
    <3>6. \A h \in more : h.owner = "profiler" /\ h.type = SevenTypes[Place(h.id)]
      BY <1>3
    <3>7. \A h \in handlers'[r] : h.owner = "profiler" /\ h.type = SevenTypes[Place(h.id)]
      <4> HIDE DEF more
      <4> QED
        BY <1>5, <2>2, <3>6 DEF BatchesWhole
    <3> QED
      BY <3>1, <3>3, <3>5, <3>7
  <2> QED
    BY <2>1, <2>2
<1> QED
  BY <1>6, <1>7, <1>8, <1>9 DEF BatchesWhole

LEMMA UnsubscribeFromKeeps ==
    ASSUME EventTypeOK, BatchesWhole, NEW s \in Systems, UnsubscribeFrom(s), UNCHANGED clientVars
    PROVE  EventTypeOK' /\ BatchesWhole'
<1>1. /\ handlers' = [handlers EXCEPT ![s] = Remaining(s, Range(subIds))]
      /\ subIds' = <<>> /\ nextId' = nextId
  BY DEF UnsubscribeFrom
<1>2. /\ handlers'[s] = {h \in handlers[s] : h.id \notin Range(subIds)}
      /\ \A r \in Systems \ {s} : handlers'[r] = handlers[r]
  BY <1>1 DEF Remaining, EventTypeOK
<1>3. EventTypeOK'
  <2>1. handlers' \in [Systems -> SUBSET Handler]
    BY <1>1 DEF Remaining, EventTypeOK
  <2> QED
    BY <1>1, <2>1 DEF EventTypeOK, clientVars
<1>4. subIds' \in Seq(SubscriptionIds) /\ Whole(Range(subIds'))
  <2>1. Range(subIds') = {}
    BY <1>1 DEF Range
  <2> QED
    BY <1>1, <2>1 DEF Whole
<1>5. ASSUME NEW r \in Systems
      PROVE  /\ nextId'[r] % 7 = 1
             /\ Whole(IdsOf(r)')
             /\ IsFiniteSet(handlers'[r])
             /\ \A h \in handlers'[r] :
                    h.owner = "profiler" /\ h.type = SevenTypes[Place(h.id)]
  <2>1. CASE r # s
    BY <1>1, <1>2, <2>1 DEF BatchesWhole, IdsOf
  <2>2. CASE r = s
    <3>1. IdsOf(r)' = IdsOf(s) \ Range(subIds)
      BY <1>2, <2>2 DEF IdsOf
    <3>2. IdsOf(s) \subseteq Nat \ {0} /\ Range(subIds) \subseteq Nat \ {0}
      <4>1. IdsOf(s) \subseteq SubscriptionIds
        BY DEF EventTypeOK, Handler, IdsOf
      <4>2. Range(subIds) \subseteq SubscriptionIds
        BY DEF BatchesWhole, Range
      <4>3. SubscriptionIds \subseteq Nat \ {0}
        BY DEF SubscriptionIds
      <4> QED
        BY <4>1, <4>2, <4>3
    <3>3. Whole(IdsOf(r)')
      BY <3>1, <3>2, WholeCut DEF BatchesWhole
    <3>4. IsFiniteSet(handlers'[r])
      BY <1>2, <2>2, FS_Subset DEF BatchesWhole
    <3> QED
      BY <1>1, <1>2, <2>2, <3>3, <3>4 DEF BatchesWhole
  <2> QED
    BY <2>1, <2>2
<1> QED
  BY <1>3, <1>4, <1>5 DEF BatchesWhole
-----------------------------------------------------------------------------
(* The records.  While a run is profiled the profiler is active and hears  *)
(* every event of it; what is still to end has the number of this run as   *)
(* its pending start, and no task has two records.                         *)
RunTyped ==
    /\ profiling \in BOOLEAN
    /\ prof \in Prof
    /\ run \in [number : RunNumbers, going : BOOLEAN, profiled : BOOLEAN,
                started : SUBSET Tasks, ended : SUBSET Ends]

Hears == profiling /\ Listening

RunHeard == run.profiled /\ run.going => prof.active /\ Hears

StartsPending ==
    run.profiled /\ run.going =>
        \A t \in run.started : HasEnded(t) \/ prof.pending[t] = run.number

RecordsPaired ==
    run.profiled =>
        /\ run.number > 0
        /\ {prof.records[i].end : i \in DOMAIN prof.records} = run.ended
        /\ \A i \in DOMAIN prof.records : prof.records[i].begun = run.number
        /\ \A i, j \in DOMAIN prof.records :
               prof.records[i].end.task = prof.records[j].end.task => i = j

ProfilerInv ==
    EventTypeOK /\ BatchesWhole /\ RunTyped /\ RunHeard /\ StartsPending /\ RecordsPaired

(* An event of the scheduler reaches the profiler once, or not at all.     *)
LEMMA Delivered ==
    ASSUME ProfilerInv, NEW type, NEW t, CalledFor(type, t), Deliver(type, t)
    PROVE  prof' = IF Hears THEN OnEvent(prof, type, t) ELSE prof
<1> PICK S : S = {h \in Listeners(Home, type) : h.owner = "profiler"}
  OBVIOUS
<1>1. prof' = IF profiling THEN ToldBy(S, type, t) ELSE prof
  BY Zenon DEF Deliver, ToldBy
<1>2. Home \in Systems
  BY ProfilerAssumption DEF ProfilerAssumption
<1>3. IsFiniteSet(S)
  BY <1>2, FS_Subset DEF ProfilerInv, BatchesWhole, Listeners
<1>4. S # {} <=> Listening
  <2>1. S # {} => Listening
    BY DEF Listening, Listeners
  <2>2. ASSUME Listening
        PROVE  S # {}
    <3>1. handlers[Home] # {}
      BY <2>2 DEF Listening
    <3>2. \E k \in 1 .. 7 : type = SevenTypes[k]
      BY DEF CalledFor, GraphEvents, TaskEvents, Verdicts, SevenTypes
    <3>3. PICK h \in handlers[Home] : h.type = type
      BY <1>2, <3>1, <3>2, EveryTypeHeard DEF ProfilerInv
    <3>4. h.owner = "profiler"
      BY <1>2 DEF ProfilerInv, BatchesWhole
    <3> QED
      BY <3>3, <3>4 DEF Listeners
  <2> QED
    BY <2>1, <2>2
<1>5. prof \in Prof /\ run.number \in RunNumbers
  BY DEF ProfilerInv, RunTyped
<1>6. ToldBy(S, type, t) = IF S = {} THEN prof ELSE OnEvent(prof, type, t)
  BY <1>3, <1>5, ToldOnce
<1> QED
  BY <1>1, <1>4, <1>6 DEF Hears

LEMMA ProfilerInvInit == ProfilerInit => ProfilerInv
<1> SUFFICES ASSUME ProfilerInit
             PROVE  ProfilerInv
  OBVIOUS
<1>1. EventTypeOK
  BY EventAssumption
     DEF ProfilerInit, EventInit, EventTypeOK, NoScope, EventAssumption
<1>2. BatchesWhole
  <2>1. Range(subIds) = {} /\ subIds \in Seq(SubscriptionIds)
    BY DEF ProfilerInit, Range
  <2>2. \A s \in Systems : handlers[s] = {} /\ nextId[s] = 1
    BY DEF ProfilerInit, EventInit
  <2>3. \A s \in Systems : nextId[s] % 7 = 1 /\ IdsOf(s) = {} /\ IsFiniteSet(handlers[s])
    BY <2>2, FS_EmptySet DEF IdsOf
  <2>4. Whole({})
    BY DEF Whole
  <2> QED
    BY <2>1, <2>2, <2>3, <2>4 DEF BatchesWhole
<1>3. RunTyped
  <2>1. /\ prof.active = FALSE /\ prof.pending \in [Tasks -> RunNumbers]
        /\ prof.records = <<>> /\ profiling = FALSE
    BY RunsCounted DEF ProfilerInit
  <2>2. <<>> \in Seq([end : Ends, begun : RunNumbers])
    BY EmptySeq
  <2>3. prof = [active |-> prof.active, pending |-> prof.pending, records |-> prof.records]
    BY DEF ProfilerInit
  <2>4. prof \in Prof
    BY <2>1, <2>2, <2>3 DEF Prof
  <2> QED
    BY <2>1, <2>4, RunsCounted DEF ProfilerInit, RunTyped
<1> QED
  BY <1>1, <1>2, <1>3 DEF ProfilerInit, ProfilerInv, RunHeard, StartsPending, RecordsPaired

(* Clients subscribe and unsubscribe between runs only. *)
LEMMA SubscriptionsKeep ==
    ASSUME ProfilerInv, EventTypeOK', BatchesWhole', ~ run.going,
           profiling' \in BOOLEAN, UNCHANGED <<prof, run>>
    PROVE  ProfilerInv'
BY DEF ProfilerInv, RunTyped, RunHeard, StartsPending, RecordsPaired, HasEnded

LEMMA NoSubscriptionKeeps ==
    ASSUME EventTypeOK, BatchesWhole, UNCHANGED <<subIds, eventVars>>
    PROVE  EventTypeOK' /\ BatchesWhole' /\ handlers' = handlers
BY DEF EventTypeOK, BatchesWhole, eventVars, IdsOf

LEMMA BeginRunKeeps ==
    ASSUME ProfilerInv, BeginRun
    PROVE  ProfilerInv'
<1>1. EventTypeOK' /\ BatchesWhole' /\ handlers' = handlers /\ profiling' = profiling
  BY NoSubscriptionKeeps DEF ProfilerInv, BeginRun
<1>2. CalledFor("GraphStarted", NoTask)
  BY DEF CalledFor, GraphEvents
<1>3. prof' = IF Hears THEN OnEvent(prof, "GraphStarted", NoTask) ELSE prof
  BY <1>2, Delivered DEF BeginRun
<1>4. OnEvent(prof, "GraphStarted", NoTask) = Start(prof)
  BY DEF OnEvent, Verdicts
<1>5. run' = [number |-> run.number + 1, going |-> TRUE, profiled |-> Hears,
              started |-> {}, ended |-> {}]
  BY DEF BeginRun, Hears
<1>6. prof \in Prof /\ run.number \in RunNumbers /\ Hears \in BOOLEAN /\ profiling \in BOOLEAN
  BY DEF ProfilerInv, RunTyped, Hears, Listening
<1>9. run.number + 1 \in RunNumbers /\ run.number + 1 > 0
  BY <1>6, RunsCounted DEF BeginRun, RunNumbers
<1>7. CASE ~ Hears
  BY <1>1, <1>3, <1>5, <1>6, <1>7, <1>9
     DEF ProfilerInv, RunTyped, RunHeard, StartsPending, RecordsPaired
<1>8. CASE Hears
  <2>1. prof' = [prof EXCEPT !.active = TRUE, !.records = <<>>]
    BY <1>3, <1>4, <1>8 DEF Start
  <2>2. prof' \in Prof /\ prof'.active /\ prof'.records = <<>>
    <3> PICK R : R = Seq([end : Ends, begun : RunNumbers])
      OBVIOUS
    <3>1. <<>> \in R
      BY EmptySeq
    <3>2. prof \in [active : BOOLEAN, pending : [Tasks -> RunNumbers], records : R]
      BY <1>6 DEF Prof
    <3>3. /\ prof' \in [active : BOOLEAN, pending : [Tasks -> RunNumbers], records : R]
          /\ prof'.active /\ prof'.records = <<>>
      BY <2>1, <3>1, <3>2
    <3> QED
      BY <3>3 DEF Prof
  <2>3. RunTyped'
    BY <1>1, <1>5, <1>6, <1>9, <2>2 DEF RunTyped
  <2>4. Hears'
    BY <1>1, <1>8 DEF Hears, Listening
  <2>5. RunHeard' /\ StartsPending'
    BY <1>5, <2>2, <2>4 DEF RunHeard, StartsPending
  <2>6. RecordsPaired'
    BY <1>5, <1>9, <2>2 DEF RecordsPaired
  <2> QED
    BY <1>1, <2>3, <2>5, <2>6 DEF ProfilerInv
<1> QED
  BY <1>7, <1>8

LEMMA DispatchKeeps ==
    ASSUME ProfilerInv, NEW t \in Tasks, Dispatch(t)
    PROVE  ProfilerInv'
<1>1. EventTypeOK' /\ BatchesWhole' /\ handlers' = handlers /\ profiling' = profiling
  BY NoSubscriptionKeeps DEF ProfilerInv, Dispatch
<1>2. CalledFor("TaskStarted", t)
  BY DEF CalledFor, TaskEvents
<1>3. prof' = IF Hears THEN OnEvent(prof, "TaskStarted", t) ELSE prof
  BY <1>2, Delivered DEF Dispatch
<1>4. OnEvent(prof, "TaskStarted", t) = RecordTaskStart(prof, t)
  BY DEF OnEvent, Verdicts
<1>5. run' = [run EXCEPT !.started = @ \cup {t}] /\ run.going
  BY DEF Dispatch
<1>6. prof \in Prof /\ run.number \in RunNumbers
  BY DEF ProfilerInv, RunTyped
<1>7. prof' = prof \/ prof' = [prof EXCEPT !.pending[t] = run.number]
  BY <1>3, <1>4 DEF RecordTaskStart
<1>8. prof' \in Prof /\ prof'.active = prof.active /\ prof'.records = prof.records
  BY <1>6, <1>7 DEF Prof
<1>9. /\ run'.number = run.number /\ run'.going = run.going /\ run'.profiled = run.profiled
      /\ run'.started = run.started \cup {t} /\ run'.ended = run.ended
  BY <1>5 DEF ProfilerInv, RunTyped
<1>10. RunTyped'
  BY <1>1, <1>5, <1>8 DEF ProfilerInv, RunTyped
<1>11. RunHeard'
  BY <1>1, <1>8, <1>9 DEF ProfilerInv, RunHeard, Hears, Listening
<1>12. StartsPending'
  <2> SUFFICES ASSUME run.profiled, NEW u \in run.started \cup {t}
               PROVE  HasEnded(u) \/ prof'.pending[u] = run.number
    BY <1>9 DEF StartsPending, HasEnded
  <2>1. prof' = [prof EXCEPT !.pending[t] = run.number]
    BY <1>3, <1>4, <1>5 DEF ProfilerInv, RunHeard, RecordTaskStart
  <2>2. CASE u = t
    BY <1>6, <2>1, <2>2 DEF Prof
  <2>3. CASE u # t
    <3>1. u \in run.started
      BY <2>3
    <3>2. HasEnded(u) \/ prof.pending[u] = run.number
      BY <3>1, <1>5 DEF ProfilerInv, StartsPending
    <3>3. prof'.pending[u] = prof.pending[u]
      BY <1>6, <2>1, <2>3 DEF Prof
    <3> QED
      BY <3>2, <3>3
  <2> QED
    BY <2>2, <2>3
<1>13. RecordsPaired'
  BY <1>8, <1>9 DEF ProfilerInv, RecordsPaired
<1> QED
  BY <1>1, <1>10, <1>11, <1>12, <1>13 DEF ProfilerInv

LEMMA HarvestKeeps ==
    ASSUME ProfilerInv, NEW t \in Tasks, NEW verdict \in Verdicts, Harvest(t, verdict)
    PROVE  ProfilerInv'
<1>1. EventTypeOK' /\ BatchesWhole' /\ handlers' = handlers /\ profiling' = profiling
  BY NoSubscriptionKeeps DEF ProfilerInv, Harvest
<1>2. CalledFor(verdict, t)
  BY DEF CalledFor, TaskEvents
<1>3. prof' = IF Hears THEN OnEvent(prof, verdict, t) ELSE prof
  BY <1>2, Delivered DEF Harvest
<1>4. OnEvent(prof, verdict, t) = RecordTaskEnd(prof, t, verdict)
  BY DEF OnEvent, Verdicts
<1> PICK e : e = EndOf(t, verdict)
  OBVIOUS
<1>5. /\ run' = [run EXCEPT !.ended = @ \cup {e}] /\ run.going
      /\ t \in run.started /\ ~ HasEnded(t)
  BY DEF Harvest
<1>6. prof \in Prof /\ run.number \in RunNumbers /\ e \in Ends /\ e.task = t /\ e.verdict = verdict
  BY DEF ProfilerInv, RunTyped, EndOf, Ends
<1> PICK rec : rec = RecordOf(t, verdict, prof.pending[t])
  OBVIOUS
<1>7. /\ rec \in [end : Ends, begun : RunNumbers] /\ rec.end = e /\ rec.begun = prof.pending[t]
  BY <1>6 DEF RecordOf, Prof
<1>8. \/ prof' = prof
      \/ prof' = [prof EXCEPT !.records = Append(@, rec), !.pending[t] = 0]
  BY <1>3, <1>4 DEF RecordTaskEnd
<1>9. prof' \in Prof /\ prof'.active = prof.active
  <2>1. CASE prof' = prof
    BY <1>6, <2>1
  <2>2. CASE prof' = [prof EXCEPT !.records = Append(@, rec), !.pending[t] = 0]
    <3> PICK Rec : Rec = [end : Ends, begun : RunNumbers]
      OBVIOUS
    <3> PICK more : more = Append(prof.records, rec)
      OBVIOUS
    <3>1. prof \in [active : BOOLEAN, pending : [Tasks -> RunNumbers], records : Seq(Rec)] /\ rec \in Rec
      BY <1>6, <1>7 DEF Prof, Ends
    <3>2. more \in Seq(Rec)
      BY <3>1, AppendProperties
    <3> PICK R : R = Seq(Rec)
      OBVIOUS
    <3>3. prof' = [prof EXCEPT !.records = more, !.pending[t] = 0]
      BY <2>2
    <3>4. /\ prof' \in [active : BOOLEAN, pending : [Tasks -> RunNumbers], records : R]
          /\ prof'.active = prof.active
      BY <3>1, <3>2, <3>3, RunsCounted
    <3> QED
      BY <3>4 DEF Prof
  <2> QED
    BY <1>8, <2>1, <2>2
<1>10. /\ run'.number = run.number /\ run'.going = run.going /\ run'.profiled = run.profiled
       /\ run'.started = run.started /\ run'.ended = run.ended \cup {e}
  BY <1>5 DEF ProfilerInv, RunTyped
<1>11. RunTyped'
  BY <1>1, <1>5, <1>6, <1>9 DEF ProfilerInv, RunTyped
<1>12. RunHeard'
  BY <1>1, <1>9, <1>10 DEF ProfilerInv, RunHeard, Hears, Listening
<1>13. ASSUME run.profiled
       PROVE  /\ prof' = [prof EXCEPT !.records = Append(@, rec), !.pending[t] = 0]
              /\ rec.begun = run.number
  <2>1. Hears /\ prof.active /\ prof.pending[t] = run.number
    BY <1>5, <1>13 DEF ProfilerInv, RunHeard, StartsPending
  <2>2. run.number > 0
    BY <1>13 DEF ProfilerInv, RecordsPaired
  <2>3. Pending(prof, t)
    BY <1>6, <2>1, <2>2 DEF Pending
  <2> QED
    BY <1>3, <1>4, <1>7, <2>1, <2>3 DEF RecordTaskEnd
<1>14. StartsPending'
  <2> SUFFICES ASSUME run.profiled, NEW u \in run.started
               PROVE  HasEnded(u)' \/ prof'.pending[u] = run.number
    BY <1>10 DEF StartsPending
  <2>1. HasEnded(t)' /\ (HasEnded(u) => HasEnded(u)')
    BY <1>6, <1>10 DEF HasEnded
  <2>2. CASE u # t
    <3>1. HasEnded(u) \/ prof.pending[u] = run.number
      BY <1>5 DEF ProfilerInv, StartsPending
    <3>2. u \in Tasks /\ prof.pending \in [Tasks -> RunNumbers]
      BY <1>6 DEF ProfilerInv, RunTyped, Prof
    <3>3. prof'.pending = [prof.pending EXCEPT ![t] = 0]
      BY <1>6, <1>13 DEF Prof
    <3>4. prof'.pending[u] = prof.pending[u]
      BY <2>2, <3>2, <3>3
    <3> QED
      BY <2>1, <3>1, <3>4
  <2> QED
    BY <2>1, <2>2
<1>15. RecordsPaired'
  <2> SUFFICES ASSUME run.profiled
               PROVE  RecordsPaired'
    BY <1>10 DEF RecordsPaired
  <2> PICK old, new, n : old = prof.records /\ new = prof'.records /\ n = Len(old)
    OBVIOUS
  <2>1. old \in Seq([end : Ends, begun : RunNumbers])
    BY <1>6 DEF Prof, Ends
  <2>2. new = Append(old, rec)
    BY <1>6, <1>13 DEF Prof
  <2>3. /\ n \in Nat /\ DOMAIN old = 1 .. n /\ DOMAIN new = 1 .. n + 1
        /\ \A i \in 1 .. n : new[i] = old[i]
        /\ new[n + 1] = rec
    BY <1>7, <2>1, <2>2
  <2>4. /\ run.number > 0
        /\ {old[i].end : i \in 1 .. n} = run.ended
        /\ \A i \in 1 .. n : old[i].begun = run.number
        /\ \A i, j \in 1 .. n : old[i].end.task = old[j].end.task => i = j
    <3>1. /\ run.number > 0
          /\ {old[i].end : i \in DOMAIN old} = run.ended
          /\ \A i \in DOMAIN old : old[i].begun = run.number
          /\ \A i, j \in DOMAIN old : old[i].end.task = old[j].end.task => i = j
      BY Zenon DEF ProfilerInv, RecordsPaired
    <3> QED
      BY <2>3, <3>1
  <2>5. \A i \in 1 .. n : old[i].end.task # t
    BY <1>5, <2>4 DEF HasEnded
  <2>6. \A i : i \in 1 .. n + 1 <=> i \in 1 .. n \/ i = n + 1
    BY <2>3
  <2>7. {new[i].end : i \in 1 .. n + 1} = run.ended \cup {e}
    <3>1. {new[i].end : i \in 1 .. n + 1} = {new[i].end : i \in 1 .. n} \cup {new[n + 1].end}
      BY <2>6
    <3>2. {new[i].end : i \in 1 .. n} = {old[i].end : i \in 1 .. n}
      BY <2>3
    <3>3. {old[i].end : i \in 1 .. n} = run.ended /\ new[n + 1].end = e
      BY <1>7, <2>3, <2>4
    <3> QED
      BY <3>1, <3>2, <3>3, Zenon
  <2>8. \A i \in 1 .. n + 1 : new[i].begun = run.number
    BY <1>13, <2>3, <2>4, <2>6
  <2>9. \A i, j \in 1 .. n + 1 : new[i].end.task = new[j].end.task => i = j
    <3>1. \A i \in 1 .. n : new[i].end.task = old[i].end.task /\ new[i].end.task # t
      BY <2>3, <2>5
    <3>2. new[n + 1].end.task = t
      BY <1>6, <1>7, <2>3
    <3>3. \A i, j \in 1 .. n : new[i].end.task = new[j].end.task => i = j
      BY <2>4, <3>1
    <3> SUFFICES ASSUME NEW i \in 1 .. n + 1, NEW j \in 1 .. n + 1,
                        new[i].end.task = new[j].end.task
                 PROVE  i = j
      OBVIOUS
    <3>4. CASE i \in 1 .. n /\ j \in 1 .. n
      BY <3>3, <3>4, Zenon
    <3>5. CASE i = n + 1 \/ j = n + 1
      BY <2>6, <3>1, <3>2, <3>5, Zenon
    <3> QED
      BY <2>6, <3>4, <3>5, Zenon
  <2>10. /\ run'.number > 0
         /\ {new[i].end : i \in DOMAIN new} = run'.ended
         /\ \A i \in DOMAIN new : new[i].begun = run'.number
         /\ \A i, j \in DOMAIN new : new[i].end.task = new[j].end.task => i = j
    BY <1>10, <2>3, <2>4, <2>7, <2>8, <2>9
  <2>11. /\ run'.number > 0
         /\ {prof'.records[i].end : i \in DOMAIN prof'.records} = run'.ended
         /\ \A i \in DOMAIN prof'.records : prof'.records[i].begun = run'.number
         /\ \A i, j \in DOMAIN prof'.records :
                prof'.records[i].end.task = prof'.records[j].end.task => i = j
    BY <2>10
  <2> QED
    BY <2>11, Zenon DEF RecordsPaired
<1> QED
  BY <1>1, <1>11, <1>12, <1>14, <1>15 DEF ProfilerInv

(* The end of a run leaves the records and what is pending as they are.    *)
LEMMA EndingKeeps ==
    ASSUME ProfilerInv, EventTypeOK', BatchesWhole', UNCHANGED profiling,
           run' = [run EXCEPT !.going = FALSE],
           prof' \in Prof, prof'.records = prof.records
    PROVE  ProfilerInv'
<1>1. /\ run'.number = run.number /\ ~ run'.going /\ run'.profiled = run.profiled
      /\ run'.started = run.started /\ run'.ended = run.ended
  BY DEF ProfilerInv, RunTyped
<1>2. RunTyped'
  BY DEF ProfilerInv, RunTyped
<1>3. RunHeard' /\ StartsPending'
  BY <1>1 DEF RunHeard, StartsPending
<1>4. RecordsPaired'
  BY <1>1 DEF ProfilerInv, RecordsPaired
<1> QED
  BY <1>2, <1>3, <1>4 DEF ProfilerInv

LEMMA EndRunKeeps ==
    ASSUME ProfilerInv, EndRun
    PROVE  ProfilerInv'
<1>1. EventTypeOK' /\ BatchesWhole' /\ profiling' = profiling
  BY NoSubscriptionKeeps DEF ProfilerInv, EndRun
<1>2. CalledFor("GraphCompleted", NoTask)
  BY DEF CalledFor, GraphEvents
<1>3. prof' = IF Hears THEN OnEvent(prof, "GraphCompleted", NoTask) ELSE prof
  BY <1>2, Delivered DEF EndRun
<1>4. OnEvent(prof, "GraphCompleted", NoTask) = [prof EXCEPT !.active = FALSE]
  BY DEF OnEvent, Verdicts
<1>5. prof' \in Prof /\ prof'.records = prof.records
  BY <1>3, <1>4 DEF ProfilerInv, RunTyped, Prof
<1> QED
  BY <1>1, <1>5, EndingKeeps DEF EndRun

LEMMA ProfilerStep == ProfilerInv /\ [ProfilerNext]_<<profilerVars, eventVars>> => ProfilerInv'
<1> SUFFICES ASSUME ProfilerInv, [ProfilerNext]_<<profilerVars, eventVars>>
             PROVE  ProfilerInv'
  OBVIOUS
<1>1. EventTypeOK /\ BatchesWhole /\ Home \in Systems
  BY ProfilerAssumption DEF ProfilerInv, ProfilerAssumption
<1>2. ASSUME NEW enabled \in BOOLEAN, SetProfiling(enabled)
      PROVE  ProfilerInv'
  <2>1. EventTypeOK' /\ BatchesWhole'
    BY <1>1, <1>2, SubscribeToKeeps, UnsubscribeFromKeeps DEF SetProfiling
  <2> QED
    BY <1>2, <2>1, SubscriptionsKeep DEF SetProfiling
<1>3. ASSUME NEW s \in Systems, ClientSubscribes(s)
      PROVE  ProfilerInv'
  <2>1. EventTypeOK' /\ BatchesWhole'
    BY <1>1, <1>3, SubscribeToKeeps DEF ClientSubscribes
  <2> QED
    BY <1>3, <2>1, SubscriptionsKeep DEF ClientSubscribes, ProfilerInv, RunTyped
<1>4. ASSUME NEW s \in Systems, ClientUnsubscribes(s)
      PROVE  ProfilerInv'
  <2>1. EventTypeOK' /\ BatchesWhole'
    BY <1>1, <1>4, UnsubscribeFromKeeps DEF ClientUnsubscribes
  <2> QED
    BY <1>4, <2>1, SubscriptionsKeep DEF ClientUnsubscribes, ProfilerInv, RunTyped
<1>5. ASSUME NEW t \in Tasks, AbandonRun(t)
      PROVE  ProfilerInv'
  <2>1. EventTypeOK' /\ BatchesWhole'
    BY <1>1, <1>5, NoSubscriptionKeeps DEF AbandonRun
  <2>2. prof' = prof /\ prof \in Prof
    BY <1>5 DEF AbandonRun, ProfilerInv, RunTyped
  <2> QED
    BY <1>5, <2>1, <2>2, EndingKeeps DEF AbandonRun
<1>6. CASE UNCHANGED <<profilerVars, eventVars>>
  <2>1. EventTypeOK' /\ BatchesWhole' /\ handlers' = handlers
    BY <1>1, <1>6, NoSubscriptionKeeps DEF profilerVars
  <2>2. UNCHANGED <<profiling, prof, run>>
    BY <1>6 DEF profilerVars
  <2> QED
    BY <2>1, <2>2
       DEF ProfilerInv, RunTyped, RunHeard, StartsPending, RecordsPaired, HasEnded, Hears, Listening
<1> QED
  BY <1>2, <1>3, <1>4, <1>5, <1>6, BeginRunKeeps, DispatchKeeps, HarvestKeeps, EndRunKeeps
     DEF ProfilerNext

LEMMA ProfilerInvHolds == ProfilerSpec => []ProfilerInv
  BY ProfilerInvInit, ProfilerStep, PTL DEF ProfilerSpec

LEMMA OneToOneOnto ==
    \A S, T : \A f \in [S -> T] :
        (\A a, b \in S : f[a] = f[b] => a = b) /\ (\A y \in T : \E a \in S : f[a] = y)
            => f \in Bijection(S, T)
<1> SUFFICES ASSUME NEW S, NEW T, NEW f \in [S -> T],
                    \A a, b \in S : f[a] = f[b] => a = b,
                    \A y \in T : \E a \in S : f[a] = y
             PROVE  f \in Bijection(S, T)
  OBVIOUS
<1>1. f \in Injection(S, T)
  BY Fun_IsInj
<1>2. f \in Surjection(S, T)
  BY Fun_IsSurj
<1> QED
  BY <1>1, <1>2 DEF Bijection

(* One record per end, so that the summary counts the ends. *)
LEMMA SummaryCountsEnds ==
    ASSUME ProfilerInv, run.profiled, NEW verdict \in Verdicts
    PROVE  Summary(verdict) = Cardinality({e \in run.ended : e.verdict = verdict})
<1> PICK recs, n : recs = prof.records /\ n = Len(recs)
  OBVIOUS
<1>1. recs \in Seq([end : Ends, begun : RunNumbers]) /\ n \in Nat /\ DOMAIN recs = 1 .. n
  BY DEF ProfilerInv, RunTyped, Prof, Ends
<1>0. PICK I, E, f : /\ I = {i \in 1 .. n : recs[i].end.verdict = verdict}
                     /\ E = {e \in run.ended : e.verdict = verdict}
                     /\ f = [i \in I |-> recs[i].end]
  OBVIOUS
<1>2. /\ {recs[i].end : i \in 1 .. n} = run.ended
      /\ \A i, j \in 1 .. n : recs[i].end.task = recs[j].end.task => i = j
  <2>1. /\ {recs[i].end : i \in DOMAIN recs} = run.ended
        /\ \A i, j \in DOMAIN recs : recs[i].end.task = recs[j].end.task => i = j
    BY Zenon DEF ProfilerInv, RecordsPaired
  <2>2. DOMAIN recs = 1 .. n
    BY <1>1
  <2>3. {recs[i].end : i \in 1 .. n} = run.ended
    BY <2>1, <2>2, Zenon
  <2>4. \A i, j \in 1 .. n : recs[i].end.task = recs[j].end.task => i = j
    BY <2>1, <2>2, Zenon
  <2> QED
    BY <2>3, <2>4
<1>3. f \in [I -> E] /\ \A a, b \in I : f[a] = f[b] => a = b
  BY <1>0, <1>2
<1>4. \A e \in E : \E i \in I : f[i] = e
  BY <1>0, <1>2
<1>5. f \in Bijection(I, E)
  <2>1. f \in [I -> E]
    BY <1>3
  <2>2. \A a, b \in I : f[a] = f[b] => a = b
    BY <1>3
  <2>3. \A y \in E : \E a \in I : f[a] = y
    BY <1>4
  <2> QED
    BY <2>1, <2>2, <2>3, OneToOneOnto
<1>6. ExistsBijection(I, E)
  BY <1>5, Fun_ExistsBij
<1>7. IsFiniteSet(1 .. n)
  BY <1>1, FS_Interval
<1>8. IsFiniteSet(I)
  BY <1>0, <1>7, FS_Subset
<1>9. Cardinality(I) = Cardinality(E)
  BY <1>6, <1>8, FS_Bijection
<1> QED
  BY <1>0, <1>1, <1>9 DEF Summary

(* The records of a profiled run are the tasks that ended in it, each once *)
(* with its verdict and its start in this run, and the summary counts      *)
(* them: for any number of tasks and runs, with runs abandoned, profiling  *)
(* turned on and off between them, and handlers left over from before.     *)
THEOREM ProfileAlwaysMatches == ProfilerSpec => []ProfileMatchesRun
<1>1. ProfilerInv => ProfileMatchesRun
  BY SummaryCountsEnds DEF ProfilerInv, RecordsPaired, ProfileMatchesRun
<1> QED
  BY <1>1, ProfilerInvHolds, PTL
-----------------------------------------------------------------------------
(* RetryPolicy. *)
LEMMA RetryNumbers ==
    /\ MaxRetries \in Nat /\ InitialDelay \in Nat /\ MaxDelay \in Nat
    /\ Greatest \in Nat /\ Least = - Greatest - 1 /\ MaxDelay <= Greatest
    /\ JitterPercent \in Nat /\ JitterPercent <= 100 /\ Randoms \subseteq 0 .. 99
<1>1. PICK p : p = 2 ^ (LongBits - 1)
  OBVIOUS
<1>2. LongBits - 1 \in Nat
  BY RetryAssumption DEF RetryAssumption
<1>3. p \in Int
  BY <1>1, <1>2
<1>4. InitialDelay \in Nat /\ MaxDelay \in InitialDelay .. p - 1
  BY <1>1, RetryAssumption DEF RetryAssumption
<1>5. MaxDelay \in Nat /\ MaxDelay <= p - 1
  BY <1>3, <1>4
<1>6. Greatest = p - 1 /\ Least = - p
  BY <1>1 DEF Greatest, Least
<1>7. Greatest \in Nat /\ Least = - Greatest - 1
  BY <1>3, <1>5, <1>6
<1> QED
  BY <1>4, <1>5, <1>6, <1>7, RetryAssumption DEF RetryAssumption

LEMMA ProductGrows ==
    ASSUME NEW n \in 0 .. MaxRetries
    PROVE  Product(n) \in Nat /\ Product(n + 1) \in Nat /\ Product(n) <= Product(n + 1)
<1>1. PICK p, q : p = 2 ^ n /\ q = 2 ^ (n + 1)
  OBVIOUS
<1>2. n \in Nat /\ n + 1 \in Nat /\ InitialDelay \in Nat
  BY RetryNumbers
<1>3. p \in Int /\ q \in Int
  BY <1>1, <1>2
<1>4. p \in 1 .. q
  BY <1>1, RetryAssumption DEF RetryAssumption
<1>5. p \in Nat /\ q \in Nat /\ p <= q
  BY <1>3, <1>4
<1>6. InitialDelay * p \in Nat /\ InitialDelay * q \in Nat /\ InitialDelay * p <= InitialDelay * q
  BY <1>2, <1>5
<1> QED
  BY <1>1, <1>6 DEF Product

(* The part of the product that counts. *)
LEMMA LowerIs ==
    ASSUME NEW a \in Nat, NEW b \in Nat
    PROVE  Lower(a, b) \in Nat /\ Lower(a, b) <= a /\ Lower(a, b) <= b
BY DEF Lower

LEMMA ToLongFits ==
    ASSUME NEW x \in Nat, NEW d \in ToLong(x)
    PROVE  /\ d \in Least .. Greatest /\ d <= x
           /\ x <= Greatest => d = x
BY RetryNumbers DEF ToLong

LEMMA JitterBounds ==
    ASSUME NEW r \in Randoms, NEW l \in Nat, l <= MaxDelay
    PROVE  LET y == (l * Jitter(r)) \div 10000
           IN  y \in Nat /\ y * 100 <= (100 + JitterPercent) * MaxDelay
<1>1. r \in 0 .. 99 /\ JitterPercent \in Nat /\ JitterPercent <= 100 /\ MaxDelay \in Nat
  BY RetryNumbers
<1>2. r * JitterPercent \in Nat /\ r * JitterPercent <= 99 * JitterPercent
  BY <1>1
<1>3. PICK j : j = Jitter(r)
  OBVIOUS
<1>4. j = 100 * (100 - JitterPercent) + 2 * (r * JitterPercent)
  BY <1>1, <1>3 DEF Jitter
<1>5. j \in Nat /\ j <= 100 * (100 + JitterPercent)
  BY <1>1, <1>2, <1>4
<1> PICK y, m, c : y = (l * j) \div 10000 /\ m = MaxDelay /\ c = 100 + JitterPercent
  OBVIOUS
<1>6. l * j \in Nat /\ y \in Nat /\ 10000 * y <= l * j
  BY <1>5
<1>7. m \in Nat /\ c \in Nat /\ l <= m /\ j <= 100 * c
  BY <1>1, <1>5
<1>8. l * j <= m * (100 * c)
  <2>1. l * j <= m * j
    BY <1>5, <1>7
  <2>2. m * j <= m * (100 * c)
    BY <1>5, <1>7
  <2>3. m * j \in Int /\ m * (100 * c) \in Int
    BY <1>5, <1>7
  <2> QED
    BY <1>6, <2>1, <2>2, <2>3
<1>9. m * (100 * c) = 100 * (c * m) /\ c * m \in Nat
  BY <1>7
<1>10. 100 * y <= c * m
  BY <1>6, <1>8, <1>9
<1> QED
  BY <1>3, <1>6, <1>10

(* What a policy answers. *)
LEMMA DelaysAre ==
    ASSUME NEW n \in 0 .. MaxRetries, NEW d \in Delays(n),
           retryPolicy \in [kind : Kinds, conditional : BOOLEAN]
    PROVE  /\ d \in Least .. Greatest
           /\ retryPolicy.kind = "exponential" /\ Product(n) <= Greatest =>
                  d = Lower(Product(n), MaxDelay)
           /\ retryPolicy.kind = "jittered" => d * 100 <= (100 + JitterPercent) * MaxDelay
<1>1. Product(n) \in Nat /\ MaxDelay \in Nat /\ Greatest \in Nat /\ Least \in Int
      /\ Least = - Greatest - 1 /\ MaxDelay <= Greatest /\ InitialDelay \in Nat
  BY ProductGrows, RetryNumbers
<1>2. CASE retryPolicy.kind = "none"
  BY <1>1, <1>2 DEF Delays
<1>3. CASE retryPolicy.kind = "fixed"
  <2>1. InitialDelay <= Greatest
    BY <1>1, RetryAssumption DEF RetryAssumption
  <2> QED
    BY <1>1, <1>3, <2>1 DEF Delays
<1>4. CASE retryPolicy.kind = "exponential"
  <2>1. PICK x \in ToLong(Product(n)) : d = Lower(x, MaxDelay)
    BY <1>4 DEF Delays
  <2>2. x \in Least .. Greatest /\ (Product(n) <= Greatest => x = Product(n))
    BY <1>1, ToLongFits
  <2>3. d \in Least .. Greatest
    BY <1>1, <2>1, <2>2 DEF Lower
  <2> QED
    BY <1>4, <2>1, <2>2, <2>3
<1>5. CASE retryPolicy.kind \notin {"none", "fixed", "exponential"}
  <2>1. PICK r \in Randoms : d \in ToLong((Lower(Product(n), MaxDelay) * Jitter(r)) \div 10000)
    BY <1>5 DEF Delays
  <2> PICK l, y : l = Lower(Product(n), MaxDelay) /\ y = (l * Jitter(r)) \div 10000
    OBVIOUS
  <2>2. l \in Nat /\ l <= MaxDelay
    BY <1>1, LowerIs
  <2>3. y \in Nat /\ y * 100 <= (100 + JitterPercent) * MaxDelay
    BY <2>2, JitterBounds
  <2>4. d \in Least .. Greatest /\ d <= y
    BY <2>1, <2>3, ToLongFits
  <2>5. (100 + JitterPercent) * MaxDelay \in Nat
    BY RetryNumbers
  <2>6. d * 100 <= (100 + JitterPercent) * MaxDelay
    BY <1>1, <2>3, <2>4, <2>5
  <2> QED
    BY <1>5, <2>4, <2>6
<1> QED
  BY <1>2, <1>3, <1>4, <1>5

(* The last two answers, when a of the failed attempts had one. *)
Asked(a) ==
    \/ a = 0 /\ delay = -1 /\ backOff = -1
    \/ /\ a >= 1 /\ delay \in Delays(a - 1)
       /\ backOff = -1 \/ (a >= 2 /\ backOff \in Delays(a - 2))

RetryInv ==
    /\ retryPolicy \in [kind : Kinds, conditional : BOOLEAN]
    /\ clientAt \in {"trying", "waiting", "gaveUp", "done"}
    /\ attempt \in 0 .. MaxRetries + 1
    /\ clientAt \in {"trying", "waiting"} => attempt <= MaxRetries /\ Asked(attempt)
    /\ clientAt \in {"gaveUp", "done"} => attempt >= 1 /\ Asked(attempt - 1)

LEMMA RetryStart == RetryInit => RetryInv
BY RetryNumbers DEF RetryInit, RetryInv, Asked

LEMMA RetryStep == RetryInv /\ [RetryNext]_retryVars => RetryInv'
<1> SUFFICES ASSUME RetryInv, [RetryNext]_retryVars
             PROVE  RetryInv'
  OBVIOUS
<1>1. MaxRetries \in Nat /\ attempt \in Nat
  BY RetryNumbers DEF RetryInv
<1>2. ASSUME UNCHANGED <<retryPolicy, delay, backOff>>, NEW a \in Nat, Asked(a)
      PROVE  Asked(a)'
  BY <1>2 DEF Asked, Delays
<1>3. CASE TrySucceeds
  <2>1. attempt <= MaxRetries /\ Asked(attempt)
    BY <1>3 DEF TrySucceeds, RetryInv
  <2> PICK a : a = attempt
    OBVIOUS
  <2>2. Asked(a)'
    BY <1>1, <1>2, <1>3, <2>1 DEF TrySucceeds
  <2>3. attempt' - 1 = a /\ attempt' >= 1 /\ attempt' \in 0 .. MaxRetries + 1
    BY <1>1, <1>3, <2>1 DEF TrySucceeds
  <2> QED
    BY <1>3, <2>2, <2>3 DEF TrySucceeds, RetryInv
<1>4. ASSUME NEW transient \in BOOLEAN, TryFails(transient)
      PROVE  RetryInv'
  <2>1. attempt <= MaxRetries /\ Asked(attempt) /\ attempt' = attempt + 1 /\ retryPolicy' = retryPolicy
    BY <1>4 DEF TryFails, RetryInv
  <2> PICK a : a = attempt
    OBVIOUS
  <2>2. CASE ShouldRetry(attempt, transient)
    <3>1. /\ delay' \in Delays(a) /\ backOff' = delay /\ clientAt' = "waiting"
          /\ a < MaxRetries
      BY <1>4, <2>2 DEF TryFails, ShouldRetry
    <3>2. \A n : Delays(n)' = Delays(n)
      BY <2>1 DEF Delays
    <3> PICK b : b = a + 1
      OBVIOUS
    <3>3. attempt' = b /\ a \in Nat /\ b \in Nat /\ b >= 1 /\ b - 1 = a /\ b - 2 = a - 1
      BY <1>1, <2>1
    <3>4. delay' \in Delays(b - 1)'
      BY <3>1, <3>2, <3>3
    <3>5. backOff' = -1 \/ (b >= 2 /\ backOff' \in Delays(b - 2)')
      <4>1. CASE a = 0
        BY <2>1, <3>1, <4>1 DEF Asked
      <4>2. CASE a >= 1
        BY <2>1, <3>1, <3>2, <3>3, <4>2 DEF Asked
      <4> QED
        BY <3>3, <4>1, <4>2
    <3>6. Asked(b)'
      BY <3>3, <3>4, <3>5 DEF Asked
    <3> QED
      BY <1>1, <2>1, <3>1, <3>3, <3>6 DEF RetryInv
  <2>3. CASE ~ ShouldRetry(attempt, transient)
    <3>1. clientAt' = "gaveUp" /\ UNCHANGED <<retryPolicy, delay, backOff>>
      BY <1>4, <2>3 DEF TryFails
    <3>2. Asked(a)'
      BY <1>1, <1>2, <2>1, <3>1
    <3>3. attempt' - 1 = a /\ attempt' >= 1 /\ attempt' \in 0 .. MaxRetries + 1
      BY <1>1, <2>1
    <3> QED
      BY <3>1, <3>2, <3>3 DEF RetryInv
  <2> QED
    BY <2>2, <2>3
<1>5. ASSUME UNCHANGED <<retryPolicy, attempt, delay, backOff>>,
             clientAt' = clientAt \/ (clientAt = "waiting" /\ clientAt' = "trying")
      PROVE  RetryInv'
  BY <1>5 DEF RetryInv, Asked, Delays
<1>6. CASE WaitIsOver
  BY <1>5, <1>6 DEF WaitIsOver
<1>7. CASE UNCHANGED retryVars
  BY <1>5, <1>7 DEF retryVars
<1> QED
  BY <1>3, <1>4, <1>6, <1>7 DEF RetryNext

(* What RetryInv says of the two answers: each is -1, or the policy's      *)
(* answer to one of the attempts made, the second to the one before that   *)
(* of the first.                                                           *)
LEMMA RetryAnswers ==
    ASSUME RetryInv
    PROVE  \/ delay = -1 /\ backOff = -1
           \/ \E n \in 0 .. MaxRetries :
                  /\ n \in {attempt - 1, attempt - 2} /\ delay \in Delays(n)
                  /\ backOff = -1 \/ (n - 1 \in 0 .. MaxRetries /\ backOff \in Delays(n - 1))
<1>1. MaxRetries \in Nat /\ attempt \in 0 .. MaxRetries + 1
  BY RetryNumbers DEF RetryInv
<1>2. PICK a \in {attempt, attempt - 1} : a \in 0 .. MaxRetries /\ Asked(a)
  <2>1. CASE clientAt \in {"trying", "waiting"}
    BY <1>1, <2>1 DEF RetryInv
  <2>2. CASE clientAt \in {"gaveUp", "done"}
    <3>1. attempt - 1 \in 0 .. MaxRetries /\ Asked(attempt - 1)
      BY <1>1, <2>2 DEF RetryInv
    <3> QED
      BY <3>1
  <2> QED
    BY <2>1, <2>2 DEF RetryInv
<1>3. CASE a = 0
  BY <1>2, <1>3 DEF Asked
<1>4. CASE a # 0
  <2> PICK n : n = a - 1
    OBVIOUS
  <2>1. n \in 0 .. MaxRetries /\ n \in {attempt - 1, attempt - 2} /\ n - 1 = a - 2
    BY <1>1, <1>2, <1>4
  <2>2. delay \in Delays(n) /\ (backOff = -1 \/ (a >= 2 /\ backOff \in Delays(n - 1)))
    BY <1>2, <1>4, <2>1 DEF Asked
  <2>3. a >= 2 => n - 1 \in 0 .. MaxRetries
    BY <1>1, <1>2
  <2> QED
    BY <2>1, <2>2, <2>3
<1> QED
  BY <1>3, <1>4

LEMMA RetryTyped == RetryInv => RetryTypeOK
<1> SUFFICES ASSUME RetryInv
             PROVE  RetryTypeOK
  OBVIOUS
<1>1. -1 \in Least .. Greatest
  BY RetryNumbers
<1>2. retryPolicy \in [kind : Kinds, conditional : BOOLEAN]
  BY DEF RetryInv
<1>3. delay \in Least .. Greatest /\ backOff \in Least .. Greatest
  BY <1>1, <1>2, RetryAnswers, DelaysAre
<1> QED
  BY <1>3 DEF RetryInv, RetryTypeOK

LEMMA RetryBounded == RetryInv => BackoffBounded
<1> SUFFICES ASSUME RetryInv
             PROVE  BackoffBounded
  OBVIOUS
<1>1. MaxRetries \in Nat /\ MaxDelay \in Nat /\ Greatest \in Nat /\ JitterPercent \in Nat
  BY RetryNumbers
<1>2. retryPolicy \in [kind : Kinds, conditional : BOOLEAN] /\ attempt \in 0 .. MaxRetries + 1
  BY DEF RetryInv
<1>3. (100 + JitterPercent) * MaxDelay \in Nat
  BY <1>1
<1>4. CASE delay = -1 /\ backOff = -1
  BY <1>1, <1>2, <1>3, <1>4 DEF BackoffBounded
<1>5. ASSUME NEW n \in 0 .. MaxRetries,
             n \in {attempt - 1, attempt - 2}, delay \in Delays(n),
             backOff = -1 \/ (n - 1 \in 0 .. MaxRetries /\ backOff \in Delays(n - 1))
      PROVE  BackoffBounded
  <2>1. retryPolicy.kind = "jittered" => delay * 100 <= (100 + JitterPercent) * MaxDelay
    BY <1>2, <1>5, DelaysAre
  <2>2. ASSUME retryPolicy.kind = "exponential", Fits
        PROVE  backOff <= delay /\ delay <= MaxDelay
    <3> PICK a : a = attempt
      OBVIOUS
    <3>1. a # 0 /\ Product(a - 1) <= Greatest /\ a - 1 \in 0 .. MaxRetries
      BY <1>1, <1>2, <1>5, <2>2 DEF Fits
    <3>2. Product(n) \in Nat /\ Product(n) <= Product(a - 1) /\ Product(a - 1) \in Nat
      <4>1. n = a - 1 \/ n + 1 = a - 1
        BY <1>1, <1>2, <1>5
      <4> QED
        BY <3>1, <4>1, ProductGrows
    <3>3. Product(n) <= Greatest
      BY <1>1, <3>1, <3>2
    <3>4. delay = Lower(Product(n), MaxDelay) /\ delay \in Nat /\ delay <= MaxDelay
      BY <1>1, <1>2, <1>5, <2>2, <3>2, <3>3, DelaysAre, LowerIs
    <3>5. CASE backOff = -1
      BY <3>4, <3>5
    <3>6. CASE n - 1 \in 0 .. MaxRetries /\ backOff \in Delays(n - 1)
      <4> PICK m : m = n - 1
        OBVIOUS
      <4>1. m \in 0 .. MaxRetries /\ m + 1 = n
        BY <3>6
      <4>2. Product(m) \in Nat /\ Product(m) <= Product(n)
        BY <4>1, ProductGrows
      <4>3. Product(m) <= Greatest
        BY <1>1, <3>2, <3>3, <4>2
      <4>4. backOff = Lower(Product(m), MaxDelay)
        BY <1>2, <2>2, <3>6, <4>1, <4>3, DelaysAre
      <4>5. Lower(Product(m), MaxDelay) <= Lower(Product(n), MaxDelay)
        BY <1>1, <3>2, <4>2 DEF Lower
      <4> QED
        BY <3>4, <4>4, <4>5
    <3> QED
      BY <1>5, <3>4, <3>5, <3>6
  <2> QED
    BY <1>1, <1>2, <2>1, <2>2 DEF BackoffBounded
<1> QED
  BY <1>4, <1>5, RetryAnswers

(* The attempts, the client's place and the last two delays keep their     *)
(* types: every answer of get_delay is a value of long long, also where    *)
(* the product it is made of does not fit one.                             *)
THEOREM RetryTypeCorrect == RetrySpec => []RetryTypeOK
<1> QED
  BY RetryStart, RetryStep, RetryTyped, PTL DEF RetrySpec

(* A client retries no more than max_retries allows; exponential waits     *)
(* never shrink and stay below the cap, as long as the product fits a long *)
(* long; jittered ones pass the cap by no more than the jitter: for every  *)
(* delay, cap, jitter, number of retries and draw.                         *)
THEOREM BackoffAlwaysBounded == RetrySpec => []BackoffBounded
<1> QED
  BY RetryStart, RetryStep, RetryBounded, PTL DEF RetrySpec
-----------------------------------------------------------------------------
(* Together.  A step is one component's, and the others stand still.  The  *)
(* handlers of the event system are clients' where it is in focus, and     *)
(* the profiler's elsewhere.                                               *)
ClientsInv == LateInv /\ GuardInv /\ wiped \subseteq Systems \X SubscriptionIds
ServiceInv ==
    /\ PoolInv /\ CpuInv /\ PolicyInv /\ RetryInv /\ BufferInv
    /\ IF focus = "events" THEN ClientsInv /\ ProfilerTypeOK ELSE ProfilerInv

LEMMA ClientsStep == ClientsInv /\ [EventNext]_eventVars => ClientsInv'
<1> SUFFICES ASSUME ClientsInv, [EventNext]_eventVars
             PROVE  ClientsInv'
  OBVIOUS
<1>1. LateInv' /\ GuardInv'
  BY EventStep, GuardStep DEF ClientsInv
<1>2. \A s \in Systems : IdsOf(s) \subseteq SubscriptionIds
  BY DEF ClientsInv, GuardInv, GuardTypes, IdsOf, Handler
<1>3. wiped' = wiped \/ \E s \in Systems : wiped' = wiped \cup ({s} \X IdsOf(s))
  BY DEF EventNext, eventVars, Subscribe, MoveScope, EndScope, ClearHandlers, Publish,
         CallHandler
<1> QED
  BY <1>1, <1>2, <1>3 DEF ClientsInv

LEMMA ClientsTyped == ClientsInv => EventTypeOK
BY DEF ClientsInv, LateInv, EventTypes, GuardInv, GuardTypes, EventTypeOK, Pairs

LEMMA ProfilerTyped == ProfilerInv => ProfilerTypeOK
BY DEF ProfilerInv, BatchesWhole, RunTyped, Prof, ProfilerTypeOK

LEMMA ServiceStart == MCInit => ServiceInv
<1> SUFFICES ASSUME MCInit
             PROVE  ServiceInv
  OBVIOUS
<1>1. PoolInv /\ CpuInv /\ PolicyInv /\ RetryInv /\ BufferInv
  BY PoolStart, CpuInvInit, PolicyInvInit, RetryStart, BufferInvInit DEF MCInit
<1>2. ProfilerInit /\ EventInit
  BY DEF MCInit, ProfilerInit
<1>3. ProfilerInv
  BY <1>2, ProfilerInvInit
<1>4. ClientsInv
  BY <1>2, LateInvInit, GuardInvInit DEF ClientsInv, EventInit
<1> QED
  BY <1>1, <1>3, <1>4, ProfilerTyped DEF ServiceInv

LEMMA ServiceStep ==
    ASSUME ServiceInv, [MCNext]_<<serviceVars, focus>>
    PROVE  ServiceInv'
<1>1. /\ [PoolNext]_poolVars /\ [CpuPoolNext]_cpuPoolVars /\ [PolicyNext]_policyVars
      /\ [RetryNext]_retryVars /\ [BufferNext]_bufferVars /\ UNCHANGED focus
  BY DEF MCNext, serviceVars
<1>2. PoolInv' /\ CpuInv' /\ PolicyInv' /\ RetryInv' /\ BufferInv'
  BY <1>1, PoolStep, CpuInvStep, PolicyStep, RetryStep, BufferStep DEF ServiceInv
<1>3. CASE focus = "events"
  <2>1. [EventNext]_eventVars
    BY <1>3 DEF MCNext, serviceVars
  <2>2. ProfilerTypeOK'
    BY <1>3 DEF ServiceInv, MCNext, serviceVars, profilerVars, ProfilerTypeOK
  <2> QED
    BY <1>1, <1>2, <1>3, <2>1, <2>2, ClientsStep DEF ServiceInv
<1>4. CASE focus # "events"
  <2>1. [ProfilerNext]_<<profilerVars, eventVars>>
    BY <1>4 DEF MCNext, serviceVars
  <2> QED
    BY <1>1, <1>2, <1>4, <2>1, ProfilerStep DEF ServiceInv
<1> QED
  BY <1>3, <1>4

(* Every variable of the seven components keeps its type, whichever of     *)
(* them is at work.                                                        *)
THEOREM ServiceTypesCorrect == MCSpec => []ServiceTypesOK
<1>1. ServiceInv /\ [MCNext]_<<serviceVars, focus>> => ServiceInv'
  BY ServiceStep
<1>2. ServiceInv => ServiceTypesOK
  <2> SUFFICES ASSUME ServiceInv
               PROVE  ServiceTypesOK
    OBVIOUS
  <2>1. PoolTypeOK /\ CpuPoolTypeOK /\ RetryTypeOK
    BY PoolTyped, CpuInvTyped, RetryTyped DEF ServiceInv
  <2>2. EventTypeOK /\ ProfilerTypeOK
    BY ClientsTyped, ProfilerTyped DEF ServiceInv, ProfilerInv
  <2> QED
    BY <2>1, <2>2 DEF ServiceInv, ServiceTypesOK, PolicyInv, BufferInv
<1> QED
  BY <1>1, <1>2, ServiceStart, PTL DEF MCSpec
==============================================================================
