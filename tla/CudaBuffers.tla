----------------------------- MODULE CudaBuffers -----------------------------
(***************************************************************************)
(* hts::PinnedMemory and hts::DeviceMemory (src/include/hts/               *)
(* cuda_utils.hpp) over the allocations of the runtime: those the          *)
(* CpuOnlyMemoryPool of src/include/hts/internal/cuda_stubs.hpp keeps, one *)
(* map for each kind.  One thread: the pool has no lock.  The allocator    *)
(* hands out the address of freed memory again.  The two wrappers are the  *)
(* same code, over the two kinds.                                          *)
(***************************************************************************)
EXTENDS FiniteSets

CONSTANTS
    Wrappers,    \* wrapper objects
    Addresses    \* what malloc returns

NoPtr == "null"
NoObject == "none"

ASSUME BufferAssumption ==
    /\ IsFiniteSet(Wrappers) /\ IsFiniteSet(Addresses)
    /\ {NoPtr, NoObject} \cap Addresses = {}

VARIABLES
    wrapper,     \* ptr_ of each object: NoPtr in one moved from, NoObject
    kindOf,      \* which of the two classes an object has
    allocations  \* allocations_ and host_allocations_

bufferVars == <<wrapper, kindOf, allocations>>

MemoryKinds == {"device", "pinned"}
Live == allocations["device"] \cup allocations["pinned"]
Constructed(w) == wrapper[w] # NoObject

BufferTypeOK ==
    /\ wrapper \in [Wrappers -> Addresses \cup {NoPtr, NoObject}]
    /\ kindOf \in [Wrappers -> MemoryKinds]
    /\ allocations \in [MemoryKinds -> SUBSET Addresses]

BufferInit ==
    /\ wrapper = [w \in Wrappers |-> NoObject]
    /\ kindOf \in [Wrappers -> MemoryKinds]
    /\ allocations = [k \in MemoryKinds |-> {}]
-----------------------------------------------------------------------------
(* cudaFree and cudaFreeHost: a pointer the map of the kind does not know  *)
(* is ignored.                                                             *)
Without(kind, ptr) == [allocations EXCEPT ![kind] = @ \ {ptr}]

(* The constructor; where malloc fails it throws, and there is no object. *)
Construct(w) ==
    /\ ~ Constructed(w)
    /\ \E a \in Addresses \ Live :
           /\ allocations' = [allocations EXCEPT ![kindOf[w]] = @ \cup {a}]
           /\ wrapper' = [wrapper EXCEPT ![w] = a]
    /\ UNCHANGED kindOf

Destroy(w) ==
    /\ Constructed(w)
    /\ allocations' = IF wrapper[w] # NoPtr THEN Without(kindOf[w], wrapper[w])
                      ELSE allocations
    /\ wrapper' = [wrapper EXCEPT ![w] = NoObject]
    /\ UNCHANGED kindOf

MoveConstruct(w, other) ==
    /\ ~ Constructed(w) /\ Constructed(other) /\ kindOf[w] = kindOf[other]
    /\ wrapper' = [wrapper EXCEPT ![w] = wrapper[other], ![other] = NoPtr]
    /\ UNCHANGED <<kindOf, allocations>>

(* Plausible bug: the object moved from keeps its pointer. *)
BugSourceKeeps(w, other) ==
    /\ Constructed(w) /\ Constructed(other) /\ kindOf[w] = kindOf[other]
    /\ w # other
    /\ allocations' = Without(kindOf[w], wrapper[w])
    /\ wrapper' = [wrapper EXCEPT ![w] = wrapper[other]]
    /\ UNCHANGED kindOf

(* Move assignment; of an object to itself it does nothing. *)
MoveAssign(w, other) ==
    /\ Constructed(w) /\ Constructed(other) /\ kindOf[w] = kindOf[other]
    /\ w # other
    /\ allocations' = Without(kindOf[w], wrapper[w])
    /\ wrapper' = [wrapper EXCEPT ![w] = wrapper[other], ![other] = NoPtr]
    /\ UNCHANGED kindOf

BufferNext ==
    \/ \E w \in Wrappers : Construct(w)
    \/ \E w \in Wrappers : Destroy(w)
    \/ \E w, other \in Wrappers : MoveConstruct(w, other)
    \/ \E w, other \in Wrappers : MoveAssign(w, other)

BufferSpec == BufferInit /\ [][BufferNext]_bufferVars
-----------------------------------------------------------------------------
(* Every allocation has exactly one owner, of its kind, over any moves:    *)
(* nothing leaks, and since addresses come back, a pointer left behind     *)
(* would free another object's memory.                                     *)
OwnersMatch ==
    \A k \in MemoryKinds :
        LET owners == {w \in Wrappers : kindOf[w] = k /\ wrapper[w] \in Addresses}
        IN  /\ allocations[k] = {wrapper[w] : w \in owners}
            /\ Cardinality(owners) = Cardinality(allocations[k])
==============================================================================
