---------------------------- MODULE CpuMemoryPool ----------------------------
(***************************************************************************)
(* hts::MemoryPool of the CPU-only build (src/src/cuda/cuda_stubs.cpp):    *)
(* nothing is split and nothing merged.  Every method holds mutex_ for its *)
(* whole body and is one step.  A block is free under a key: the size      *)
(* rounded up when it is new, its own size once it was freed.  Which block *)
(* of a list comes first depends on the history, and any may here.         *)
(* Addresses are region numbers: block.offset is always 0.  Sizes are in   *)
(* units of MIN_BLOCK_SIZE.                                                *)
(***************************************************************************)
EXTENDS Naturals, FiniteSetsExt

CONSTANTS
    InitialSizes,    \* sizes a pool may be constructed with
    CpuRequests,     \* arguments of allocate()
    MaxGrowth,       \* bound: regions malloc has room for
    MaxPower         \* bound: the largest power of two a size is rounded up to

ASSUME CpuPoolAssumption ==
    /\ InitialSizes \subseteq Nat \ {0}
    /\ CpuRequests \subseteq Nat \ {0}
    /\ MaxGrowth \in Nat /\ MaxPower \in Nat
    /\ \A n \in CpuRequests : \E k \in 0 .. MaxPower : 2 ^ k >= n

VARIABLES
    freeBlocks,  \* free_lists_
    inUse,       \* allocated_blocks_, with what was asked for
    malloced,    \* base_ptr_ (region 0) and additional_regions_: their sizes
    size,        \* pool_size_
    total,       \* stats_.total_bytes
    used,        \* stats_.used_bytes
    stranded     \* history: the regions that reset() has left in no list

cpuPoolVars == <<freeBlocks, inUse, malloced, size, total, used, stranded>>

SumOf(blocks) == MapThenSumSet(LAMBDA b : b.size, blocks)
Base == 0

(* round_up_power_of_two, of sizes far below its limit *)
RoundedUp(n) == Min({p \in {2 ^ k : k \in 0 .. MaxPower} : p >= n})

NewBlock(region, n) == [region |-> region, size |-> n, key |-> RoundedUp(n)]

CpuPoolTypeOK ==
    /\ \A b \in freeBlocks : b.region \in DOMAIN malloced /\ b.size > 0
    /\ \A b \in inUse : b.region \in DOMAIN malloced /\ b.bytes \in CpuRequests
    /\ DOMAIN malloced \subseteq 0 .. MaxGrowth
    /\ stranded \subseteq DOMAIN malloced
    /\ {size, total, used} \subseteq Nat

(* malloc may refuse the base region, and then the constructor goes on. *)
CpuPoolInit ==
    /\ size \in InitialSizes
    /\ \/ /\ malloced = [r \in {Base} |-> size]
          /\ freeBlocks = {NewBlock(Base, size)}
          /\ total = size
       \/ /\ malloced = [r \in {} |-> 0]
          /\ freeBlocks = {}
          /\ total = 0
    /\ inUse = {}
    /\ used = 0
    /\ stranded = {}
-----------------------------------------------------------------------------
(* Where try_allocate looks: in the list of the very size, then in the     *)
(* next longer one that is not empty.                                      *)
Candidates(blocks, n) ==
    LET longer == {b.key : b \in {c \in blocks : c.key >= n}}
    IN  {b \in blocks : longer # {} /\ b.key = Min(longer)}

(* claim_block *)
Claim(b, bytes) ==
    /\ inUse' = inUse \cup {[region |-> b.region, size |-> b.size, bytes |-> bytes]}
    /\ used' = used + b.size

AllocateFromList(bytes) ==
    /\ \E b \in Candidates(freeBlocks, RoundedUp(bytes)) :
           /\ freeBlocks' = freeBlocks \ {b}
           /\ Claim(b, bytes)
    /\ UNCHANGED <<malloced, size, total, stranded>>

(* expand_pool, at least doubling the pool, and try_allocate again, which  *)
(* finds the new block.  Without growth, or without memory, allocate has   *)
(* no effect and answers null.                                             *)
AllocateByGrowing(bytes) ==
    LET n == RoundedUp(bytes)
        grown == IF n > size THEN n ELSE size
        region == 1 + Cardinality(DOMAIN malloced \ {Base})
    IN  /\ Candidates(freeBlocks, n) = {}
        /\ region <= MaxGrowth
        /\ malloced' = [r \in DOMAIN malloced \cup {region} |->
                            IF r = region THEN grown ELSE malloced[r]]
        /\ size' = size + grown
        /\ total' = total + grown
        /\ Claim(NewBlock(region, grown), bytes)
        /\ UNCHANGED <<freeBlocks, stranded>>

(* free(); a pointer that is not allocated is ignored. *)
FreeBlock(b) ==
    /\ b \in inUse
    /\ inUse' = inUse \ {b}
    /\ used' = used - b.size
    /\ freeBlocks' = freeBlocks \cup {[region |-> b.region, size |-> b.size, key |-> b.size]}
    /\ UNCHANGED <<malloced, size, total, stranded>>

(* Plausible bug: reset leaves the free lists as they are. *)
BugKeepsFreeLists ==
    /\ inUse' = {}
    /\ used' = 0
    /\ IF Base \in DOMAIN malloced
       THEN freeBlocks' = freeBlocks \cup {NewBlock(Base, size)} /\ total' = size
       ELSE UNCHANGED <<freeBlocks, total>>
    /\ stranded' = DOMAIN malloced \ {Base}
    /\ UNCHANGED <<malloced, size>>

(* reset(): one block at base_ptr_ as long as the pool has grown to; the   *)
(* other regions wait for the destructor.                                  *)
ResetPool ==
    /\ inUse' = {}
    /\ used' = 0
    /\ IF Base \in DOMAIN malloced
       THEN freeBlocks' = {NewBlock(Base, size)} /\ total' = size
       ELSE freeBlocks' = {} /\ UNCHANGED total
    /\ stranded' = DOMAIN malloced \ {Base}
    /\ UNCHANGED <<malloced, size>>

CpuPoolNext ==
    \/ \E bytes \in CpuRequests : AllocateFromList(bytes)
    \/ \E bytes \in CpuRequests : AllocateByGrowing(bytes)
    \/ \E b \in inUse : FreeBlock(b)
    \/ ResetPool

CpuPoolSpec == CpuPoolInit /\ [][CpuPoolNext]_cpuPoolVars
-----------------------------------------------------------------------------
(* Every region that malloc gave is one block, free or handed out but     *)
(* never both, and the block is as long as the region, until a reset() of  *)
(* a grown pool: that strands the regions beside the base one in no block, *)
(* and makes the base block longer than its region, while those added      *)
(* later are whole again.  The bytes in use are those of the blocks handed *)
(* out, over any growth and any reset, and the blocks add up to what       *)
(* total_size() and get_stats() say: unless malloc refused the base        *)
(* region, which reset() then cannot put back.                             *)
CpuConserved ==
    LET blocks == freeBlocks \cup inUse IN
    /\ \A b, c \in blocks : b.region = c.region => b = c
    /\ {b.region : b \in blocks} = DOMAIN malloced \ stranded
    /\ \A b \in blocks : b.region # Base \/ stranded = {} => b.size = malloced[b.region]
    /\ used = SumOf(inUse)
    /\ Base \in DOMAIN malloced =>
           /\ SumOf(freeBlocks) + SumOf(inUse) = total
           /\ total = size

(* Memory that allocate() handed out is as long as was asked for.          *)
CpuRequestServed ==
    \A b \in inUse : b.bytes <= malloced[b.region]
==============================================================================
