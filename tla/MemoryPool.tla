----------------------------- MODULE MemoryPool -----------------------------
(***************************************************************************)
(* hts::MemoryPool of the CUDA build (src/src/cuda/memory_pool.cu): a      *)
(* buddy allocator over the base region and the regions expand_pool adds.  *)
(* Every critical section of mutex_ is one step; allocate() has two of     *)
(* them, with expand_pool's between, when it must grow.                    *)
(*                                                                         *)
(* A block knows its address, a region and a place in it, and its logical  *)
(* offset, which numbers the bytes of all regions one after the other.  A  *)
(* free list is the set of the free blocks of its size: which of several   *)
(* comes to its front depends on the history, and any may here.  Halving a *)
(* block of an odd size drops the odd unit, as block.size / 2 does.  Of    *)
(* the statistics only the two byte counts are kept.                       *)
(***************************************************************************)
EXTENDS Naturals, Sequences, FiniteSetsExt

CONSTANTS
    Threads,      \* callers
    SizeBits,     \* width of size_t
    MinBlock,     \* MIN_BLOCK_SIZE
    BaseSize,     \* base_pool_size_
    Requests,     \* arguments of allocate()
    AllowGrowth,  \* allow_growth_
    MaxRegions    \* bound: regions the device has room for

(* round_up_power_of_two: from n to 2n - 1 there is one power of two. *)
RoundUp(n) ==
    IF n <= MinBlock THEN MinBlock
    ELSE CHOOSE p \in n .. 2 * n - 1 : \E k \in 0 .. SizeBits : p = 2 ^ k

ASSUME PoolAssumption ==
    /\ SizeBits \in Nat
    /\ MinBlock \in Nat \ {0}
    /\ BaseSize \in Nat \ {0} /\ RoundUp(BaseSize) = BaseSize
    /\ Requests \subseteq Nat \ {0}
    /\ \A n \in Requests : n > MinBlock => \E k \in 0 .. SizeBits : 2 ^ k \in n .. 2 * n - 1
    /\ AllowGrowth \in BOOLEAN
    /\ MaxRegions \in Nat \ {0}

VARIABLES
    free,        \* free_lists_, all of them
    allocated,   \* allocated_blocks_
    regions,     \* sizes of the base region and of additional_regions_
    poolSize,    \* pool_size_
    totalBytes,  \* stats_.total_bytes
    usedBytes,   \* stats_.used_bytes
    caller       \* where each thread is in allocate(), and for how much

poolVars == <<free, allocated, regions, poolSize, totalBytes, usedBytes, caller>>

Block == [region : Nat, at : Nat, size : Nat, offset : Nat]
BaseBlock == [region |-> 1, at |-> 0, size |-> BaseSize, offset |-> 0]
Idle == [at |-> "outside", bytes |-> 0]

PoolTypeOK ==
    /\ free \subseteq Block
    /\ allocated \subseteq Block
    /\ regions \in Seq(Nat)
    /\ totalBytes \in Nat /\ poolSize \in Nat
    /\ usedBytes \in 0 .. totalBytes
    /\ caller \in [Threads -> {Idle} \cup [at : {"expand", "retry"}, bytes : Requests]]
-----------------------------------------------------------------------------
PoolInit ==
    /\ free = {BaseBlock}
    /\ allocated = {}
    /\ regions = <<BaseSize>>
    /\ poolSize = BaseSize
    /\ totalBytes = BaseSize
    /\ usedBytes = 0
    /\ caller = [t \in Threads |-> Idle]

(* The free blocks at the front of the first list that is long enough: of  *)
(* the smallest size that fits.                                            *)
BestFits(size) ==
    {b \in free : /\ b.size >= size
                  /\ \A c \in free : c.size >= size => b.size <= c.size}

(* The sizes to which the loop of allocate() halves a block of n, and how  *)
(* often it halves block b for a request of size.                          *)
Halved(n) ==
    LET half[k \in 0 .. SizeBits] == IF k = 0 THEN n ELSE half[k - 1] \div 2
    IN  half

Splits(b, size) == Max({k \in 0 .. SizeBits : Halved(b.size)[k] >= size})

(* The part of b that is left. *)
Left(b, size) == [b EXCEPT !.size = Halved(b.size)[Splits(b, size)]]

(* Plausible bug: the loop puts back the last buddy only. *)
BugBuddies(b, size) ==
    {LET half == Halved(b.size)[k]
     IN  [region |-> b.region, at |-> b.at + half, size |-> half,
          offset |-> b.offset + half] : k \in {Splits(b, size)} \ {0}}

(* The buddies the loop cut off. *)
Buddies(b, size) ==
    {LET half == Halved(b.size)[k]
     IN  [region |-> b.region, at |-> b.at + half, size |-> half,
          offset |-> b.offset + half] : k \in 1 .. Splits(b, size)}

Take(b, bytes) ==
    LET block == Left(b, RoundUp(bytes))
    IN  /\ free' = (free \ {b}) \cup Buddies(b, RoundUp(bytes))
        /\ allocated' = allocated \cup {block}
        /\ usedBytes' = usedBytes + block.size
        /\ UNCHANGED <<regions, poolSize, totalBytes>>

(* The critical section of allocate(bytes), on the first try or after the  *)
(* pool was expanded: a block, a request to expand, or nullptr.            *)
AtAllocate(t, bytes) == caller[t] \in {Idle, [at |-> "retry", bytes |-> bytes]}

Allocate(t, bytes) ==
    /\ AtAllocate(t, bytes)
    /\ \E b \in BestFits(RoundUp(bytes)) : Take(b, bytes)
    /\ caller' = [caller EXCEPT ![t] = Idle]

MustExpand(t, bytes) ==
    /\ AtAllocate(t, bytes)
    /\ BestFits(RoundUp(bytes)) = {}
    /\ AllowGrowth
    /\ caller' = [caller EXCEPT ![t] = [at |-> "expand", bytes |-> bytes]]
    /\ UNCHANGED <<free, allocated, regions, poolSize, totalBytes, usedBytes>>

(* expand_pool, where cudaMalloc succeeds. *)
Expand(t) ==
    /\ caller[t].at = "expand"
    /\ Len(regions) < MaxRegions
    /\ LET size == Max({poolSize, RoundUp(caller[t].bytes)})
       IN  /\ regions' = Append(regions, size)
           /\ free' = free \cup {[region |-> Len(regions) + 1, at |-> 0,
                                  size |-> size, offset |-> totalBytes]}
           /\ poolSize' = poolSize + size
           /\ totalBytes' = totalBytes + size
    /\ caller' = [caller EXCEPT ![t].at = "retry"]
    /\ UNCHANGED <<allocated, usedBytes>>

(* expand_pool, where cudaMalloc fails, as it may at any time: nullptr.    *)
ExpandFails(t) ==
    /\ caller[t].at = "expand"
    /\ caller' = [caller EXCEPT ![t] = Idle]
    /\ UNCHANGED <<free, allocated, regions, poolSize, totalBytes, usedBytes>>

(* Plausible bug: neighbours that were never one block are merged.         *)
BugUnaligned(b, c) == b.size = c.size /\ c.offset = b.offset + b.size

(* Two blocks of one free list that coalesce_blocks takes for buddies.     *)
AreBuddies(b, c) ==
    /\ b.size = c.size
    /\ c.offset = b.offset + b.size
    /\ b.offset % (2 * b.size) = 0

(* coalesce_blocks for the list of one size, and for all lists in order:   *)
(* the lists of larger sizes see what the smaller ones merged to.          *)
MergeSize(blocks, size) ==
    LET pairs == {p \in blocks \X blocks : p[1].size = size /\ AreBuddies(p[1], p[2])}
    IN  (blocks \ UNION {{p[1], p[2]} : p \in pairs})
            \cup {[p[1] EXCEPT !.size = 2 * @] : p \in pairs}

Coalesced(blocks) ==
    LET upTo[size \in 0 .. totalBytes] ==
            IF size = 0 THEN blocks ELSE MergeSize(upTo[size - 1], size)
    IN  upTo[totalBytes]

(* free(ptr), for an address in allocated_blocks_; any other is ignored.   *)
Free(b) ==
    /\ \E t \in Threads : caller[t] = Idle
    /\ b \in allocated
    /\ allocated' = allocated \ {b}
    /\ usedBytes' = usedBytes - b.size
    /\ free' = Coalesced(free \cup {b})
    /\ UNCHANGED <<regions, poolSize, totalBytes, caller>>

(* Plausible bug: reset keeps the allocated blocks. *)
BugKeepsAllocated ==
    /\ \E t \in Threads : caller[t] = Idle
    /\ free' = {BaseBlock}
    /\ regions' = <<BaseSize>>
    /\ poolSize' = BaseSize
    /\ totalBytes' = BaseSize
    /\ usedBytes' = 0
    /\ UNCHANGED <<allocated, caller>>

(* reset(): the additional regions are freed. *)
Reset ==
    /\ \E t \in Threads : caller[t] = Idle
    /\ free' = {BaseBlock}
    /\ allocated' = {}
    /\ regions' = <<BaseSize>>
    /\ poolSize' = BaseSize
    /\ totalBytes' = BaseSize
    /\ usedBytes' = 0
    /\ UNCHANGED caller

PoolNext ==
    \/ \E t \in Threads, bytes \in Requests : Allocate(t, bytes)
    \/ \E t \in Threads, bytes \in Requests : MustExpand(t, bytes)
    \/ \E t \in Threads : Expand(t)
    \/ \E t \in Threads : ExpandFails(t)
    \/ \E b \in allocated : Free(b)
    \/ Reset

PoolSpec == PoolInit /\ [][PoolNext]_poolVars
-----------------------------------------------------------------------------
Blocks == free \cup allocated
BytesOf(blocks) == MapThenSumSet(LAMBDA b : b.size, blocks)

(* The blocks, free or not, cut the logical bytes of the pool into pieces: *)
(* none is lost, none is in two blocks, and the counters agree, whatever   *)
(* was split, merged, added and reset in whatever order.                   *)
Tiled ==
    /\ \A b, c \in Blocks : b # c =>
           b.offset + b.size <= c.offset \/ c.offset + c.size <= b.offset
    /\ free \cap allocated = {}
    /\ BytesOf(allocated) = usedBytes
    /\ BytesOf(Blocks) = totalBytes
    /\ totalBytes = poolSize

(* Until the pool grows no space is hidden by fragmentation that buddies   *)
(* could mend: an aligned range, of a size the region can be halved to,    *)
(* without an allocated byte lies in one free block, so an allocation that *)
(* fails had no such range.                                                *)
NoHiddenSpace ==
    Len(regions) = 1 =>
        \A size \in {n \in {Halved(BaseSize)[k] : k \in 0 .. SizeBits} : n >= MinBlock} :
            \A start \in {n \in 0 .. BaseSize - size : n % size = 0} :
                (\A b \in allocated :
                     b.offset + b.size <= start \/ start + size <= b.offset)
                => \E b \in free : b.offset <= start /\ start + size <= b.offset + b.size

(* Every block lies in its region: an address allocate() returns is that   *)
(* of as many bytes as were asked for.  Merging by logical offsets breaks  *)
(* it once the pool has grown.                                             *)
InsideRegion ==
    \A b \in Blocks : b.region \in 1 .. Len(regions)
                          /\ b.at + b.size <= regions[b.region]
==============================================================================
