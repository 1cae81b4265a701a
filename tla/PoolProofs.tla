----------------------------- MODULE PoolProofs -----------------------------
(***************************************************************************)
(* The two memory pools, for every value of their constants: that of the   *)
(* CPU-only build keeps every region malloc gave it in one block, but for  *)
(* those a reset strands, and in that of the CUDA build the blocks tile    *)
(* the pool, whatever is split, merged, added and reset.                   *)
(***************************************************************************)
EXTENDS MemoryPool, CpuMemoryPool, FiniteInduction, FunctionTheorems, SequenceTheorems

-----------------------------------------------------------------------------
(* The pool of the CPU-only build.  Its sums are those of FiniteInduction. *)
LEMMA SizesAreSummed ==
    ASSUME NEW B
    PROVE  SumOf(B) = SumOver([b \in B |-> b.size], B)
<1> DEFINE P(it) == it = [s \in SUBSET B |->
               IF s = {} THEN 0 ELSE FirstOf(s).size + it[s \ {FirstOf(s)}]]
           w == [b \in B |-> b.size]
<1>1. SumOf(B) = (CHOOSE it : P(it))[B]
  BY DEF SumOf, MapThenSumSet, MapThenFoldSet, FirstOf
<1>2. ASSUME NEW it
      PROVE  P(it) <=> Adds(w, B, it)
  <2>1. \A s \in SUBSET B : s # {} => FirstOf(s).size = w[FirstOf(s)]
    BY FirstIsMember
  <2> HIDE DEF w
  <2>2. [s \in SUBSET B |->
            IF s = {} THEN 0 ELSE FirstOf(s).size + it[s \ {FirstOf(s)}]]
          = [s \in SUBSET B |->
            IF s = {} THEN 0 ELSE w[FirstOf(s)] + it[s \ {FirstOf(s)}]]
    BY <2>1
  <2> QED
    BY <2>2 DEF Adds
<1> HIDE DEF P, w
<1>3. (CHOOSE it : P(it)) = (CHOOSE it : Adds(w, B, it))
  BY <1>2, Zenon
<1> QED
  BY <1>1, <1>3, SumIsFold DEF w

Sized(B) == IsFiniteSet(B) /\ \A b \in B : b.size \in Nat

LEMMA NoBlocksNoBytes == SumOf({}) = 0
  BY SizesAreSummed, SumStep, FS_EmptySet

LEMMA BytesAreNatural ==
    ASSUME NEW B, Sized(B)
    PROVE  SumOf(B) \in Nat
<1> PICK w : w = [b \in B |-> b.size]
  OBVIOUS
<1>1. SumOver(w, B) \in Nat
  BY SumType DEF Sized
<1> QED
  BY <1>1, SizesAreSummed

LEMMA BlockTaken ==
    ASSUME NEW B, Sized(B), NEW x \in B
    PROVE  Sized(B \ {x}) /\ SumOf(B) = x.size + SumOf(B \ {x})
<1> PICK w, v, R : w = [b \in B |-> b.size] /\ v = [b \in B \ {x} |-> b.size] /\ R = B \ {x}
  OBVIOUS
<1>1. IsFiniteSet(B) /\ IsFiniteSet(R) /\ x \in B
  BY FS_Subset DEF Sized
<1>2. \A b \in B : w[b] \in Nat
  BY DEF Sized
<1>3. SumOver(w, B) = w[x] + SumOver(w, R)
  BY <1>1, <1>2, SumTake
<1>4. \A b \in R : v[b] = w[b]
  OBVIOUS
<1>5. SumOver(v, R) = SumOver(w, R)
  BY <1>1, <1>4, SumSame
<1>6. SumOf(B) = SumOver(w, B) /\ SumOf(R) = SumOver(v, R)
  BY SizesAreSummed
<1> QED
  BY <1>1, <1>3, <1>5, <1>6 DEF Sized

LEMMA BlockPut ==
    ASSUME NEW B, Sized(B), NEW x, x \notin B, x.size \in Nat
    PROVE  Sized(B \cup {x}) /\ SumOf(B \cup {x}) = SumOf(B) + x.size
<1>1. Sized(B \cup {x})
  BY FS_AddElement DEF Sized
<1>2. (B \cup {x}) \ {x} = B
  OBVIOUS
<1>3. SumOf(B \cup {x}) = x.size + SumOf(B)
  BY <1>1, <1>2, BlockTaken
<1>4. SumOf(B) \in Nat
  BY BytesAreNatural
<1> QED
  BY <1>1, <1>3, <1>4

(* round_up_power_of_two never rounds down. *)
LEMMA RoundedUpFits ==
    ASSUME NEW n \in CpuRequests
    PROVE  RoundedUp(n) \in Nat /\ RoundedUp(n) >= n
<1>1. n \in Nat /\ MaxPower \in Nat /\ \E k \in 0 .. MaxPower : 2 ^ k >= n
  BY CpuPoolAssumption DEF CpuPoolAssumption
<1>2. PICK T : T = {p \in {2 ^ k : k \in 0 .. MaxPower} : p >= n}
  OBVIOUS
<1>3. T # {}
  BY <1>1, <1>2
<1>4. \A p \in T : p >= n /\ p \in Nat
  BY <1>1, <1>2
<1>5. \E p \in T : \A q \in T : p <= q
  BY <1>3, <1>4, LeastOf
<1>6. RoundedUp(n) \in T
  BY <1>2, <1>5 DEF RoundedUp, Min
<1> QED
  BY <1>4, <1>6

(* Every block is at an address of its own, and regions are numbered from  *)
(* one on, so that a new region is at a new address, too.                  *)
Apart ==
    /\ \A b, c \in freeBlocks : b.region = c.region => b = c
    /\ \A b, c \in inUse : b.region = c.region => b = c
    /\ \A b \in freeBlocks, c \in inUse : b.region # c.region
RegionsInOrder ==
    \E k \in Nat : k <= MaxGrowth /\ DOMAIN malloced \ {Base} = 1 .. k
BlocksOwned ==
    /\ \A b \in freeBlocks : b.region \in DOMAIN malloced /\ b.size \in Nat \ {0}
    /\ \A b \in inUse : b.region \in DOMAIN malloced /\ b.size \in Nat \ {0}
                            /\ b.bytes \in CpuRequests
BytesAgree ==
    /\ used = SumOf(inUse)
    /\ Base \in DOMAIN malloced =>
           SumOf(freeBlocks) + SumOf(inUse) = total /\ total = size
(* A region is stranded by a reset of a grown pool only: one that has not  *)
(* grown is as long as its base region.                                    *)
RegionsKept ==
    /\ {b.region : b \in freeBlocks} \cup {b.region : b \in inUse} = DOMAIN malloced \ stranded
    /\ stranded \subseteq DOMAIN malloced \ {Base}
    /\ DOMAIN malloced = {Base} => size = malloced[Base]
BlocksWhole ==
    /\ \A b \in freeBlocks : b.region # Base \/ stranded = {} => b.size = malloced[b.region]
    /\ \A b \in inUse : b.region # Base \/ stranded = {} => b.size = malloced[b.region]
CpuInv ==
    /\ IsFiniteSet(freeBlocks) /\ IsFiniteSet(inUse)
    /\ size \in Nat \ {0} /\ total \in Nat
    /\ BlocksOwned /\ Apart /\ RegionsInOrder /\ BytesAgree
    /\ RegionsKept /\ BlocksWhole

LEMMA CpuInvSized ==
    ASSUME CpuInv
    PROVE  /\ Sized(freeBlocks) /\ Sized(inUse)
           /\ SumOf(freeBlocks) \in Nat /\ SumOf(inUse) \in Nat /\ used = SumOf(inUse)
<1>1. Sized(freeBlocks) /\ Sized(inUse)
  BY DEF CpuInv, BlocksOwned, Sized
<1> QED
  BY <1>1, BytesAreNatural DEF CpuInv, BytesAgree

LEMMA CpuInvInit == CpuPoolInit => CpuInv
<1> SUFFICES ASSUME CpuPoolInit
             PROVE  CpuInv
  OBVIOUS
<1>1. size \in Nat \ {0} /\ MaxGrowth \in Nat
  BY CpuPoolAssumption DEF CpuPoolInit, CpuPoolAssumption
<1>2. inUse = {} /\ used = 0 /\ stranded = {} /\ IsFiniteSet({})
  BY FS_EmptySet DEF CpuPoolInit
<1>3. DOMAIN malloced \ {Base} = 1 .. 0
  BY DEF CpuPoolInit, Base
<1>4. RegionsInOrder
  BY <1>1, <1>3 DEF RegionsInOrder
<1>5. CASE Base \in DOMAIN malloced
  <2>1. malloced = [r \in {Base} |-> size] /\ freeBlocks = {NewBlock(Base, size)} /\ total = size
    BY <1>5 DEF CpuPoolInit
  <2> PICK b : b = NewBlock(Base, size)
    OBVIOUS
  <2>2. b.size = size /\ b.region = Base
    BY DEF NewBlock
  <2>3. Sized({}) /\ b \notin {} /\ b.size \in Nat
    BY <1>1, <1>2, <2>2 DEF Sized
  <2>4. Sized({} \cup {b}) /\ SumOf({} \cup {b}) = SumOf({}) + b.size
    BY <2>3, BlockPut
  <2>5. {} \cup {b} = freeBlocks
    BY <2>1
  <2>6. SumOf(freeBlocks) = size /\ IsFiniteSet(freeBlocks)
    BY <1>1, <2>2, <2>4, <2>5, NoBlocksNoBytes DEF Sized
  <2>7. RegionsKept /\ BlocksWhole
    BY <1>2, <2>1, <2>2 DEF RegionsKept, BlocksWhole
  <2> QED
    BY <1>1, <1>2, <1>4, <2>1, <2>2, <2>6, <2>7, NoBlocksNoBytes
       DEF CpuInv, BlocksOwned, Apart, BytesAgree
<1>6. CASE Base \notin DOMAIN malloced
  <2>1. freeBlocks = {} /\ total = 0 /\ malloced = [r \in {} |-> 0]
    BY <1>6 DEF CpuPoolInit
  <2>2. DOMAIN malloced = {}
    BY <2>1
  <2>3. RegionsKept /\ BlocksWhole
    BY <1>2, <2>1, <2>2 DEF RegionsKept, BlocksWhole
  <2> QED
    BY <1>1, <1>2, <1>4, <1>6, <2>1, <2>3, NoBlocksNoBytes
       DEF CpuInv, BlocksOwned, Apart, BytesAgree
<1> QED
  BY <1>5, <1>6

LEMMA AllocateFromListKeeps ==
    ASSUME CpuInv, NEW bytes \in CpuRequests, AllocateFromList(bytes)
    PROVE  CpuInv'
<1>1. PICK b \in Candidates(freeBlocks, RoundedUp(bytes)) :
          freeBlocks' = freeBlocks \ {b} /\ Claim(b, bytes)
  BY DEF AllocateFromList
<1>2. b \in freeBlocks /\ UNCHANGED <<malloced, size, total, stranded>>
  BY DEF AllocateFromList, Candidates
<1>3. PICK c : c = [region |-> b.region, size |-> b.size, bytes |-> bytes]
  OBVIOUS
<1>4. c.region = b.region /\ c.size = b.size /\ c.bytes = bytes
  BY <1>3
<1>5. inUse' = inUse \cup {c} /\ used' = used + b.size
  BY <1>1, <1>3 DEF Claim
<1>6. b.region \in DOMAIN malloced /\ b.size \in Nat \ {0} /\ c \notin inUse
  BY <1>2, <1>4 DEF CpuInv, BlocksOwned, Apart
<1>7. /\ Sized(freeBlocks) /\ Sized(inUse)
      /\ SumOf(freeBlocks) \in Nat /\ SumOf(inUse) \in Nat /\ used = SumOf(inUse)
  BY CpuInvSized
<1>8. Sized(freeBlocks') /\ SumOf(freeBlocks) = b.size + SumOf(freeBlocks')
  BY <1>1, <1>2, <1>7, BlockTaken
<1>9. c.size \in Nat
  BY <1>4, <1>6
<1>10. Sized(inUse') /\ SumOf(inUse') = SumOf(inUse) + b.size
  BY <1>4, <1>5, <1>6, <1>7, <1>9, BlockPut
<1>11. SumOf(freeBlocks') \in Nat
  BY <1>8, BytesAreNatural
<1>12. BytesAgree'
  BY <1>2, <1>5, <1>6, <1>7, <1>8, <1>10, <1>11 DEF CpuInv, BytesAgree
<1>13. BlocksOwned'
  BY <1>1, <1>2, <1>4, <1>5, <1>6 DEF CpuInv, BlocksOwned
<1>14. Apart'
  BY <1>1, <1>2, <1>4, <1>5 DEF CpuInv, Apart
<1>15. RegionsInOrder'
  BY <1>2 DEF CpuInv, RegionsInOrder
<1>16. RegionsKept'
  BY <1>1, <1>2, <1>4, <1>5 DEF CpuInv, RegionsKept
<1>17. BlocksWhole'
  BY <1>1, <1>2, <1>4, <1>5 DEF CpuInv, BlocksWhole
<1> QED
  BY <1>2, <1>8, <1>10, <1>12, <1>13, <1>14, <1>15, <1>16, <1>17 DEF CpuInv, Sized

LEMMA AllocateByGrowingKeeps ==
    ASSUME CpuInv, NEW bytes \in CpuRequests, AllocateByGrowing(bytes)
    PROVE  CpuInv'
<1> PICK n : n = RoundedUp(bytes)
  OBVIOUS
<1> DEFINE grown == IF n > size THEN n ELSE size
           region == 1 + Cardinality(DOMAIN malloced \ {Base})
<1>1. n \in Nat /\ size \in Nat \ {0} /\ total \in Nat
  BY RoundedUpFits DEF CpuInv
<1>2. grown \in Nat \ {0}
  BY <1>1
<1>3. /\ region <= MaxGrowth
      /\ malloced' = [r \in DOMAIN malloced \cup {region} |->
                          IF r = region THEN grown ELSE malloced[r]]
      /\ size' = size + grown /\ total' = total + grown
      /\ Claim(NewBlock(region, grown), bytes)
      /\ UNCHANGED <<freeBlocks, stranded>>
  BY DEF AllocateByGrowing
<1>4. PICK k \in Nat : k <= MaxGrowth /\ DOMAIN malloced \ {Base} = 1 .. k
  BY DEF CpuInv, RegionsInOrder
<1>5. region = k + 1
  <2>1. \A j \in Nat : Cardinality(1 .. j) = j
    BY FS_Interval
  <2>2. Cardinality(1 .. k) = k
    BY <2>1
  <2>3. Cardinality(DOMAIN malloced \ {Base}) = k
    BY <1>4, <2>2
  <2> QED
    BY <2>3
<1> HIDE DEF grown, region
<1>6. /\ region \notin DOMAIN malloced /\ region # Base
      /\ DOMAIN malloced' = DOMAIN malloced \cup {region}
  BY <1>3, <1>4, <1>5 DEF Base
<1>7. PICK c : c = [region |-> region, size |-> grown, bytes |-> bytes]
  OBVIOUS
<1>8. c.region = region /\ c.size = grown /\ c.bytes = bytes
  BY <1>7
<1>9. inUse' = inUse \cup {c} /\ used' = used + grown
  BY <1>3, <1>7 DEF Claim, NewBlock
<1>10. /\ \A b \in freeBlocks : b.region \in DOMAIN malloced
       /\ \A b \in inUse : b.region \in DOMAIN malloced
  BY DEF CpuInv, BlocksOwned
<1>11. c \notin inUse
  BY <1>6, <1>8, <1>10
<1>12. /\ Sized(freeBlocks) /\ Sized(inUse)
       /\ SumOf(freeBlocks) \in Nat /\ SumOf(inUse) \in Nat /\ used = SumOf(inUse)
  BY CpuInvSized
<1>13. c.size \in Nat
  BY <1>2, <1>8
<1>14. Sized(inUse') /\ SumOf(inUse') = SumOf(inUse) + grown
  BY <1>8, <1>9, <1>11, <1>12, <1>13, BlockPut
<1>15. BytesAgree'
  BY <1>1, <1>2, <1>3, <1>6, <1>9, <1>12, <1>14 DEF CpuInv, BytesAgree
<1>16. BlocksOwned'
  BY <1>2, <1>3, <1>6, <1>8, <1>9 DEF CpuInv, BlocksOwned
<1>17. Apart'
  BY <1>3, <1>6, <1>8, <1>9, <1>10 DEF CpuInv, Apart
<1>18. RegionsInOrder'
  <2>1. DOMAIN malloced' \ {Base} = 1 .. k + 1
    BY <1>4, <1>5, <1>6
  <2> QED
    BY <1>3, <1>4, <1>5, <2>1 DEF RegionsInOrder
<1>19. malloced'[region] = grown /\ \A r \in DOMAIN malloced : malloced'[r] = malloced[r]
  BY <1>3, <1>6
<1>20. RegionsKept'
  <2>1. DOMAIN malloced' # {Base}
    BY <1>6
  <2> QED
    BY <1>3, <1>6, <1>8, <1>9, <2>1 DEF CpuInv, RegionsKept
<1>21. BlocksWhole'
  BY <1>3, <1>8, <1>9, <1>10, <1>19 DEF CpuInv, BlocksWhole
<1> QED
  BY <1>1, <1>2, <1>3, <1>12, <1>14, <1>15, <1>16, <1>17, <1>18, <1>20, <1>21 DEF CpuInv, Sized

LEMMA FreeBlockKeeps ==
    ASSUME CpuInv, NEW b \in inUse, FreeBlock(b)
    PROVE  CpuInv'
<1>1. inUse' = inUse \ {b} /\ used' = used - b.size /\ UNCHANGED <<malloced, size, total, stranded>>
  BY DEF FreeBlock
<1>2. PICK c : c = [region |-> b.region, size |-> b.size, key |-> b.size]
  OBVIOUS
<1>3. c.region = b.region /\ c.size = b.size /\ freeBlocks' = freeBlocks \cup {c}
  BY <1>2 DEF FreeBlock
<1>4. b.region \in DOMAIN malloced /\ b.size \in Nat \ {0} /\ c \notin freeBlocks
  BY <1>3 DEF CpuInv, BlocksOwned, Apart
<1>5. /\ Sized(freeBlocks) /\ Sized(inUse)
      /\ SumOf(freeBlocks) \in Nat /\ SumOf(inUse) \in Nat /\ used = SumOf(inUse)
  BY CpuInvSized
<1>6. Sized(inUse') /\ SumOf(inUse) = b.size + SumOf(inUse')
  BY <1>1, <1>5, BlockTaken
<1>7. c.size \in Nat
  BY <1>3, <1>4
<1>8. Sized(freeBlocks') /\ SumOf(freeBlocks') = SumOf(freeBlocks) + b.size
  BY <1>3, <1>4, <1>5, <1>7, BlockPut
<1>9. SumOf(inUse') \in Nat
  BY <1>6, BytesAreNatural
<1>10. BytesAgree'
  BY <1>1, <1>4, <1>5, <1>6, <1>8, <1>9 DEF CpuInv, BytesAgree
<1>11. BlocksOwned'
  BY <1>1, <1>3, <1>4 DEF CpuInv, BlocksOwned
<1>12. Apart'
  BY <1>1, <1>3 DEF CpuInv, Apart
<1>13. RegionsInOrder'
  BY <1>1 DEF CpuInv, RegionsInOrder
<1>14. RegionsKept'
  BY <1>1, <1>3 DEF CpuInv, RegionsKept
<1>15. BlocksWhole'
  BY <1>1, <1>3 DEF CpuInv, BlocksWhole
<1> QED
  BY <1>1, <1>6, <1>8, <1>10, <1>11, <1>12, <1>13, <1>14, <1>15 DEF CpuInv, Sized

LEMMA ResetPoolKeeps ==
    ASSUME CpuInv, ResetPool
    PROVE  CpuInv'
<1>1. /\ inUse' = {} /\ used' = 0 /\ stranded' = DOMAIN malloced \ {Base}
      /\ UNCHANGED <<malloced, size>> /\ IsFiniteSet({})
  BY FS_EmptySet DEF ResetPool
<1>2. size \in Nat \ {0} /\ RegionsInOrder'
  BY <1>1 DEF CpuInv, RegionsInOrder
<1>3. CASE Base \in DOMAIN malloced
  <2> PICK b : b = NewBlock(Base, size)
    OBVIOUS
  <2>1. freeBlocks' = {b} /\ total' = size
    BY <1>3 DEF ResetPool
  <2>2. b.size = size /\ b.region = Base
    BY DEF NewBlock
  <2>3. Sized({}) /\ b \notin {} /\ b.size \in Nat
    BY <1>1, <1>2, <2>2 DEF Sized
  <2>4. Sized({} \cup {b}) /\ SumOf({} \cup {b}) = SumOf({}) + b.size
    BY <2>3, BlockPut
  <2>5. {} \cup {b} = freeBlocks'
    BY <2>1
  <2>6. SumOf(freeBlocks') = size /\ IsFiniteSet(freeBlocks')
    BY <1>2, <2>2, <2>4, <2>5, NoBlocksNoBytes DEF Sized
  <2>7. RegionsKept'
    BY <1>1, <1>3, <2>1, <2>2 DEF CpuInv, RegionsKept
  <2>8. BlocksWhole'
    <3>1. stranded' = {} => DOMAIN malloced = {Base}
      BY <1>1, <1>3
    <3>2. DOMAIN malloced = {Base} => size = malloced[Base]
      BY DEF CpuInv, RegionsKept
    <3> QED
      BY <1>1, <2>1, <2>2, <3>1, <3>2 DEF BlocksWhole
  <2> QED
    BY <1>1, <1>2, <1>3, <2>1, <2>2, <2>6, <2>7, <2>8, NoBlocksNoBytes
       DEF CpuInv, BlocksOwned, Apart, BytesAgree
<1>4. CASE Base \notin DOMAIN malloced
  <2>1. freeBlocks' = {} /\ total' = total
    BY <1>4 DEF ResetPool
  <2>2. RegionsKept' /\ BlocksWhole'
    BY <1>1, <1>4, <2>1 DEF CpuInv, RegionsKept, BlocksWhole
  <2> QED
    BY <1>1, <1>2, <1>4, <2>1, <2>2, NoBlocksNoBytes
       DEF CpuInv, BlocksOwned, Apart, BytesAgree
<1> QED
  BY <1>3, <1>4

LEMMA CpuInvStep == CpuInv /\ [CpuPoolNext]_cpuPoolVars => CpuInv'
<1> SUFFICES ASSUME CpuInv, [CpuPoolNext]_cpuPoolVars
             PROVE  CpuInv'
  OBVIOUS
<1>1. CASE UNCHANGED cpuPoolVars
  BY <1>1 DEF cpuPoolVars, CpuInv, BlocksOwned, Apart, RegionsInOrder, BytesAgree,
              RegionsKept, BlocksWhole
<1> QED
  BY <1>1, AllocateFromListKeeps, AllocateByGrowingKeeps, FreeBlockKeeps, ResetPoolKeeps
     DEF CpuPoolNext

LEMMA CpuInvHolds == CpuPoolSpec => []CpuInv
  BY CpuInvInit, CpuInvStep, PTL DEF CpuPoolSpec

LEMMA CpuInvTyped == CpuInv => CpuPoolTypeOK
<1> SUFFICES ASSUME CpuInv
             PROVE  CpuPoolTypeOK
  OBVIOUS
<1>1. used \in Nat
  BY CpuInvSized
<1>2. DOMAIN malloced \subseteq 0 .. MaxGrowth
  <2>1. PICK k \in Nat : k <= MaxGrowth /\ DOMAIN malloced \ {Base} = 1 .. k
    BY DEF CpuInv, RegionsInOrder
  <2>2. MaxGrowth \in Nat
    BY CpuPoolAssumption DEF CpuPoolAssumption
  <2> QED
    BY <2>1, <2>2 DEF Base
<1>3. stranded \subseteq DOMAIN malloced
  BY DEF CpuInv, RegionsKept
<1> QED
  BY <1>1, <1>2, <1>3 DEF CpuInv, CpuPoolTypeOK, BlocksOwned

(* The blocks, the regions and the counters of the pool keep their types,  *)
(* for any sizes and requests.                                             *)
THEOREM CpuPoolTypeCorrect == CpuPoolSpec => []CpuPoolTypeOK
  BY CpuInvHolds, CpuInvTyped, PTL

(* Every region of the CPU-only pool that no reset has stranded is one     *)
(* block, and one as long as the region as long as there was no such       *)
(* reset; the counters say how many bytes are in use and how many there    *)
(* are, for any sizes and requests and any number of growths.              *)
THEOREM CpuBytesConserved == CpuPoolSpec => []CpuConserved
<1>1. CpuInv => CpuConserved
  <2> SUFFICES ASSUME CpuInv
               PROVE  CpuConserved
    OBVIOUS
  <2> PICK blocks : blocks = freeBlocks \cup inUse
    OBVIOUS
  <2>1. \A b, c \in blocks : b.region = c.region => b = c
    BY DEF CpuInv, Apart
  <2>2. {b.region : b \in blocks} = DOMAIN malloced \ stranded
    <3>1. {b.region : b \in blocks}
              = {b.region : b \in freeBlocks} \cup {b.region : b \in inUse}
      OBVIOUS
    <3> QED
      BY <3>1 DEF CpuInv, RegionsKept
  <2>3. \A b \in blocks : b.region # Base \/ stranded = {} => b.size = malloced[b.region]
    BY DEF CpuInv, BlocksWhole
  <2> QED
    BY <2>1, <2>2, <2>3 DEF CpuInv, BytesAgree, CpuConserved
<1> QED
  BY <1>1, CpuInvHolds, PTL
-----------------------------------------------------------------------------
LEMMA SameSums == ASSUME NEW B PROVE BytesOf(B) = SumOf(B)
BY DEF BytesOf, SumOf

(* Some of the blocks have no more bytes than all of them. *)
LEMMA PartHasNoMore ==
    ASSUME NEW B, Sized(B), NEW A \in SUBSET B
    PROVE  Sized(A) /\ SumOf(A) <= SumOf(B)
<1> DEFINE F == {s \in SUBSET B : ~ (\A r \in SUBSET s : SumOf(r) <= SumOf(s))}
<1>1. F = {}
  <2> SUFFICES ASSUME F # {}
               PROVE  FALSE
    OBVIOUS
  <2>1. F \in SUBSET SUBSET B /\ IsFiniteSet(B)
    BY DEF Sized
  <2>2. \A s : s \in F <=> s \in SUBSET B /\ \E r \in SUBSET s : ~ (SumOf(r) <= SumOf(s))
    OBVIOUS
  <2> HIDE DEF F
  <2>3. PICK s \in F : \A t \in F : ~ (t \subseteq s /\ t # s)
    BY <2>1, SmallestOf
  <2>4. PICK r \in SUBSET s : ~ (SumOf(r) <= SumOf(s))
    BY <2>2
  <2>5. s \in SUBSET B /\ Sized(s) /\ Sized(r)
    BY <2>2, FS_Subset DEF Sized
  <2>6. SumOf(s) \in Nat /\ SumOf(r) \in Nat
    BY <2>5, BytesAreNatural
  <2>7. r # s
    BY <2>4, <2>6
  <2>8. PICK x : x \in s /\ x \notin r
    BY <2>7
  <2>9. Sized(s \ {x}) /\ SumOf(s) = x.size + SumOf(s \ {x}) /\ x.size \in Nat
    BY <2>5, <2>8, BlockTaken DEF Sized
  <2>10. SumOf(s \ {x}) \in Nat
    BY <2>9, BytesAreNatural
  <2>11. s \ {x} \in SUBSET B /\ s \ {x} \notin F /\ r \in SUBSET (s \ {x})
    BY <2>3, <2>5, <2>8
  <2>12. SumOf(r) <= SumOf(s \ {x})
    BY <2>2, <2>11
  <2> QED
    BY <2>4, <2>6, <2>9, <2>10, <2>12
<1>2. B \in SUBSET B /\ B \notin F
  BY <1>1
<1>3. \A r \in SUBSET B : SumOf(r) <= SumOf(B)
  BY <1>2
<1> QED
  BY <1>3, FS_Subset DEF Sized
-----------------------------------------------------------------------------
(* The pool of the CUDA build.  A tiling of n bytes: pieces of at least a  *)
(* byte each, none beyond the end and no two of them across each other.    *)
Piece == [region : Nat, at : Nat, size : Nat \ {0}, offset : Nat]
Clear(b, c) == b.offset + b.size <= c.offset \/ c.offset + c.size <= b.offset

Tiling(W, n) ==
    /\ IsFiniteSet(W) /\ W \subseteq Piece
    /\ \A b, c \in W : b # c => Clear(b, c)
    /\ \A b \in W : b.offset + b.size <= n

LEMMA TilingSized ==
    ASSUME NEW W, NEW n, Tiling(W, n)
    PROVE  Sized(W) /\ SumOf(W) \in Nat
<1>1. Sized(W)
  BY DEF Tiling, Sized, Piece
<1> QED
  BY <1>1, BytesAreNatural

(* Nothing in a tiling begins where a piece does, or inside it. *)
LEMMA Covered ==
    ASSUME NEW W, NEW n, Tiling(W, n), NEW x \in W, NEW y,
           y.size \in Nat \ {0}, y.offset \in Nat,
           x.offset <= y.offset, y.offset < x.offset + x.size, y # x
    PROVE  y \notin W
BY DEF Tiling, Clear, Piece

(* What is left of a piece, and the buddy, when it is cut in two of h. *)
Rest(x, h) == [x EXCEPT !.size = h]
Buddy(x, h) == [region |-> x.region, at |-> x.at + h, size |-> h, offset |-> x.offset + h]

LEMMA CutFields ==
    ASSUME NEW x \in Piece, NEW h \in Nat \ {0}
    PROVE  /\ Rest(x, h) \in Piece /\ Rest(x, h).size = h /\ Rest(x, h).offset = x.offset
           /\ Buddy(x, h) \in Piece /\ Buddy(x, h).size = h
           /\ Buddy(x, h).offset = x.offset + h
           /\ Rest(x, h) # Buddy(x, h)
<1>1. PICK r : r = Rest(x, h)
  OBVIOUS
<1>2. r \in Piece /\ r.size = h /\ r.offset = x.offset
  BY <1>1 DEF Rest, Piece
<1>3. PICK y : y = Buddy(x, h)
  OBVIOUS
<1>4. y \in Piece /\ y.size = h /\ y.offset = x.offset + h
  BY <1>3 DEF Buddy, Piece
<1>5. x.offset \in Nat
  BY DEF Piece
<1> QED
  BY <1>1, <1>2, <1>3, <1>4, <1>5

(* Cutting a piece in two, neither of them longer than half of it. *)
CutOff(W, x, h) == (W \ {x}) \cup {Rest(x, h), Buddy(x, h)}

LEMMA CutKeepsTiling ==
    ASSUME NEW W, NEW n \in Nat, Tiling(W, n), NEW x \in W,
           NEW h \in Nat \ {0}, 2 * h <= x.size
    PROVE  /\ Tiling(CutOff(W, x, h), n)
           /\ SumOf(CutOff(W, x, h)) = SumOf(W) - (x.size - 2 * h)
           /\ Buddy(x, h) \notin W /\ Rest(x, h) \notin W \ {x}
<1> PICK r, y, R : r = Rest(x, h) /\ y = Buddy(x, h) /\ R = W \ {x}
  OBVIOUS
<1>1. x \in Piece /\ x.size \in Nat \ {0} /\ x.offset \in Nat /\ x.offset + x.size <= n
  BY DEF Tiling, Piece
<1>2. /\ r \in Piece /\ r.size = h /\ r.offset = x.offset
      /\ y \in Piece /\ y.size = h /\ y.offset = x.offset + h /\ r # y
  BY <1>1, CutFields
<1>3. y \notin W /\ r \notin R
  <2>1. y # x
    BY <1>1, <1>2
  <2>2. y \notin W
    BY <1>1, <1>2, <2>1, Covered
  <2>3. r \in W => r = x
    BY <1>1, <1>2, Covered
  <2> QED
    BY <2>2, <2>3
<1>4. Sized(W) /\ Sized(R) /\ SumOf(W) = x.size + SumOf(R) /\ SumOf(R) \in Nat
  BY TilingSized, BlockTaken, BytesAreNatural
<1>5. Sized(R \cup {r}) /\ SumOf(R \cup {r}) = SumOf(R) + h
  BY <1>2, <1>3, <1>4, BlockPut
<1>6. y \notin R \cup {r}
  BY <1>2, <1>3
<1> PICK Q, V : Q = R \cup {r} /\ V = Q \cup {y}
  OBVIOUS
<1>7. Sized(V) /\ SumOf(V) = SumOf(Q) + h
  BY <1>2, <1>5, <1>6, BlockPut
<1>8. SumOf(V) = SumOf(W) - (x.size - 2 * h)
  BY <1>1, <1>4, <1>5, <1>7
<1>9. \A b \in R : b \in Piece /\ Clear(b, x) /\ b.offset + b.size <= n
  BY DEF Tiling, Clear
<1>10. ASSUME NEW b \in R
       PROVE  Clear(b, r) /\ Clear(r, b) /\ Clear(b, y) /\ Clear(y, b)
  <2>1. b.offset \in Nat /\ b.size \in Nat /\ Clear(b, x)
    BY <1>9 DEF Piece
  <2> QED
    BY <1>1, <1>2, <2>1 DEF Clear
<1>11. Clear(r, y) /\ Clear(y, r)
  BY <1>1, <1>2 DEF Clear
<1>12. \A b, c \in V : b # c => Clear(b, c)
  <2>1. \A b, c \in R : b # c => Clear(b, c)
    BY DEF Tiling
  <2>2. \A b : b \in V <=> b \in R \/ b = r \/ b = y
    OBVIOUS
  <2> QED
    BY <1>10, <1>11, <2>1, <2>2
<1>13. \A b \in V : b \in Piece /\ b.offset + b.size <= n
  <2>1. r.offset + r.size <= n /\ y.offset + y.size <= n
    BY <1>1, <1>2
  <2> QED
    BY <1>2, <1>9, <2>1
<1>14. Tiling(V, n)
  BY <1>7, <1>12, <1>13 DEF Tiling, Sized
<1>15. V = CutOff(W, x, h)
  BY DEF CutOff
<1> QED
  BY <1>3, <1>8, <1>14, <1>15

(* Joining two pieces of one size, of which the second begins where the    *)
(* first ends.                                                             *)
Joined(x) == [x EXCEPT !.size = 2 * @]
JoinUp(W, x, y) == (W \ {x, y}) \cup {Joined(x)}

LEMMA JoinKeepsTiling ==
    ASSUME NEW W, NEW n \in Nat, Tiling(W, n), NEW x \in W, NEW y \in W,
           x.size = y.size, y.offset = x.offset + x.size
    PROVE  /\ Tiling(JoinUp(W, x, y), n) /\ SumOf(JoinUp(W, x, y)) = SumOf(W)
           /\ Joined(x) \notin W /\ Joined(x).size = 2 * x.size
<1> PICK m, R, Q : m = Joined(x) /\ R = W \ {x} /\ Q = (W \ {x}) \ {y}
  OBVIOUS
<1>1. /\ x \in Piece /\ x.size \in Nat \ {0} /\ x.offset \in Nat
      /\ y \in Piece /\ y.offset + y.size <= n
  BY DEF Tiling, Piece
<1>2. m \in Piece /\ m.size = 2 * x.size /\ m.offset = x.offset
  BY <1>1 DEF Joined, Piece
<1>3. x # y /\ m # x
  BY <1>1, <1>2
<1>4. m \notin W
  BY <1>1, <1>2, <1>3, Covered
<1>5. Sized(W) /\ Sized(R) /\ SumOf(W) = x.size + SumOf(R) /\ SumOf(R) \in Nat
  BY TilingSized, BlockTaken, BytesAreNatural
<1>6. y \in R
  BY <1>3
<1>7. Sized(Q) /\ SumOf(R) = y.size + SumOf(Q) /\ SumOf(Q) \in Nat
  BY <1>5, <1>6, BlockTaken, BytesAreNatural
<1> PICK V : V = Q \cup {m}
  OBVIOUS
<1>8. m \notin Q /\ m.size \in Nat
  BY <1>1, <1>2, <1>4
<1>9. Sized(V) /\ SumOf(V) = SumOf(Q) + 2 * x.size
  BY <1>2, <1>7, <1>8, BlockPut
<1>10. SumOf(V) = SumOf(W)
  BY <1>1, <1>5, <1>7, <1>9
<1>11. \A b \in Q : b \in Piece /\ b.offset + b.size <= n /\ Clear(b, x) /\ Clear(b, y)
  BY DEF Tiling
<1>12. ASSUME NEW b \in Q
       PROVE  Clear(b, m) /\ Clear(m, b)
  <2>1. b.offset \in Nat /\ b.size \in Nat \ {0} /\ Clear(b, x) /\ Clear(b, y)
    BY <1>11 DEF Piece
  <2> QED
    BY <1>1, <1>2, <2>1 DEF Clear
<1>13. \A b, c \in V : b # c => Clear(b, c)
  <2>1. \A b, c \in Q : b # c => Clear(b, c)
    BY DEF Tiling
  <2>2. \A b : b \in V <=> b \in Q \/ b = m
    OBVIOUS
  <2> QED
    BY <1>12, <2>1, <2>2
<1>14. \A b \in V : b \in Piece /\ b.offset + b.size <= n
  <2>1. m.offset + m.size <= n
    BY <1>1, <1>2
  <2> QED
    BY <1>2, <1>11, <2>1
<1>15. Tiling(V, n)
  BY <1>9, <1>13, <1>14 DEF Tiling, Sized
<1>16. V = JoinUp(W, x, y)
  BY DEF JoinUp
<1> QED
  BY <1>2, <1>4, <1>10, <1>15, <1>16

LEMMA NewPieceTiles ==
    ASSUME NEW W, NEW n \in Nat, Tiling(W, n), NEW x \in Piece, x.offset = n
    PROVE  /\ x \notin W /\ Tiling(W \cup {x}, n + x.size)
           /\ SumOf(W \cup {x}) = SumOf(W) + x.size
<1>1. x.size \in Nat \ {0} /\ x.offset = n
  BY DEF Piece
<1>2. \A b \in W : b.offset \in Nat /\ b.size \in Nat \ {0} /\ b.offset + b.size <= n
  BY DEF Tiling, Piece
<1>3. x \notin W
  BY <1>1, <1>2
<1>4. Sized(W) /\ Sized(W \cup {x}) /\ SumOf(W \cup {x}) = SumOf(W) + x.size
  BY <1>1, <1>3, TilingSized, BlockPut
<1>5. \A b \in W : Clear(b, x) /\ Clear(x, b) /\ b.offset + b.size <= n + x.size
  BY <1>1, <1>2 DEF Clear
<1>6. \A b, c \in W \cup {x} : b # c => Clear(b, c)
  BY <1>5 DEF Tiling
<1>7. \A b \in W \cup {x} : b \in Piece /\ b.offset + b.size <= n + x.size
  BY <1>1, <1>5 DEF Tiling
<1> QED
  BY <1>3, <1>4, <1>6, <1>7 DEF Tiling, Sized

LEMMA OnePieceTiles ==
    ASSUME NEW x \in Piece, x.offset = 0
    PROVE  Tiling({x}, x.size) /\ SumOf({x}) = x.size
<1>1. Tiling({}, 0)
  BY FS_EmptySet DEF Tiling
<1>2. x.size \in Nat
  BY DEF Piece
<1>3. Tiling({} \cup {x}, 0 + x.size) /\ SumOf({} \cup {x}) = SumOf({}) + x.size
  BY <1>1, NewPieceTiles
<1>4. {} \cup {x} = {x}
  OBVIOUS
<1> QED
  BY <1>2, <1>3, <1>4, NoBlocksNoBytes
-----------------------------------------------------------------------------
(* A size that can be halved down to less than two smallest blocks without *)
(* a remainder.                                                            *)
Halvable(n) ==
    \E G \in SUBSET Nat :
        n \in G /\ \A g \in G : g >= 2 * MinBlock => g % 2 = 0 /\ g \div 2 \in G

LEMMA HalfIsHalvable ==
    ASSUME NEW n \in Nat, Halvable(n), n >= 2 * MinBlock
    PROVE  n = 2 * (n \div 2) /\ Halvable(n \div 2)
<1>1. PICK G \in SUBSET Nat :
          n \in G /\ \A g \in G : g >= 2 * MinBlock => g % 2 = 0 /\ g \div 2 \in G
  BY DEF Halvable
<1>2. n % 2 = 0 /\ n \div 2 \in G
  BY <1>1
<1>3. n = 2 * (n \div 2)
  BY <1>2
<1> QED
  BY <1>1, <1>2, <1>3 DEF Halvable

LEMMA DoubleIsHalvable ==
    ASSUME NEW n \in Nat, Halvable(n)
    PROVE  Halvable(2 * n)
<1>1. PICK G \in SUBSET Nat :
          n \in G /\ \A g \in G : g >= 2 * MinBlock => g % 2 = 0 /\ g \div 2 \in G
  BY DEF Halvable
<1> PICK H : H = G \cup {2 * n}
  OBVIOUS
<1>2. (2 * n) % 2 = 0 /\ (2 * n) \div 2 = n
  OBVIOUS
<1>3. H \in SUBSET Nat /\ 2 * n \in H
  OBVIOUS
<1>4. \A g \in H : g >= 2 * MinBlock => g % 2 = 0 /\ g \div 2 \in H
  BY <1>1, <1>2
<1> QED
  BY <1>3, <1>4 DEF Halvable

(* The sizes of a block that is halved. *)
HalvesTo(n, h) == h = [k \in 0 .. SizeBits |-> IF k = 0 THEN n ELSE h[k - 1] \div 2]

LEMMA HalvesToUnfolds ==
    ASSUME SizeBits \in Nat, NEW n, NEW h, HalvesTo(n, h)
    PROVE  h[0] = n /\ \A k \in 1 .. SizeBits : h[k] = h[k - 1] \div 2
<1>1. \A k \in 0 .. SizeBits : h[k] = IF k = 0 THEN n ELSE h[k - 1] \div 2
  BY DEF HalvesTo
<1> QED
  BY <1>1

LEMMA HalvedUnfolds ==
    ASSUME NEW n \in Nat
    PROVE  /\ Halved(n) \in [0 .. SizeBits -> Nat] /\ Halved(n)[0] = n
           /\ \A k \in 1 .. SizeBits : Halved(n)[k] = Halved(n)[k - 1] \div 2
<1>1. SizeBits \in Nat
  BY PoolAssumption DEF PoolAssumption
<1>2. \E f : HalvesTo(n, f)
  <2>0. PICK step : step = [k \in 1 .. SizeBits |-> [v \in Nat |-> v \div 2]]
    OBVIOUS
  <2>1. step \in [1 .. SizeBits -> [Nat -> Nat]]
    BY <2>0
  <2>2. \A k \in 1 .. SizeBits, v \in Nat : step[k][v] = v \div 2
    BY <2>0
  <2>3. PICK f \in [0 .. SizeBits -> Nat] : Recurs(f, n, step, SizeBits)
    BY <1>1, <2>1, RecursionExists
  <2>4. \A k \in 0 .. SizeBits : k # 0 => step[k][f[k - 1]] = f[k - 1] \div 2
    <3> SUFFICES ASSUME NEW k \in 0 .. SizeBits, k # 0
                 PROVE  step[k][f[k - 1]] = f[k - 1] \div 2
      OBVIOUS
    <3>1. k \in 1 .. SizeBits /\ k - 1 \in 0 .. SizeBits
      BY <1>1
    <3>2. f[k - 1] \in Nat
      BY <3>1
    <3> QED
      BY <2>2, <3>1, <3>2
  <2>5. f = [k \in 0 .. SizeBits |-> IF k = 0 THEN n ELSE f[k - 1] \div 2]
    BY <2>3, <2>4 DEF Recurs
  <2> QED
    BY <2>5 DEF HalvesTo
<1> DEFINE P(h) == h = [k \in 0 .. SizeBits |-> IF k = 0 THEN n ELSE h[k - 1] \div 2]
<1>3. Halved(n) = CHOOSE h : P(h)
  BY DEF Halved
<1>4. \A h : P(h) <=> HalvesTo(n, h)
  BY DEF HalvesTo
<1> HIDE DEF P
<1>5. HalvesTo(n, Halved(n))
  BY <1>2, <1>3, <1>4
<1>6. PICK h : h = Halved(n)
  OBVIOUS
<1>7. HalvesTo(n, h) /\ h[0] = n /\ \A k \in 1 .. SizeBits : h[k] = h[k - 1] \div 2
  BY <1>1, <1>5, <1>6, HalvesToUnfolds
<1>8. \A k \in 0 .. SizeBits : h[k] \in Nat
  <2> DEFINE T == {k \in 0 .. SizeBits : h[k] \notin Nat}
  <2> SUFFICES ASSUME T # {}
               PROVE  FALSE
    OBVIOUS
  <2>1. T \in SUBSET Nat /\ \A k : k \in T <=> k \in 0 .. SizeBits /\ h[k] \notin Nat
    OBVIOUS
  <2> HIDE DEF T
  <2>2. PICK k \in T : \A l \in T : k <= l
    BY <2>1, LeastOf
  <2>3. k \in 1 .. SizeBits /\ h[k] \notin Nat
    BY <1>1, <1>7, <2>1
  <2>4. k - 1 \in 0 .. SizeBits /\ k - 1 \notin T
    BY <1>1, <2>2, <2>3
  <2>5. h[k - 1] \in Nat
    BY <2>1, <2>4
  <2> QED
    BY <1>7, <2>3, <2>5
<1>9. h \in [0 .. SizeBits -> Nat]
  BY <1>7, <1>8 DEF HalvesTo
<1> QED
  BY <1>6, <1>7, <1>9

LEMMA GreatestOf ==
    ASSUME NEW n \in Nat, NEW T \in SUBSET (0 .. n), T # {}
    PROVE  \E m \in T : \A k \in T : k <= m
<1> PICK U : U = {i \in 0 .. n : n - i \in T}
  OBVIOUS
<1>1. U \in SUBSET Nat /\ \A i : i \in U <=> i \in 0 .. n /\ n - i \in T
  OBVIOUS
<1>2. \A k \in T : k \in 0 .. n /\ n - k \in U
  BY <1>1
<1>3. U # {}
  BY <1>2
<1>4. PICK i \in U : \A j \in U : i <= j
  BY <1>1, <1>3, LeastOf
<1>5. n - i \in T /\ i \in 0 .. n
  BY <1>1
<1>6. ASSUME NEW k \in T
      PROVE  k <= n - i
  <2>1. i <= n - k /\ k \in 0 .. n
    BY <1>2, <1>4
  <2> QED
    BY <1>5, <2>1
<1> QED
  BY <1>5, <1>6

LEMMA SplitsFit ==
    ASSUME NEW b, b.size \in Nat, NEW want \in Nat, want <= b.size
    PROVE  Splits(b, want) \in 0 .. SizeBits /\ Halved(b.size)[Splits(b, want)] >= want
<1> PICK h, T : h = Halved(b.size) /\ T = {k \in 0 .. SizeBits : h[k] >= want}
  OBVIOUS
<1>1. SizeBits \in Nat /\ h[0] = b.size
  BY PoolAssumption, HalvedUnfolds DEF PoolAssumption
<1>2. T \in SUBSET (0 .. SizeBits) /\ T # {}
  BY <1>1
<1>3. \E m \in T : \A k \in T : k <= m
  BY <1>1, <1>2, GreatestOf
<1>4. \E m \in T : \A k \in T : m >= k
  BY <1>1, <1>2, <1>3
<1>5. Splits(b, want) = CHOOSE m \in T : \A k \in T : m >= k
  BY DEF Splits, Max
<1>6. Splits(b, want) \in T
  BY <1>4, <1>5
<1> QED
  BY <1>6

(* The first K of the sizes n is halved to, all of them at least low. *)
Halves(h, n, K, low) ==
    /\ h[0] = n /\ \A k \in 0 .. K : h[k] \in Nat /\ h[k] >= low
    /\ \A k \in 1 .. K : h[k] = h[k - 1] \div 2

LEMMA HalvesAreLong ==
    ASSUME NEW b, b.size \in Nat, NEW want \in Nat, want <= b.size
    PROVE  Halves(Halved(b.size), b.size, Splits(b, want), want)
<1> PICK h, K : h = Halved(b.size) /\ K = Splits(b, want)
  OBVIOUS
<1>1. K \in 0 .. SizeBits /\ h[K] >= want /\ SizeBits \in Nat
  BY SplitsFit, PoolAssumption DEF PoolAssumption
<1>2. /\ h \in [0 .. SizeBits -> Nat] /\ h[0] = b.size
      /\ \A k \in 1 .. SizeBits : h[k] = h[k - 1] \div 2
  BY HalvedUnfolds
<1>3. K \in Nat /\ (\A k \in 0 .. K : h[k] \in Nat) /\ \A k \in 1 .. K : h[k] = h[k - 1] \div 2
  <2>1. K \in Nat
    BY <1>1
  <2>2. ASSUME NEW k \in 0 .. K
        PROVE  h[k] \in Nat
    <3>1. k \in 0 .. SizeBits
      BY <1>1
    <3> QED
      BY <1>2, <3>1
  <2>3. ASSUME NEW k \in 1 .. K
        PROVE  h[k] = h[k - 1] \div 2
    <3>1. k \in 1 .. SizeBits
      BY <1>1
    <3> QED
      BY <1>2, <3>1
  <2> QED
    BY <2>1, <2>2, <2>3
<1>4. ASSUME NEW k \in 0 .. K
      PROVE  h[k] >= want
  <2> PICK T : T = {i \in 0 .. K : ~ (h[K - i] >= want)}
    OBVIOUS
  <2>1. T \in SUBSET Nat /\ \A i : i \in T <=> i \in 0 .. K /\ ~ (h[K - i] >= want)
    BY <1>3
  <2>2. ASSUME T # {}
        PROVE  FALSE
    <3>1. PICK i \in T : \A j \in T : i <= j
      BY <2>1, <2>2, LeastOf
    <3>2. i \in 0 .. K /\ ~ (h[K - i] >= want)
      BY <2>1
    <3>3. i # 0
      BY <1>1, <1>3, <3>2
    <3> PICK m, l : m = i - 1 /\ l = K - i + 1
      OBVIOUS
    <3>4. m \in 0 .. K /\ ~ (i <= m) /\ l \in 1 .. K /\ K - m = l /\ K - i = l - 1 /\ l - 1 \in 0 .. K
      BY <1>3, <3>2, <3>3
    <3>5. h[l] >= want
      BY <2>1, <3>1, <3>4
    <3>6. h[l] = h[l - 1] \div 2 /\ h[l - 1] \in Nat /\ h[l] \in Nat
      BY <1>3, <3>4
    <3>7. h[l - 1] >= h[l]
      BY <3>6
    <3> QED
      BY <3>2, <3>4, <3>5, <3>6, <3>7
  <2>3. K - k \in 0 .. K /\ K - k \notin T /\ K - (K - k) = k
    BY <1>3, <2>2
  <2> QED
    BY <2>1, <2>3
<1> QED
  BY <1>2, <1>3, <1>4 DEF Halves
-----------------------------------------------------------------------------
LEMMA RequestRoundsUp ==
    ASSUME NEW bytes \in Requests
    PROVE  RoundUp(bytes) \in Nat /\ RoundUp(bytes) >= MinBlock
<1>1. MinBlock \in Nat \ {0} /\ bytes \in Nat
  BY PoolAssumption DEF PoolAssumption
<1>2. ASSUME bytes <= MinBlock
      PROVE  RoundUp(bytes) \in Nat /\ RoundUp(bytes) >= MinBlock
  BY <1>1, <1>2 DEF RoundUp
<1>3. ASSUME ~ (bytes <= MinBlock)
      PROVE  RoundUp(bytes) \in Nat /\ RoundUp(bytes) >= MinBlock
  <2> PICK T : T = {p \in bytes .. 2 * bytes - 1 : \E k \in 0 .. SizeBits : p = 2 ^ k}
    OBVIOUS
  <2>1. RoundUp(bytes) = CHOOSE p \in bytes .. 2 * bytes - 1 : \E k \in 0 .. SizeBits : p = 2 ^ k
    BY <1>3 DEF RoundUp
  <2>2. \E k \in 0 .. SizeBits : 2 ^ k \in bytes .. 2 * bytes - 1
    BY <1>1, <1>3, PoolAssumption DEF PoolAssumption
  <2>3. \E p \in bytes .. 2 * bytes - 1 : \E k \in 0 .. SizeBits : p = 2 ^ k
    BY <2>2
  <2>4. RoundUp(bytes) \in bytes .. 2 * bytes - 1
    BY <2>1, <2>3
  <2> QED
    BY <1>1, <1>3, <2>4
<1>4. QED
  BY <1>1, <1>2, <1>3

(* The buddies cut off block x of W in k halvings, and all blocks then. *)
Cuts(x, h, k) == {Buddy(x, h[j]) : j \in 1 .. k}
CutTo(W, x, h, k) == (W \ {x}) \cup {Rest(x, h[k])} \cup Cuts(x, h, k)

CutsKeep(W, n, x, h, k) ==
    /\ Tiling(CutTo(W, x, h, k), n)
    /\ SumOf(CutTo(W, x, h, k)) <= SumOf(W)
    /\ Rest(x, h[k]) \notin W \ {x} /\ Rest(x, h[k]) \notin Cuts(x, h, k)
    /\ Cuts(x, h, k) \cap (W \ {x}) = {}
    /\ Halvable(x.size) =>
           /\ \A j \in 0 .. k : Halvable(h[j])
           /\ SumOf(CutTo(W, x, h, k)) = SumOf(W)

LEMMA CutOnce ==
    ASSUME NEW W, NEW n \in Nat, Tiling(W, n), NEW x \in W, NEW low \in Nat, low >= MinBlock,
           NEW K \in Nat, NEW h, Halves(h, x.size, K, low),
           NEW k \in 1 .. K, CutsKeep(W, n, x, h, k - 1)
    PROVE  CutsKeep(W, n, x, h, k)
<1>0. MinBlock \in Nat \ {0}
  BY PoolAssumption DEF PoolAssumption
<1>1. x \in Piece
  BY DEF Tiling
<1>2. /\ k \in Nat /\ k - 1 \in 0 .. K /\ k \in 0 .. K
      /\ h[k - 1] \in Nat \ {0} /\ h[k] \in Nat \ {0} /\ h[k] >= MinBlock
      /\ h[k] = h[k - 1] \div 2
  <2>1. k - 1 \in 0 .. K /\ k \in 0 .. K /\ k \in Nat
    OBVIOUS
  <2>2. h[k - 1] \in Nat /\ h[k - 1] >= low /\ h[k] \in Nat /\ h[k] >= low
    BY <2>1 DEF Halves
  <2>3. h[k] = h[k - 1] \div 2
    BY DEF Halves
  <2> QED
    BY <1>0, <2>1, <2>2, <2>3
<1> PICK r, s, y, g : r = Rest(x, h[k - 1]) /\ s = Rest(x, h[k]) /\ y = Buddy(x, h[k]) /\ g = h[k]
  OBVIOUS
<1> PICK C, D, V, U : /\ C = Cuts(x, h, k - 1) /\ D = Cuts(x, h, k)
                      /\ V = CutTo(W, x, h, k - 1) /\ U = CutTo(W, x, h, k)
  OBVIOUS
<1>3. r \in Piece /\ r.size = h[k - 1] /\ s = Rest(r, g) /\ y = Buddy(r, g) /\ s # y
  <2>1. r \in Piece /\ r.size = h[k - 1] /\ s # y
    BY <1>1, <1>2, CutFields
  <2>2. s = Rest(r, g)
    BY <1>1, <1>2 DEF Rest, Piece
  <2>3. y = Buddy(r, g)
    BY <1>1, <1>2 DEF Rest, Buddy, Piece
  <2> QED
    BY <2>1, <2>2, <2>3
<1>4. D = C \cup {y}
  <2>1. \A j : j \in 1 .. k <=> j \in 1 .. k - 1 \/ j = k
    BY <1>2
  <2> QED
    BY <2>1 DEF Cuts
<1>5. V = (W \ {x}) \cup {r} \cup C /\ U = (W \ {x}) \cup {s} \cup D
  BY DEF CutTo
<1>6. /\ Tiling(V, n) /\ SumOf(V) <= SumOf(W) /\ r \notin W \ {x} /\ r \notin C
      /\ C \cap (W \ {x}) = {}
      /\ Halvable(x.size) => (\A j \in 0 .. k - 1 : Halvable(h[j])) /\ SumOf(V) = SumOf(W)
  BY DEF CutsKeep
<1>7. r \in V /\ V \ {r} = (W \ {x}) \cup C
  BY <1>5, <1>6
<1>8. U = (V \ {r}) \cup {s, y}
  BY <1>4, <1>5, <1>7
<1>9. 2 * g <= r.size
  BY <1>2, <1>3
<1>10. /\ Tiling(U, n) /\ SumOf(U) = SumOf(V) - (r.size - 2 * g)
       /\ y \notin V /\ s \notin V \ {r}
  <2>1. g \in Nat \ {0}
    BY <1>2
  <2> PICK Q : Q = CutOff(V, r, g)
    OBVIOUS
  <2>2. Tiling(V, n) /\ r \in V
    BY <1>6, <1>7
  <2>3. /\ Tiling(Q, n) /\ SumOf(Q) = SumOf(V) - (r.size - 2 * g)
        /\ Buddy(r, g) \notin V /\ Rest(r, g) \notin V \ {r}
    BY <1>9, <2>1, <2>2, CutKeepsTiling
  <2>4. Q = U
    BY <1>3, <1>8 DEF CutOff
  <2> QED
    BY <1>3, <2>3, <2>4
<1>11. SumOf(V) \in Nat /\ SumOf(W) \in Nat
  BY <1>6, TilingSized
<1>12. SumOf(U) <= SumOf(W)
  BY <1>2, <1>3, <1>6, <1>9, <1>10, <1>11
<1>13. s \notin W \ {x} /\ s \notin D /\ D \cap (W \ {x}) = {}
  BY <1>3, <1>4, <1>5, <1>6, <1>7, <1>10
<1>14. ASSUME Halvable(x.size)
       PROVE  (\A j \in 0 .. k : Halvable(h[j])) /\ SumOf(U) = SumOf(W)
  <2>1. Halvable(h[k - 1])
    BY <1>2, <1>6, <1>14
  <2>2. h[k - 1] >= 2 * MinBlock
    BY <1>0, <1>2
  <2>3. h[k - 1] = 2 * h[k] /\ Halvable(h[k])
    BY <1>2, <2>1, <2>2, HalfIsHalvable
  <2>4. \A j : j \in 0 .. k => j \in 0 .. k - 1 \/ j = k
    BY <1>2
  <2>5. SumOf(U) = SumOf(W)
    BY <1>2, <1>3, <1>6, <1>10, <1>11, <1>14, <2>3
  <2> QED
    BY <1>6, <1>14, <2>3, <2>4, <2>5
<1> QED
  BY <1>10, <1>12, <1>13, <1>14 DEF CutsKeep

LEMMA CutDown ==
    ASSUME NEW W, NEW n \in Nat, Tiling(W, n), NEW x \in W, NEW low \in Nat, low >= MinBlock,
           NEW K \in Nat, NEW h, Halves(h, x.size, K, low)
    PROVE  CutsKeep(W, n, x, h, K)
<1>1. CutsKeep(W, n, x, h, 0)
  <2>1. x \in Piece /\ h[0] = x.size
    BY DEF Tiling, Halves
  <2>2. Rest(x, h[0]) = x
    BY <2>1 DEF Rest, Piece
  <2>3. Cuts(x, h, 0) = {}
    BY DEF Cuts
  <2>4. CutTo(W, x, h, 0) = W
    BY <2>2, <2>3 DEF CutTo
  <2>5. SumOf(W) \in Nat
    BY TilingSized
  <2>6. \A j \in 0 .. 0 : j = 0
    OBVIOUS
  <2> QED
    BY <2>1, <2>2, <2>3, <2>4, <2>5, <2>6 DEF CutsKeep
<1> PICK T : T = {k \in 0 .. K : ~ CutsKeep(W, n, x, h, k)}
  OBVIOUS
<1>2. T \in SUBSET Nat /\ \A k : k \in T <=> k \in 0 .. K /\ ~ CutsKeep(W, n, x, h, k)
  OBVIOUS
<1>3. ASSUME T # {}
      PROVE  FALSE
  <2>1. PICK k \in T : \A j \in T : k <= j
    BY <1>2, <1>3, LeastOf
  <2>2. k \in 0 .. K /\ ~ CutsKeep(W, n, x, h, k)
    BY <1>2
  <2>3. k # 0
    BY <1>1, <2>2
  <2> PICK l : l = k - 1
    OBVIOUS
  <2>4. l \in 0 .. K /\ ~ (k <= l) /\ k \in 1 .. K
    BY <2>2, <2>3
  <2>5. CutsKeep(W, n, x, h, k - 1)
    BY <1>2, <2>1, <2>4
  <2> QED
    BY <2>2, <2>4, <2>5, CutOnce
<1> QED
  BY <1>2, <1>3
-----------------------------------------------------------------------------
(* Take: the part that is left goes to the allocated blocks, the buddies   *)
(* to the free ones.                                                       *)
FreeAfter(F, x, want) == (F \ {x}) \cup Buddies(x, want)
HeldAfter(A, x, want) == A \cup {Left(x, want)}
AfterTake(F, A, x, want) == FreeAfter(F, x, want) \cup HeldAfter(A, x, want)

Taken(F, A, n, x, want) ==
    /\ Tiling(AfterTake(F, A, x, want), n)
    /\ FreeAfter(F, x, want) \cap HeldAfter(A, x, want) = {}
    /\ SumOf(HeldAfter(A, x, want)) = SumOf(A) + Left(x, want).size
    /\ SumOf(AfterTake(F, A, x, want)) <= SumOf(F \cup A)
    /\ (\A b \in F \cup A : Halvable(b.size)) =>
           /\ \A b \in AfterTake(F, A, x, want) : Halvable(b.size)
           /\ SumOf(AfterTake(F, A, x, want)) = SumOf(F \cup A)

LEMMA TakeKeepsTiling ==
    ASSUME NEW F, NEW A, F \cap A = {}, NEW n \in Nat, Tiling(F \cup A, n), NEW x \in F,
           NEW want \in Nat, want >= MinBlock, x.size >= want
    PROVE  Taken(F, A, n, x, want)
<1> PICK F2, A2 : F2 = FreeAfter(F, x, want) /\ A2 = HeldAfter(A, x, want)
  OBVIOUS
<1> PICK W, K, h : W = F \cup A /\ K = Splits(x, want) /\ h = Halved(x.size)
  OBVIOUS
<1>1. x \in Piece /\ x \in W /\ Tiling(W, n)
  BY DEF Tiling
<1>2. x.size \in Nat
  BY <1>1 DEF Piece
<1>3. K \in 0 .. SizeBits /\ SizeBits \in Nat
  BY <1>2, SplitsFit, PoolAssumption DEF PoolAssumption
<1>4. K \in Nat
  BY <1>3
<1>5. Halves(h, x.size, K, want)
  BY <1>2, HalvesAreLong
<1>6. CutsKeep(W, n, x, h, K)
  BY <1>1, <1>4, <1>5, CutDown
<1>7. Left(x, want) = Rest(x, h[K]) /\ Buddies(x, want) = Cuts(x, h, K)
  BY DEF Left, Rest, Buddies, Cuts, Buddy
<1> PICK r, C, U : r = Rest(x, h[K]) /\ C = Cuts(x, h, K) /\ U = CutTo(W, x, h, K)
  OBVIOUS
<1>8. F2 = (F \ {x}) \cup C /\ A2 = A \cup {r} /\ U = (W \ {x}) \cup {r} \cup C
  BY <1>7 DEF CutTo, FreeAfter, HeldAfter
<1>9. /\ Tiling(U, n) /\ SumOf(U) <= SumOf(W) /\ r \notin W \ {x} /\ r \notin C
      /\ C \cap (W \ {x}) = {}
      /\ Halvable(x.size) => (\A j \in 0 .. K : Halvable(h[j])) /\ SumOf(U) = SumOf(W)
  BY <1>6 DEF CutsKeep
<1>10. F2 \cup A2 = U /\ F2 \cap A2 = {} /\ r \notin A
  BY <1>8, <1>9
<1>11. r.size = h[K] /\ r.size \in Nat
  <2>1. h[K] \in Nat
    BY <1>4, <1>5 DEF Halves
  <2>2. r.size = h[K]
    BY <1>1 DEF Rest, Piece
  <2> QED
    BY <2>1, <2>2
<1>12. SumOf(A2) = SumOf(A) + r.size
  <2>1. Sized(A)
    BY <1>1, TilingSized, PartHasNoMore
  <2> QED
    BY <1>8, <1>10, <1>11, <2>1, BlockPut
<1>13. ASSUME \A b \in W : Halvable(b.size)
       PROVE  /\ \A b \in U : Halvable(b.size)
              /\ SumOf(U) = SumOf(W)
  <2>1. (\A j \in 0 .. K : Halvable(h[j])) /\ SumOf(U) = SumOf(W)
    BY <1>1, <1>9, <1>13
  <2>2. Halvable(r.size)
    BY <1>4, <1>11, <2>1
  <2>3. ASSUME NEW b \in C
        PROVE  Halvable(b.size)
    <3>1. PICK j \in 1 .. K : b = Buddy(x, h[j])
      BY DEF Cuts
    <3>2. b.size = h[j] /\ j \in 0 .. K
      BY <1>4, <3>1 DEF Buddy
    <3> QED
      BY <2>1, <3>2
  <2> QED
    BY <1>8, <1>13, <2>1, <2>2, <2>3
<1>14. AfterTake(F, A, x, want) = U
  BY <1>10 DEF AfterTake
<1> QED
  BY <1>7, <1>9, <1>10, <1>12, <1>13, <1>14 DEF Taken
-----------------------------------------------------------------------------
(* Two buddies cannot overlap two others: where one of them begins, twice  *)
(* its size divides.                                                       *)
LEMMA NotBothAligned ==
    ASSUME NEW s \in Nat \ {0}, NEW a \in Nat, a % (2 * s) = 0
    PROVE  (a + s) % (2 * s) # 0
<1>1. (a + s) % (2 * s) = s
  OBVIOUS
<1> QED
  BY <1>1

(* The pairs of buddies of size s among the blocks F, and the blocks when  *)
(* the pairs of Q have been merged.                                        *)
BuddyPairs(F, s) == {p \in F \X F : p[1].size = s /\ AreBuddies(p[1], p[2])}
Merged(F, Q) == (F \ UNION {{p[1], p[2]} : p \in Q}) \cup {Joined(p[1]) : p \in Q}

LEMMA MergeIsMerged ==
    ASSUME NEW F, NEW s
    PROVE  MergeSize(F, s) = Merged(F, BuddyPairs(F, s))
BY DEF MergeSize, Merged, BuddyPairs, Joined

LEMMA PairsAreApart ==
    ASSUME NEW F, NEW n, Tiling(F, n), NEW s \in Nat \ {0},
           NEW p \in BuddyPairs(F, s), NEW q \in BuddyPairs(F, s), p # q
    PROVE  {p[1], p[2]} \cap {q[1], q[2]} = {}
<1> PICK a, b, c, d : a = p[1] /\ b = p[2] /\ c = q[1] /\ d = q[2]
  OBVIOUS
<1>1. a \in F /\ b \in F /\ c \in F /\ d \in F /\ p = <<a, b>> /\ q = <<c, d>>
  BY DEF BuddyPairs
<1>2. /\ a.offset \in Nat /\ b.offset \in Nat /\ c.offset \in Nat /\ d.offset \in Nat
      /\ a.size = s /\ b.size = s /\ c.size = s /\ d.size = s
      /\ b.offset = a.offset + s /\ a.offset % (2 * s) = 0
      /\ d.offset = c.offset + s /\ c.offset % (2 * s) = 0
  BY <1>1 DEF BuddyPairs, AreBuddies, Tiling, Piece
<1>3. b.offset # c.offset /\ a.offset # d.offset
  BY <1>2, NotBothAligned
<1>4. ASSUME NEW x \in F, NEW y \in F, x.size = s, y.size = s, x.offset = y.offset
      PROVE  x = y
  BY <1>4 DEF Tiling, Clear, Piece
<1>5. a.offset # c.offset /\ b.offset # d.offset
  BY <1>1, <1>2, <1>4
<1>6. a # c /\ b # d /\ a # d /\ b # c
  BY <1>3, <1>5
<1> QED
  BY <1>6

Merges(F, A, n, Q) ==
    /\ Tiling(Merged(F, Q) \cup A, n)
    /\ SumOf(Merged(F, Q) \cup A) = SumOf(F \cup A)
    /\ Merged(F, Q) \cap A = {}
    /\ (\A b \in F \cup A : Halvable(b.size)) =>
           \A b \in Merged(F, Q) \cup A : Halvable(b.size)

LEMMA MergeOne ==
    ASSUME NEW F, NEW A, NEW n \in Nat, Tiling(F \cup A, n), NEW s \in Nat \ {0},
           NEW Q \in SUBSET BuddyPairs(F, s), NEW p \in Q, F \cap A = {},
           Merges(F, A, n, Q \ {p})
    PROVE  Merges(F, A, n, Q)
<1>0. PICK M, N, a, b, R : /\ M = Merged(F, Q \ {p}) /\ N = Merged(F, Q) /\ R = Q \ {p}
                           /\ a = p[1] /\ b = p[2]
  OBVIOUS
<1>1. Tiling(F, n)
  BY FS_Subset DEF Tiling
<1>2. \A q \in R : {a, b} \cap {q[1], q[2]} = {}
  BY <1>0, <1>1, PairsAreApart
<1>3. a \in F /\ b \in F /\ a.size = s /\ b.size = s /\ b.offset = a.offset + a.size
  BY <1>0 DEF BuddyPairs, AreBuddies
<1>4. \A q \in R : q[1] \in Piece /\ q[1].size = s
  BY <1>0, <1>1 DEF BuddyPairs, Tiling
<1>5. \A q \in R : Joined(q[1]).size = 2 * s
  BY <1>4 DEF Joined, Piece
<1>6. \A q \in R : Joined(q[1]) # a /\ Joined(q[1]) # b
  BY <1>3, <1>5
<1>7. a \in M /\ b \in M
  BY <1>0, <1>2, <1>3 DEF Merged
<1>8. N = (M \ {a, b}) \cup {Joined(a)}
  <2>1. Q = R \cup {p}
    BY <1>0
  <2>0. PICK U, V, J, L : /\ U = UNION {{q[1], q[2]} : q \in R} /\ J = {Joined(q[1]) : q \in R}
                          /\ V = UNION {{q[1], q[2]} : q \in Q} /\ L = {Joined(q[1]) : q \in Q}
    OBVIOUS
  <2>2. V = U \cup {a, b}
    BY <1>0, <2>0, <2>1
  <2>3. L = J \cup {Joined(a)}
    BY <1>0, <2>0, <2>1
  <2>4. a \notin J /\ b \notin J
    BY <2>0, <1>6
  <2>5. M = (F \ U) \cup J /\ N = (F \ V) \cup L
    BY <1>0, <2>0 DEF Merged
  <2> QED
    BY <2>2, <2>3, <2>4, <2>5
<1> PICK W : W = M \cup A
  OBVIOUS
<1>9. /\ Tiling(W, n) /\ SumOf(W) = SumOf(F \cup A) /\ M \cap A = {}
      /\ (\A x \in F \cup A : Halvable(x.size)) => \A x \in W : Halvable(x.size)
  BY <1>0 DEF Merges
<1>10. /\ Tiling(JoinUp(W, a, b), n) /\ SumOf(JoinUp(W, a, b)) = SumOf(W)
       /\ Joined(a) \notin W /\ Joined(a).size = 2 * a.size
  <2>1. a \in W /\ b \in W /\ a.size = b.size /\ b.offset = a.offset + a.size
    BY <1>3, <1>7
  <2>2. Tiling(W, n)
    BY <1>9
  <2> QED
    BY <2>1, <2>2, JoinKeepsTiling
<1>11. JoinUp(W, a, b) = N \cup A
  <2>1. a \notin A /\ b \notin A
    BY <1>7, <1>9
  <2> QED
    BY <1>8, <2>1 DEF JoinUp
<1>12. N \cap A = {}
  BY <1>8, <1>9, <1>10
<1>13. ASSUME \A x \in F \cup A : Halvable(x.size)
       PROVE  \A x \in N \cup A : Halvable(x.size)
  <2>1. Halvable(2 * s)
    BY <1>3, <1>13, DoubleIsHalvable
  <2> QED
    BY <1>3, <1>8, <1>9, <1>10, <1>13, <2>1
<1> QED
  BY <1>0, <1>9, <1>10, <1>11, <1>12, <1>13 DEF Merges

LEMMA MergeKeepsTiling ==
    ASSUME NEW F, NEW A, F \cap A = {}, NEW n \in Nat, Tiling(F \cup A, n),
           NEW s \in Nat \ {0}
    PROVE  Merges(F, A, n, BuddyPairs(F, s))
<1> PICK P : P = BuddyPairs(F, s)
  OBVIOUS
<1>1. IsFiniteSet(P)
  <2>1. IsFiniteSet(F)
    BY FS_Subset DEF Tiling
  <2>2. IsFiniteSet(F \X F)
    BY <2>1, FS_Product
  <2> QED
    BY <2>2, FS_Subset DEF BuddyPairs
<1> PICK T : T = {Q \in SUBSET P : ~ Merges(F, A, n, Q)}
  OBVIOUS
<1>2. T \in SUBSET SUBSET P /\ \A Q : Q \in T <=> Q \in SUBSET P /\ ~ Merges(F, A, n, Q)
  OBVIOUS
<1>3. ASSUME T # {}
      PROVE  FALSE
  <2>1. PICK Q \in T : \A R \in T : ~ (R \subseteq Q /\ R # Q)
    BY <1>1, <1>2, <1>3, SmallestOf
  <2>2. Q \in SUBSET P /\ ~ Merges(F, A, n, Q)
    BY <1>2
  <2>3. CASE Q = {}
    <3>1. Merged(F, {}) = F
      BY DEF Merged
    <3> QED
      BY <2>2, <2>3, <3>1 DEF Merges
  <2>4. CASE Q # {}
    <3>1. PICK p : p \in Q
      BY <2>4
    <3> PICK R : R = Q \ {p}
      OBVIOUS
    <3>2. R \in SUBSET P /\ R \subseteq Q /\ R # Q
      BY <2>2, <3>1
    <3>3. Merges(F, A, n, R)
      BY <1>2, <2>1, <3>2
    <3> QED
      BY <2>2, <3>1, <3>3, MergeOne
  <2> QED
    BY <2>3, <2>4
<1> QED
  BY <1>2, <1>3

(* What coalescing keeps, of the free blocks F that become G.              *)
Kept(F, G, A, n) ==
    /\ Tiling(G \cup A, n)
    /\ SumOf(G \cup A) = SumOf(F \cup A)
    /\ G \cap A = {}
    /\ (\A b \in F \cup A : Halvable(b.size)) => \A b \in G \cup A : Halvable(b.size)

LEMMA MergeSizeKeeps ==
    ASSUME NEW F, NEW A, F \cap A = {}, NEW n \in Nat, Tiling(F \cup A, n),
           NEW s \in Nat \ {0}
    PROVE  Kept(F, MergeSize(F, s), A, n)
<1>1. Merges(F, A, n, BuddyPairs(F, s))
  BY MergeKeepsTiling
<1>2. MergeSize(F, s) = Merged(F, BuddyPairs(F, s))
  BY MergeIsMerged
<1> QED
  BY <1>1, <1>2 DEF Merges, Kept

LEMMA MergedArePieces ==
    ASSUME NEW F \in SUBSET Piece, NEW s \in Nat \ {0}
    PROVE  MergeSize(F, s) \in SUBSET Piece
<1>1. \A p \in BuddyPairs(F, s) : p[1] \in Piece
  BY DEF BuddyPairs
<1>2. \A p \in BuddyPairs(F, s) : Joined(p[1]) \in Piece
  <2>1. \A x \in Piece : Joined(x) \in Piece
    BY DEF Joined, Piece
  <2> QED
    BY <1>1, <2>1
<1>3. Merged(F, BuddyPairs(F, s)) \in SUBSET Piece
  BY <1>2 DEF Merged
<1> QED
  BY <1>3, MergeIsMerged

Coalesces(f, F, N) ==
    f = [s \in 0 .. N |-> IF s = 0 THEN F ELSE MergeSize(f[s - 1], s)]

LEMMA CoalescesExists ==
    ASSUME NEW F \in SUBSET Piece, NEW N \in Nat
    PROVE  \E f : Coalesces(f, F, N)
<1>0. PICK step : step = [k \in 1 .. N |-> [B \in SUBSET Piece |-> MergeSize(B, k)]]
  OBVIOUS
<1>1. step \in [1 .. N -> [SUBSET Piece -> SUBSET Piece]]
  <2>1. \A k \in 1 .. N : \A B \in SUBSET Piece : MergeSize(B, k) \in SUBSET Piece
    BY MergedArePieces
  <2> QED
    BY <1>0, <2>1
<1>2. \A k \in 1 .. N : \A B \in SUBSET Piece : step[k][B] = MergeSize(B, k)
  BY <1>0
<1>3. PICK f \in [0 .. N -> SUBSET Piece] : Recurs(f, F, step, N)
  BY <1>1, RecursionExists
<1>4. \A k \in 0 .. N : k # 0 => step[k][f[k - 1]] = MergeSize(f[k - 1], k)
  <2> SUFFICES ASSUME NEW k \in 0 .. N, k # 0
               PROVE  step[k][f[k - 1]] = MergeSize(f[k - 1], k)
    OBVIOUS
  <2>1. k \in 1 .. N /\ k - 1 \in 0 .. N
    OBVIOUS
  <2>2. f[k - 1] \in SUBSET Piece
    BY <2>1
  <2> QED
    BY <1>2, <2>1, <2>2
<1>5. f = [k \in 0 .. N |-> IF k = 0 THEN F ELSE MergeSize(f[k - 1], k)]
  BY <1>3, <1>4 DEF Recurs
<1> QED
  BY <1>5 DEF Coalesces

LEMMA CoalescesUnfolds ==
    ASSUME NEW f, NEW F, NEW N \in Nat, Coalesces(f, F, N)
    PROVE  f[0] = F /\ \A k \in 1 .. N : f[k] = MergeSize(f[k - 1], k)
<1>1. \A k \in 0 .. N : f[k] = IF k = 0 THEN F ELSE MergeSize(f[k - 1], k)
  BY DEF Coalesces
<1> QED
  BY <1>1

LEMMA CoalescesKeeps ==
    ASSUME NEW F, NEW A, F \cap A = {}, NEW n \in Nat, Tiling(F \cup A, n),
           NEW N \in Nat, NEW f, Coalesces(f, F, N), NEW k \in 0 .. N
    PROVE  Kept(F, f[k], A, n)
<1>0. f[0] = F /\ \A j \in 1 .. N : f[j] = MergeSize(f[j - 1], j)
  BY CoalescesUnfolds
<1>1. Kept(F, f[0], A, n)
  BY <1>0 DEF Kept
<1> PICK T : T = {j \in 0 .. N : ~ Kept(F, f[j], A, n)}
  OBVIOUS
<1>2. T \in SUBSET Nat /\ \A j : j \in T <=> j \in 0 .. N /\ ~ Kept(F, f[j], A, n)
  OBVIOUS
<1>3. ASSUME T # {}
      PROVE  FALSE
  <2>1. PICK j \in T : \A i \in T : j <= i
    BY <1>2, <1>3, LeastOf
  <2>2. j \in 0 .. N /\ ~ Kept(F, f[j], A, n)
    BY <1>2
  <2>3. j # 0
    BY <1>1, <2>2
  <2> PICK l : l = j - 1
    OBVIOUS
  <2>4. l \in 0 .. N /\ ~ (j <= l) /\ j \in 1 .. N /\ j \in Nat \ {0}
    BY <2>2, <2>3
  <2>5. Kept(F, f[l], A, n)
    BY <1>2, <2>1, <2>4
  <2>6. Kept(f[l], MergeSize(f[l], j), A, n)
    BY <2>4, <2>5, MergeSizeKeeps DEF Kept
  <2>7. f[j] = MergeSize(f[l], j)
    BY <1>0, <2>4
  <2>8. Kept(F, f[j], A, n)
    BY <2>5, <2>6, <2>7 DEF Kept
  <2> QED
    BY <2>2, <2>8
<1> QED
  BY <1>2, <1>3

LEMMA CoalescedKeeps ==
    ASSUME NEW F, NEW A, F \cap A = {}, NEW n \in Nat, Tiling(F \cup A, n),
           totalBytes \in Nat
    PROVE  Kept(F, Coalesced(F), A, n)
<1> PICK N : N = totalBytes
  OBVIOUS
<1>1. F \in SUBSET Piece
  BY DEF Tiling
<1>2. \E f : Coalesces(f, F, N)
  BY <1>1, CoalescesExists
<1> DEFINE P(f) == f = [s \in 0 .. N |-> IF s = 0 THEN F ELSE MergeSize(f[s - 1], s)]
           g == CHOOSE f : P(f)
<1>3. Coalesced(F) = g[N]
  BY DEF Coalesced
<1>4. \A f : P(f) <=> Coalesces(f, F, N)
  BY DEF Coalesces
<1> HIDE DEF P
<1>5. Coalesces(g, F, N)
  BY <1>2, <1>4
<1> HIDE DEF g
<1>6. PICK h : h = g
  OBVIOUS
<1>7. Coalesces(h, F, N) /\ N \in Nat /\ N \in 0 .. N
  BY <1>5, <1>6
<1>8. Kept(F, h[N], A, n)
  BY <1>7, CoalescesKeeps
<1> QED
  BY <1>3, <1>6, <1>8
-----------------------------------------------------------------------------
(* No region is of a size that halving brings to a fraction.               *)
Smooth == \A i \in DOMAIN regions : Halvable(regions[i])

PoolInv ==
    /\ regions \in Seq(Nat) /\ poolSize = totalBytes /\ totalBytes \in Nat \ {0}
    /\ caller \in [Threads -> {Idle} \cup [at : {"expand", "retry"}, bytes : Requests]]
    /\ Tiling(Blocks, totalBytes) /\ free \cap allocated = {}
    /\ usedBytes = SumOf(allocated) /\ SumOf(Blocks) <= totalBytes
    /\ Smooth => (\A b \in Blocks : Halvable(b.size)) /\ SumOf(Blocks) = totalBytes

(* The pool as it is after construction and after reset(). *)
Fresh ==
    /\ free = {BaseBlock} /\ allocated = {} /\ regions = <<BaseSize>>
    /\ poolSize = BaseSize /\ totalBytes = BaseSize /\ usedBytes = 0

LEMMA FreshPool ==
    Fresh /\ caller \in [Threads -> {Idle} \cup [at : {"expand", "retry"}, bytes : Requests]]
    => PoolInv
<1> SUFFICES ASSUME Fresh, caller \in [Threads -> {Idle} \cup
                                           [at : {"expand", "retry"}, bytes : Requests]]
             PROVE  PoolInv
  OBVIOUS
<1>1. BaseSize \in Nat \ {0}
  BY PoolAssumption DEF PoolAssumption
<1>2. PICK x : x = BaseBlock
  OBVIOUS
<1>3. x \in Piece /\ x.offset = 0 /\ x.size = BaseSize
  BY <1>1, <1>2 DEF BaseBlock, Piece
<1>4. Tiling({x}, BaseSize) /\ SumOf({x}) = BaseSize
  BY <1>3, OnePieceTiles
<1>5. Blocks = {x} /\ totalBytes = BaseSize
  BY <1>2 DEF Fresh, Blocks
<1>6. regions \in Seq(Nat) /\ 1 \in DOMAIN regions /\ regions[1] = BaseSize
  BY <1>1 DEF Fresh
<1>7. Smooth => \A b \in Blocks : Halvable(b.size)
  BY <1>3, <1>5, <1>6 DEF Smooth
<1>8. usedBytes = SumOf(allocated)
  BY NoBlocksNoBytes DEF Fresh
<1>9. poolSize = totalBytes /\ free \cap allocated = {}
  BY DEF Fresh
<1> QED
  BY <1>1, <1>4, <1>5, <1>6, <1>7, <1>8, <1>9 DEF PoolInv

LEMMA FreshPoolNext ==
    (Fresh /\ caller \in [Threads -> {Idle} \cup [at : {"expand", "retry"}, bytes : Requests]])'
    => PoolInv'
BY FreshPool, PTL

LEMMA PoolStart == PoolInit => PoolInv
<1> SUFFICES ASSUME PoolInit
             PROVE  PoolInv
  OBVIOUS
<1>1. Fresh
  BY DEF PoolInit, Fresh
<1>2. caller \in [Threads -> {Idle} \cup [at : {"expand", "retry"}, bytes : Requests]]
  BY DEF PoolInit
<1> QED
  BY <1>1, <1>2, FreshPool

LEMMA PoolSizes ==
    ASSUME PoolInv
    PROVE  /\ Sized(Blocks) /\ SumOf(Blocks) \in Nat
           /\ Sized(allocated) /\ SumOf(allocated) \in Nat /\ SumOf(allocated) <= SumOf(Blocks)
           /\ \A b \in Blocks : b \in Piece /\ b.size \in Nat
<1>1. Tiling(Blocks, totalBytes)
  BY DEF PoolInv
<1>2. Sized(Blocks) /\ SumOf(Blocks) \in Nat
  BY <1>1, TilingSized
<1>3. allocated \in SUBSET Blocks
  BY DEF Blocks
<1>4. Sized(allocated) /\ SumOf(allocated) <= SumOf(Blocks)
  BY <1>2, <1>3, PartHasNoMore
<1>5. SumOf(allocated) \in Nat
  BY <1>4, BytesAreNatural
<1>6. \A b \in Blocks : b \in Piece /\ b.size \in Nat
  BY <1>1, <1>2 DEF Tiling, Sized
<1> QED
  BY <1>2, <1>4, <1>5, <1>6

LEMMA PoolTyped == PoolInv => PoolTypeOK
<1> SUFFICES ASSUME PoolInv
             PROVE  PoolTypeOK
  OBVIOUS
<1>1. /\ SumOf(Blocks) \in Nat /\ SumOf(allocated) \in Nat /\ SumOf(allocated) <= SumOf(Blocks)
      /\ \A b \in Blocks : b \in Piece
  BY PoolSizes
<1>2. Piece \subseteq Block
  BY DEF Piece, Block
<1>3. free \subseteq Block /\ allocated \subseteq Block
  BY <1>1, <1>2 DEF Blocks
<1>4. usedBytes = SumOf(allocated) /\ SumOf(Blocks) <= totalBytes /\ totalBytes \in Nat
  BY DEF PoolInv
<1>5. usedBytes \in 0 .. totalBytes
  BY <1>1, <1>4
<1> QED
  BY <1>3, <1>4, <1>5 DEF PoolInv, PoolTypeOK

(* The steps after which the pool's blocks are as before, or cut or merged *)
(* in the regions there are.                                               *)
LEMMA BlocksChange ==
    ASSUME PoolInv, UNCHANGED <<regions, poolSize, totalBytes>>,
           caller' \in [Threads -> {Idle} \cup [at : {"expand", "retry"}, bytes : Requests]],
           Tiling(Blocks', totalBytes), (free \cap allocated)' = {},
           usedBytes' = SumOf(allocated'), SumOf(Blocks') <= SumOf(Blocks),
           (\A b \in Blocks : Halvable(b.size)) =>
               (\A b \in Blocks' : Halvable(b.size)) /\ SumOf(Blocks') = SumOf(Blocks)
    PROVE  PoolInv'
<1>1. Smooth' = Smooth
  BY DEF Smooth
<1>2. SumOf(Blocks) \in Nat /\ SumOf(Blocks') \in Nat
  BY PoolSizes, TilingSized
<1>3. SumOf(Blocks') <= totalBytes
  BY <1>2 DEF PoolInv
<1>4. Smooth => (\A b \in Blocks' : Halvable(b.size)) /\ SumOf(Blocks') = totalBytes
  BY DEF PoolInv
<1> QED
  BY <1>1, <1>3, <1>4 DEF PoolInv

LEMMA AllocateKeeps ==
    ASSUME PoolInv, NEW t \in Threads, NEW bytes \in Requests, Allocate(t, bytes)
    PROVE  PoolInv'
<1> PICK want : want = RoundUp(bytes)
  OBVIOUS
<1>1. want \in Nat /\ want >= MinBlock
  BY RequestRoundsUp
<1>2. PICK b \in BestFits(want) : Take(b, bytes)
  BY DEF Allocate
<1>3. b \in free /\ b.size >= want
  BY DEF BestFits
<1>4. /\ free' = (free \ {b}) \cup Buddies(b, want)
      /\ allocated' = allocated \cup {Left(b, want)}
      /\ usedBytes' = usedBytes + Left(b, want).size
      /\ UNCHANGED <<regions, poolSize, totalBytes>>
  BY <1>2 DEF Take
<1>5. /\ Tiling(free \cup allocated, totalBytes) /\ totalBytes \in Nat
      /\ free \cap allocated = {} /\ usedBytes = SumOf(allocated)
  BY DEF PoolInv, Blocks
<1>6. /\ Tiling(free' \cup allocated', totalBytes) /\ free' \cap allocated' = {}
      /\ SumOf(allocated') = SumOf(allocated) + Left(b, want).size
      /\ SumOf(free' \cup allocated') <= SumOf(free \cup allocated)
      /\ (\A c \in free \cup allocated : Halvable(c.size)) =>
             /\ \A c \in free' \cup allocated' : Halvable(c.size)
             /\ SumOf(free' \cup allocated') = SumOf(free \cup allocated)
  <2> PICK F, A, G, B, n : /\ F = free /\ A = allocated /\ G = free' /\ B = allocated'
                           /\ n = totalBytes
    OBVIOUS
  <2>1. /\ F \cap A = {} /\ n \in Nat /\ Tiling(F \cup A, n) /\ b \in F
        /\ G = FreeAfter(F, b, want) /\ B = HeldAfter(A, b, want)
        /\ G \cup B = AfterTake(F, A, b, want)
    BY <1>3, <1>4, <1>5 DEF FreeAfter, HeldAfter, AfterTake
  <2>2. /\ Tiling(G \cup B, n) /\ G \cap B = {}
        /\ SumOf(B) = SumOf(A) + Left(b, want).size
        /\ SumOf(G \cup B) <= SumOf(F \cup A)
        /\ (\A c \in F \cup A : Halvable(c.size)) =>
               /\ \A c \in G \cup B : Halvable(c.size)
               /\ SumOf(G \cup B) = SumOf(F \cup A)
    <3>1. F \cap A = {} /\ n \in Nat /\ Tiling(F \cup A, n) /\ b \in F
      BY <2>1
    <3>2. want \in Nat /\ want >= MinBlock /\ b.size >= want
      BY <1>1, <1>3
    <3>3. Taken(F, A, n, b, want)
      BY <3>1, <3>2, TakeKeepsTiling
    <3> QED
      BY <2>1, <3>3 DEF Taken
  <2> QED
    BY <2>2
<1>7. caller' \in [Threads -> {Idle} \cup [at : {"expand", "retry"}, bytes : Requests]]
  BY DEF Allocate, PoolInv
<1>8. Blocks' = free' \cup allocated' /\ Blocks = free \cup allocated
  BY DEF Blocks
<1> QED
  BY <1>4, <1>5, <1>6, <1>7, <1>8, BlocksChange

LEMMA FreeKeeps ==
    ASSUME PoolInv, NEW b \in allocated, Free(b)
    PROVE  PoolInv'
<1> PICK F, A : F = free \cup {b} /\ A = allocated \ {b}
  OBVIOUS
<1>1. /\ Tiling(free \cup allocated, totalBytes) /\ totalBytes \in Nat
      /\ free \cap allocated = {} /\ usedBytes = SumOf(allocated)
  BY DEF PoolInv, Blocks
<1>2. F \cap A = {} /\ F \cup A = free \cup allocated
  BY <1>1
<1>3. Kept(F, Coalesced(F), A, totalBytes)
  BY <1>1, <1>2, CoalescedKeeps
<1>4. /\ free' = Coalesced(F) /\ allocated' = A /\ usedBytes' = usedBytes - b.size
      /\ UNCHANGED <<regions, poolSize, totalBytes, caller>>
  BY DEF Free
<1>5. SumOf(A) = SumOf(allocated) - b.size
  <2>1. Sized(allocated) /\ b.size \in Nat
    BY PoolSizes DEF Blocks
  <2>2. SumOf(allocated) = b.size + SumOf(A) /\ Sized(A)
    BY <2>1, BlockTaken
  <2>3. SumOf(A) \in Nat
    BY <2>2, BytesAreNatural
  <2> QED
    BY <2>1, <2>2, <2>3
<1>6. Blocks' = free' \cup allocated' /\ Blocks = F \cup A
  BY <1>2 DEF Blocks
<1>7. /\ Tiling(Blocks', totalBytes) /\ free' \cap allocated' = {}
      /\ SumOf(Blocks') = SumOf(Blocks)
      /\ (\A c \in Blocks : Halvable(c.size)) => \A c \in Blocks' : Halvable(c.size)
  BY <1>3, <1>4, <1>6 DEF Kept
<1>8. caller' \in [Threads -> {Idle} \cup [at : {"expand", "retry"}, bytes : Requests]]
  BY <1>4 DEF PoolInv
<1>9. SumOf(Blocks) \in Nat
  BY PoolSizes
<1>10. usedBytes' = SumOf(allocated') /\ (free \cap allocated)' = {}
  BY <1>1, <1>4, <1>5, <1>7
<1>11. SumOf(Blocks') <= SumOf(Blocks)
  BY <1>7, <1>9
<1>12. UNCHANGED <<regions, poolSize, totalBytes>>
  BY <1>4
<1> QED
  BY <1>7, <1>8, <1>10, <1>11, <1>12, BlocksChange

LEMMA ExpandKeeps ==
    ASSUME PoolInv, NEW t \in Threads, Expand(t)
    PROVE  PoolInv'
<1>1. caller[t] \in [at : {"expand", "retry"}, bytes : Requests]
  BY DEF Expand, PoolInv, Idle
<1>2. RoundUp(caller[t].bytes) \in Nat /\ poolSize \in Nat \ {0}
  BY <1>1, RequestRoundsUp DEF PoolInv
<1> PICK s, S : s = Max({poolSize, RoundUp(caller[t].bytes)}) /\ S = {poolSize, RoundUp(caller[t].bytes)}
  OBVIOUS
<1>3. s \in Nat \ {0}
  <2>1. \E x \in S : \A y \in S : x >= y
    BY <1>2
  <2>2. s = CHOOSE x \in S : \A y \in S : x >= y
    BY DEF Max
  <2>3. s \in S /\ \A y \in S : s >= y
    BY <2>1, <2>2
  <2> QED
    BY <1>2, <2>3
<1>4. PICK x : x = [region |-> Len(regions) + 1, at |-> 0, size |-> s, offset |-> totalBytes]
  OBVIOUS
<1>5. /\ regions' = Append(regions, s) /\ free' = free \cup {x}
      /\ poolSize' = poolSize + s /\ totalBytes' = totalBytes + s
      /\ caller' = [caller EXCEPT ![t].at = "retry"]
      /\ UNCHANGED <<allocated, usedBytes>>
  BY <1>4 DEF Expand
<1>6. /\ regions \in Seq(Nat) /\ poolSize = totalBytes /\ totalBytes \in Nat \ {0}
      /\ Tiling(Blocks, totalBytes) /\ free \cap allocated = {}
      /\ usedBytes = SumOf(allocated) /\ SumOf(Blocks) <= totalBytes
      /\ Smooth => (\A b \in Blocks : Halvable(b.size)) /\ SumOf(Blocks) = totalBytes
  BY DEF PoolInv
<1>7. x \in Piece /\ x.offset = totalBytes /\ x.size = s
  <2>1. Len(regions) + 1 \in Nat
    BY <1>6
  <2> QED
    BY <1>3, <1>4, <1>6, <2>1 DEF Piece
<1>8. /\ x \notin Blocks /\ Tiling(Blocks \cup {x}, totalBytes + s)
      /\ SumOf(Blocks \cup {x}) = SumOf(Blocks) + s
  BY <1>6, <1>7, NewPieceTiles
<1>9. Blocks' = Blocks \cup {x} /\ (free \cap allocated)' = {}
  BY <1>5, <1>6, <1>8 DEF Blocks
<1>10. SumOf(Blocks) \in Nat
  BY PoolSizes
<1>11. /\ regions' \in Seq(Nat)
       /\ \A i \in DOMAIN regions : i \in DOMAIN regions' /\ regions'[i] = regions[i]
       /\ Len(regions) + 1 \in DOMAIN regions' /\ regions'[Len(regions) + 1] = s
  <2> PICK r, q : r = regions /\ q = regions'
    OBVIOUS
  <2>1. r \in Seq(Nat) /\ q = Append(r, s) /\ s \in Nat
    BY <1>3, <1>5, <1>6
  <2>2. q \in Seq(Nat) /\ Len(q) = Len(r) + 1 /\ Len(r) \in Nat
    BY <2>1
  <2>3. q[Len(r) + 1] = s /\ \A i \in 1 .. Len(r) : q[i] = r[i]
    BY <2>1
  <2>4. DOMAIN r = 1 .. Len(r) /\ DOMAIN q = 1 .. Len(q)
    BY <2>1, <2>2
  <2>5. Len(r) + 1 \in DOMAIN q /\ \A i \in DOMAIN r : i \in DOMAIN q
    BY <2>2, <2>4
  <2>6. \A i \in DOMAIN r : q[i] = r[i]
    BY <2>3, <2>4
  <2> QED
    BY <2>2, <2>3, <2>5, <2>6
<1>12. Smooth' => Smooth /\ Halvable(s)
  BY <1>11 DEF Smooth
<1>13. Smooth' => (\A b \in Blocks' : Halvable(b.size)) /\ SumOf(Blocks') = totalBytes'
  BY <1>5, <1>6, <1>7, <1>8, <1>9, <1>12
<1>14. caller' \in [Threads -> {Idle} \cup [at : {"expand", "retry"}, bytes : Requests]]
  <2>1. [caller[t] EXCEPT !.at = "retry"] \in [at : {"expand", "retry"}, bytes : Requests]
    BY <1>1
  <2>2. caller' = [caller EXCEPT ![t] = [caller[t] EXCEPT !.at = "retry"]]
    BY <1>5
  <2>3. caller \in [Threads -> {Idle} \cup [at : {"expand", "retry"}, bytes : Requests]]
    BY DEF PoolInv
  <2> QED
    BY <2>1, <2>2, <2>3
<1>15. poolSize' = totalBytes' /\ totalBytes' \in Nat \ {0} /\ SumOf(Blocks') <= totalBytes'
  BY <1>3, <1>5, <1>6, <1>8, <1>9, <1>10
<1>16. Tiling(Blocks', totalBytes') /\ usedBytes' = SumOf(allocated')
  BY <1>5, <1>6, <1>8, <1>9
<1> QED
  BY <1>9, <1>11, <1>13, <1>14, <1>15, <1>16 DEF PoolInv

LEMMA PoolStep == PoolInv /\ [PoolNext]_poolVars => PoolInv'
<1> SUFFICES ASSUME PoolInv, [PoolNext]_poolVars
             PROVE  PoolInv'
  OBVIOUS
<1> PICK Callers : Callers = [Threads -> {Idle} \cup [at : {"expand", "retry"}, bytes : Requests]]
  OBVIOUS
<1>0. caller \in Callers
  BY DEF PoolInv
<1>1. ASSUME NEW t \in Threads, NEW bytes \in Requests, Allocate(t, bytes)
      PROVE  PoolInv'
  BY <1>1, AllocateKeeps
<1>2. ASSUME UNCHANGED <<free, allocated, regions, poolSize, totalBytes, usedBytes>>,
             caller' \in Callers
      PROVE  PoolInv'
  BY <1>2 DEF PoolInv, Blocks, Smooth
<1>3. ASSUME NEW t \in Threads, NEW bytes \in Requests, MustExpand(t, bytes)
      PROVE  PoolInv'
  <2>1. caller' \in Callers
    BY <1>0, <1>3 DEF MustExpand
  <2> QED
    BY <1>2, <1>3, <2>1 DEF MustExpand
<1>4. ASSUME NEW t \in Threads, Expand(t)
      PROVE  PoolInv'
  BY <1>4, ExpandKeeps
<1>5. ASSUME NEW t \in Threads, ExpandFails(t)
      PROVE  PoolInv'
  <2>1. caller' \in Callers
    BY <1>0, <1>5 DEF ExpandFails
  <2> QED
    BY <1>2, <1>5, <2>1 DEF ExpandFails
<1>6. ASSUME NEW b \in allocated, Free(b)
      PROVE  PoolInv'
  BY <1>6, FreeKeeps
<1>7. CASE Reset
  <2>1. Fresh' /\ caller' \in Callers
    BY <1>0, <1>7 DEF Reset, Fresh
  <2> QED
    BY <2>1, FreshPoolNext
<1>8. CASE UNCHANGED poolVars
  <2>1. caller' \in Callers
    BY <1>0, <1>8 DEF poolVars
  <2> QED
    BY <1>2, <1>8, <2>1 DEF poolVars
<1> QED
  BY <1>1, <1>3, <1>4, <1>5, <1>6, <1>7, <1>8 DEF PoolNext

(* What holds of the blocks whatever the sizes: no byte is in two blocks,  *)
(* no block is both free and allocated, what is in use is what was handed  *)
(* out, and the blocks have no more bytes than the pool.                   *)
Disjoint ==
    /\ \A b, c \in Blocks : b # c => Clear(b, c)
    /\ free \cap allocated = {}
    /\ BytesOf(allocated) = usedBytes
    /\ BytesOf(Blocks) <= totalBytes
    /\ totalBytes = poolSize

LEMMA PoolInvDisjoint == PoolInv => Disjoint
BY SameSums DEF PoolInv, Tiling, Disjoint

LEMMA PoolInvTiles == PoolInv /\ Smooth => Tiled
<1> SUFFICES ASSUME PoolInv, Smooth
             PROVE  Tiled
  OBVIOUS
<1>1. \A b, c \in Blocks : b # c =>
          b.offset + b.size <= c.offset \/ c.offset + c.size <= b.offset
  BY DEF PoolInv, Tiling, Clear
<1>2. BytesOf(allocated) = usedBytes /\ BytesOf(Blocks) = totalBytes
  BY SameSums DEF PoolInv
<1> QED
  BY <1>1, <1>2 DEF PoolInv, Tiled

LEMMA PoolInvHolds == PoolSpec => []PoolInv
  BY PoolStart, PoolStep, PTL DEF PoolSpec

(* The free lists, the allocated blocks, the byte counts and what each     *)
(* caller of allocate() is about to do keep their types; no more bytes are *)
(* in use than the pool has.                                               *)
THEOREM PoolTypeCorrect == PoolSpec => []PoolTypeOK
  BY PoolInvHolds, PoolTyped, PTL

(* Blocks never overlap and are never free and allocated at once, and the  *)
(* byte counts are right, whatever threads allocate, free, expand and      *)
(* reset in whatever order, and whatever the sizes: no byte is handed out  *)
(* twice.                                                                  *)
THEOREM BlocksAlwaysDisjoint == PoolSpec => []Disjoint
  BY PoolInvHolds, PoolInvDisjoint, PTL

(* No byte is lost either, as long as every region can be halved down to   *)
(* the smallest blocks without a remainder.  allocate() halves a block of  *)
(* an odd size to two that are one byte short together, so the hypothesis  *)
(* is needed.                                                              *)
THEOREM PoolAlwaysTiled == PoolSpec => [](Smooth => Tiled)
  BY PoolInvHolds, PoolInvTiles, PTL

(* A region expand_pool adds is as large as the pool, and so doubles it,   *)
(* unless the request is larger.                                           *)
Outgrown == AllowGrowth /\ \E n \in Requests : RoundUp(n) > BaseSize
Doubling ==
    /\ poolSize \in Nat /\ poolSize >= BaseSize /\ Halvable(poolSize) /\ Smooth
    /\ \A t \in Threads : caller[t].at = "expand" => AllowGrowth

LEMMA DoublingKept ==
    ASSUME Halvable(BaseSize), ~ Outgrown, PoolInv, Doubling, [PoolNext]_poolVars
    PROVE  Doubling'
<1>0. BaseSize \in Nat \ {0} /\ Requests \subseteq Nat \ {0}
  BY PoolAssumption DEF PoolAssumption
<1>1. caller \in [Threads -> {Idle} \cup [at : {"expand", "retry"}, bytes : Requests]]
  BY DEF PoolInv
<1>2. ASSUME UNCHANGED <<regions, poolSize>>,
             \A t \in Threads : caller'[t].at = "expand" => AllowGrowth
      PROVE  Doubling'
  BY <1>2 DEF Doubling, Smooth
<1>3. ASSUME NEW t \in Threads, NEW bytes \in Requests, Allocate(t, bytes)
      PROVE  Doubling'
  <2>1. UNCHANGED <<regions, poolSize>>
    BY <1>3, Zenon DEF Allocate, Take
  <2>2. caller' = [caller EXCEPT ![t] = Idle] /\ Idle.at # "expand"
    BY <1>3 DEF Allocate, Idle
  <2> QED
    BY <1>1, <1>2, <2>1, <2>2 DEF Doubling
<1>4. ASSUME NEW t \in Threads, NEW bytes \in Requests, MustExpand(t, bytes)
      PROVE  Doubling'
  BY <1>2, <1>4 DEF MustExpand
<1>5. ASSUME NEW t \in Threads, Expand(t)
      PROVE  Doubling'
  <2>1. caller[t] \in [at : {"expand", "retry"}, bytes : Requests] /\ AllowGrowth
    BY <1>1, <1>5 DEF Expand, Idle, Doubling
  <2>2. PICK want : want = RoundUp(caller[t].bytes)
    OBVIOUS
  <2>3. want \in Nat /\ want <= poolSize
    <3>1. PICK m \in Requests : m = caller[t].bytes
      BY <2>1
    <3>2. want = RoundUp(m) /\ want \in Nat
      BY <2>2, <3>1, RequestRoundsUp
    <3>3. ~ (want > BaseSize)
      BY <2>1, <3>2 DEF Outgrown
    <3> QED
      BY <1>0, <3>2, <3>3 DEF Doubling
  <2>4. PICK n : n = poolSize
    OBVIOUS
  <2>5. n \in Nat /\ Max({n, want}) = n
    <3>1. n \in Nat /\ want <= n
      BY <2>3, <2>4 DEF Doubling
    <3> QED
      BY <2>3, <3>1 DEF Max
  <2>6. /\ regions' = Append(regions, n) /\ poolSize' = n + n
        /\ caller' = [caller EXCEPT ![t].at = "retry"]
    BY <1>5, <2>2, <2>4, <2>5 DEF Expand
  <2>7. Halvable(n) /\ Halvable(2 * n) /\ n + n = 2 * n
    BY <2>4, <2>5, DoubleIsHalvable DEF Doubling
  <2>8. regions \in Seq(Nat)
    BY DEF PoolInv
  <2>9. \A i \in DOMAIN regions' : Halvable(regions'[i])
    BY <2>5, <2>6, <2>7, <2>8 DEF Doubling, Smooth
  <2>10. \A r \in Threads : caller'[r].at = "expand" => AllowGrowth
    BY <2>1
  <2> QED
    BY <1>0, <2>4, <2>5, <2>6, <2>7, <2>9, <2>10 DEF Doubling, Smooth
<1>6. ASSUME NEW t \in Threads, ExpandFails(t)
      PROVE  Doubling'
  <2>1. caller' = [caller EXCEPT ![t] = Idle] /\ Idle.at # "expand"
    BY <1>6 DEF ExpandFails, Idle
  <2> QED
    BY <1>1, <1>2, <1>6, <2>1 DEF ExpandFails, Doubling
<1>7. ASSUME NEW b \in allocated, Free(b)
      PROVE  Doubling'
  <2>1. UNCHANGED <<regions, poolSize, caller>>
    BY <1>7, Zenon DEF Free
  <2> QED
    BY <1>2, <2>1 DEF Doubling
<1>8. CASE Reset
  <2>1. regions' = <<BaseSize>> /\ poolSize' = BaseSize /\ caller' = caller
    BY <1>8 DEF Reset
  <2>2. \A i \in DOMAIN regions' : Halvable(regions'[i])
    BY <1>0, <2>1
  <2> QED
    BY <1>0, <2>1, <2>2 DEF Doubling, Smooth
<1>9. CASE UNCHANGED poolVars
  BY <1>2, <1>9 DEF poolVars, Doubling
<1> QED
  BY <1>3, <1>4, <1>5, <1>6, <1>7, <1>8, <1>9 DEF PoolNext

(* Where the pool may not grow, or no request is larger than its first     *)
(* region, every region is as good as the first: no byte is ever lost, and *)
(* the blocks tile the pool.  The first region is a power of two in the    *)
(* code, which halves evenly.                                              *)
THEOREM PoolTiledUnlessOutgrown ==
    ASSUME Halvable(BaseSize), ~ Outgrown
    PROVE  PoolSpec => []Tiled
<1>1. PoolInit => PoolInv /\ Doubling
  <2> SUFFICES ASSUME PoolInit
               PROVE  Doubling
    BY PoolStart
  <2>1. BaseSize \in Nat \ {0}
    BY PoolAssumption DEF PoolAssumption
  <2>2. regions = <<BaseSize>> /\ poolSize = BaseSize
        /\ \A t \in Threads : caller[t].at = "outside"
    BY DEF PoolInit, Idle
  <2>3. \A i \in DOMAIN regions : Halvable(regions[i])
    BY <2>1, <2>2
  <2> QED
    BY <2>1, <2>2, <2>3 DEF Doubling, Smooth
<1>2. PoolInv /\ Doubling /\ [PoolNext]_poolVars => PoolInv' /\ Doubling'
  BY PoolStep, DoublingKept
<1>3. PoolInv /\ Doubling => Tiled
  BY PoolInvTiles DEF Doubling
<1> QED
  BY <1>1, <1>2, <1>3, PTL DEF PoolSpec
-----------------------------------------------------------------------------
(* That no space is hidden in a pool that has not grown: its blocks lie on *)
(* a grid, and free blocks none of which are buddies leave no gap there.   *)

(* Sizes that double, from less than two smallest blocks on. *)
Doubles(sc, top) ==
    /\ sc \in [0 .. top -> Nat \ {0}] /\ sc[0] < 2 * MinBlock
    /\ \A k \in 1 .. top : sc[k] = 2 * sc[k - 1]

(* One size goes so often into another. *)
Divides(d, n) == \E t \in Nat \ {0} : n = t * d

LEMMA TimesTwice ==
    ASSUME NEW t \in Nat \ {0}, NEW d \in Nat \ {0}, NEW n, n = t * d
    PROVE  2 * t \in Nat \ {0} /\ 2 * n = (2 * t) * d
OBVIOUS

LEMMA ScaleMultiple ==
    ASSUME NEW top \in Nat, NEW sc, Doubles(sc, top),
           NEW j \in 0 .. top, NEW k \in 0 .. top, j <= k
    PROVE  Divides(sc[j], sc[k])
<1> PICK T : T = {i \in 0 .. top : j <= i /\ ~ Divides(sc[j], sc[i])}
  OBVIOUS
<1>1. T \in SUBSET Nat /\ \A i : i \in T <=> i \in 0 .. top /\ j <= i /\ ~ Divides(sc[j], sc[i])
  OBVIOUS
<1>2. ASSUME T # {}
      PROVE  FALSE
  <2>1. PICK i \in T : \A l \in T : i <= l
    BY <1>1, <1>2, LeastOf
  <2>2. i \in 0 .. top /\ j <= i /\ ~ Divides(sc[j], sc[i])
    BY <1>1
  <2>3. sc[j] \in Nat \ {0}
    BY DEF Doubles
  <2>4. CASE i = j
    <3>1. sc[i] = 1 * sc[j] /\ 1 \in Nat \ {0}
      BY <2>3, <2>4
    <3> QED
      BY <2>2, <3>1 DEF Divides
  <2>5. CASE i # j
    <3> PICK l : l = i - 1
      OBVIOUS
    <3>1. l \in 0 .. top /\ j <= l /\ ~ (i <= l) /\ i \in 1 .. top
      BY <2>2, <2>5
    <3>2. Divides(sc[j], sc[l])
      BY <1>1, <2>1, <3>1
    <3>3. sc[i] = 2 * sc[l]
      BY <3>1 DEF Doubles
    <3>4. PICK t \in Nat \ {0} : sc[l] = t * sc[j]
      BY <3>2 DEF Divides
    <3>5. 2 * t \in Nat \ {0} /\ 2 * sc[l] = (2 * t) * sc[j]
      BY <2>3, <3>4, TimesTwice
    <3> QED
      BY <2>2, <3>3, <3>5 DEF Divides
  <2> QED
    BY <2>4, <2>5
<1> QED
  BY <1>1, <1>2

LEMMA AtLeastOnce ==
    ASSUME NEW t \in Nat \ {0}, NEW d \in Nat \ {0}
    PROVE  t * d >= d
OBVIOUS

(* A larger size is a multiple of twice a smaller one. *)
LEMMA ScaleTwice ==
    ASSUME NEW top \in Nat, NEW sc, Doubles(sc, top),
           NEW j \in 0 .. top, NEW k \in 0 .. top, j < k
    PROVE  Divides(2 * sc[j], sc[k]) /\ sc[j] < sc[k]
<1>0. sc[j] \in Nat \ {0}
  BY DEF Doubles
<1> PICK i : i = j + 1
  OBVIOUS
<1>1. i \in 0 .. top /\ i \in 1 .. top /\ i <= k /\ i - 1 = j
  BY <1>0
<1>2. sc[i] = 2 * sc[j]
  BY <1>1 DEF Doubles
<1>3. Divides(sc[i], sc[k])
  BY <1>1, ScaleMultiple
<1>4. PICK t \in Nat \ {0} : sc[k] = t * sc[i]
  BY <1>3 DEF Divides
<1>5. sc[i] \in Nat \ {0} /\ t * sc[i] >= sc[i]
  BY <1>0, <1>2, AtLeastOnce
<1>6. sc[k] >= sc[i] /\ sc[i] > sc[j] /\ sc[k] \in Nat
  BY <1>0, <1>2, <1>4, <1>5 DEF Doubles
<1> QED
  BY <1>0, <1>2, <1>3, <1>6

LEMMA ScaleOrder ==
    ASSUME NEW top \in Nat, NEW sc, Doubles(sc, top),
           NEW j \in 0 .. top, NEW k \in 0 .. top,
           sc[j] <= sc[k]
    PROVE  j <= k
<1>1. sc[j] \in Nat /\ sc[k] \in Nat
  BY DEF Doubles
<1>2. CASE k < j
  <2>1. sc[k] < sc[j]
    BY <1>2, ScaleTwice
  <2> QED
    BY <1>1, <2>1
<1> QED
  BY <1>1, <1>2

-----------------------------------------------------------------------------
(* Numbers that are multiples. *)
LEMMA TimesOrder ==
    ASSUME NEW a \in Nat, NEW b \in Nat, NEW s \in Nat \ {0}
    PROVE  a * s < b * s <=> a < b
<1>1. ASSUME a < b
      PROVE  a * s < b * s
  <2>1. PICK c \in Nat \ {0} : b = a + c
    <3>1. b - a \in Nat \ {0} /\ b = a + (b - a)
      BY <1>1
    <3> QED
      BY <3>1
  <2>2. b * s = a * s + c * s
    BY <2>1
  <2>3. c * s >= s
    BY AtLeastOnce
  <2>4. a * s \in Nat /\ c * s \in Nat
    OBVIOUS
  <2> QED
    BY <2>2, <2>3, <2>4
<1>2. ASSUME b <= a
      PROVE  b * s <= a * s
  <2>1. PICK c \in Nat : a = b + c
    <3>1. a - b \in Nat /\ a = b + (a - b)
      BY <1>2
    <3> QED
      BY <3>1
  <2>2. a * s = b * s + c * s
    BY <2>1
  <2>3. b * s \in Nat /\ c * s \in Nat
    OBVIOUS
  <2> QED
    BY <2>2, <2>3
<1>3. a * s \in Nat /\ b * s \in Nat
  OBVIOUS
<1> QED
  BY <1>1, <1>2, <1>3

LEMMA OneMore ==
    ASSUME NEW a \in Nat, NEW s \in Nat
    PROVE  (a + 1) * s = a * s + s /\ a * s \in Nat
OBVIOUS

(* Of two intervals on the grids of sizes one of which divides the other,  *)
(* the longer holds the shorter, or they do not meet.                      *)
LEMMA Nested ==
    ASSUME NEW s \in Nat \ {0}, NEW t \in Nat \ {0}, NEW q \in Nat, NEW r \in Nat,
           NEW o \in Nat, NEW S \in Nat, NEW p \in Nat,
           S = t * s, o = q * S, p = r * s, o < p + s, p < o + S
    PROVE  o <= p /\ p + s <= o + S
<1> PICK u, v : u = q * t /\ v = u + t
  OBVIOUS
<1>1. u \in Nat /\ v \in Nat /\ o = u * s /\ o + S = v * s
  <2>1. u \in Nat
    OBVIOUS
  <2>2. o = u * s
    OBVIOUS
  <2>3. v * s = u * s + t * s
    BY <2>1
  <2> QED
    BY <2>1, <2>2, <2>3
<1>2. (r + 1) * s = p + s /\ r + 1 \in Nat
  BY OneMore
<1>3. u < r + 1 /\ r < v
  BY <1>1, <1>2, TimesOrder
<1>4. ~ (r < u) /\ ~ (v < r + 1)
  BY <1>1, <1>3
<1>5. ~ (r * s < u * s) /\ ~ (v * s < (r + 1) * s)
  BY <1>1, <1>2, <1>4, TimesOrder
<1> QED
  BY <1>1, <1>2, <1>5
-----------------------------------------------------------------------------
LEMMA DivisionOf ==
    ASSUME NEW a \in Nat, NEW d \in Nat \ {0}
    PROVE  a \div d \in Nat /\ a % d \in 0 .. d - 1 /\ a = ((a \div d) * d) + (a % d)
OBVIOUS

LEMMA MultipleIffNoRest ==
    ASSUME NEW a \in Nat, NEW d \in Nat \ {0}
    PROVE  a % d = 0 <=> \E q \in Nat : a = q * d
<1> PICK e, m : e = a \div d /\ m = a % d
  OBVIOUS
<1>1. e \in Nat /\ m \in 0 .. d - 1 /\ a = e * d + m
  BY DivisionOf
<1>2. ASSUME m = 0
      PROVE  \E q \in Nat : a = q * d
  <2>1. e * d \in Nat
    BY <1>1
  <2>2. a = e * d
    BY <1>1, <1>2, <2>1
  <2> QED
    BY <1>1, <2>2
<1>3. ASSUME NEW q \in Nat, a = q * d
      PROVE  m = 0
  <2>1. (e + 1) * d = e * d + d /\ e * d \in Nat /\ e + 1 \in Nat
    BY <1>1, OneMore
  <2>2. q * d < (e + 1) * d /\ ~ (q * d < e * d)
    BY <1>1, <1>3, <2>1
  <2>3. q < e + 1 /\ ~ (q < e)
    BY <1>1, <2>1, <2>2, TimesOrder
  <2>4. q = e
    BY <1>1, <2>3
  <2> QED
    BY <1>1, <1>3, <2>1, <2>4
<1> QED
  BY <1>2, <1>3

LEMMA EvenOrOdd ==
    ASSUME NEW q \in Nat
    PROVE  \E e \in Nat : q = 2 * e \/ q = 2 * e + 1
<1>1. q \div 2 \in Nat /\ (q = 2 * (q \div 2) \/ q = 2 * (q \div 2) + 1)
  OBVIOUS
<1> QED
  BY <1>1

LEMMA TwiceAsLong ==
    ASSUME NEW e \in Nat, NEW d \in Nat
    PROVE  /\ (2 * e) * d = e * (2 * d) /\ (2 * e + 1) * d = e * (2 * d) + d
           /\ e * (2 * d) \in Nat
OBVIOUS

(* A piece of such a size, at a place that is a multiple of it; blocks     *)
(* that leave no gap; and free blocks none of which are buddies.           *)
OnGrid(sc, top, b) ==
    /\ \E j \in 0 .. top : b.size = sc[j]
    /\ \E q \in Nat : b.offset = q * b.size
Spans(b, i) == b.offset <= i /\ i < b.offset + b.size
Gapless(W, n) == \A i \in 0 .. n - 1 : \E b \in W : Spans(b, i)
Grid(sc, top, W, n) == Gapless(W, n) /\ \A b \in W : OnGrid(sc, top, b)
Settled(F) == \A b, c \in F : ~ AreBuddies(b, c)

Meets(b, p, s) == b.offset < p + s /\ p < b.offset + b.size
Within(b, p, s) == p <= b.offset /\ b.offset + b.size <= p + s
HoldsAll(b, p, s) == b.offset <= p /\ p + s <= b.offset + b.size

(* A block on the grid that meets an interval on the grid holds it, or is  *)
(* a smaller one inside it.                                                *)
LEMMA HoldsOrWithin ==
    ASSUME NEW top \in Nat, NEW sc, Doubles(sc, top), NEW b \in Piece, OnGrid(sc, top, b),
           NEW k \in 0 .. top, NEW r \in Nat, NEW s, s = sc[k], NEW p, p = r * s,
           Meets(b, p, s)
    PROVE  HoldsAll(b, p, s) \/ (Within(b, p, s) /\ \E j \in 0 .. k - 1 : b.size = sc[j])
<1>1. PICK j \in 0 .. top : b.size = sc[j]
  BY DEF OnGrid
<1>2. PICK q \in Nat : b.offset = q * b.size
  BY DEF OnGrid
<1>3. /\ s \in Nat \ {0} /\ b.size \in Nat \ {0} /\ b.offset \in Nat
  BY DEF Doubles, Piece
<1>4. p \in Nat
  BY <1>3
<1>5. CASE k <= j
  <2>1. Divides(s, b.size)
    BY <1>1, <1>5, ScaleMultiple
  <2>2. PICK t \in Nat \ {0} : b.size = t * s
    BY <2>1 DEF Divides
  <2>3. b.offset < p + s /\ p < b.offset + b.size
    BY DEF Meets
  <2>4. b.offset <= p /\ p + s <= b.offset + b.size
    BY <1>2, <1>3, <1>4, <2>2, <2>3, Nested
  <2> QED
    BY <2>4 DEF HoldsAll
<1>6. CASE j < k
  <2>1. Divides(b.size, s)
    BY <1>1, <1>6, ScaleMultiple
  <2>2. PICK t \in Nat \ {0} : s = t * b.size
    BY <2>1 DEF Divides
  <2>3. b.offset < p + s /\ p < b.offset + b.size
    BY DEF Meets
  <2>4. p <= b.offset /\ b.offset + b.size <= p + s
    BY <1>2, <1>3, <1>4, <2>2, <2>3, Nested
  <2>5. j \in 0 .. k - 1
    BY <1>3, <1>6
  <2> QED
    BY <1>1, <2>4, <2>5 DEF Within
<1> QED
  BY <1>3, <1>5, <1>6

LEMMA SamePlace ==
    ASSUME NEW d \in Nat \ {0}, NEW g \in Nat, NEW m \in Nat, NEW y \in Nat, NEW o \in Nat,
           o = g * d, y = m * d, o <= y, y < o + d
    PROVE  o = y
<1>1. (g + 1) * d = o + d /\ (m + 1) * d = y + d /\ g + 1 \in Nat /\ m + 1 \in Nat
  BY OneMore
<1>2. g * d < (m + 1) * d /\ m * d < (g + 1) * d
  BY <1>1
<1>3. g < m + 1 /\ m < g + 1
  BY <1>1, <1>2, TimesOrder
<1>4. g = m
  BY <1>3
<1> QED
  BY <1>4

(* Where free blocks that are all settled leave no gap in an interval on   *)
(* the grid, one of them holds it: the smallest that did not would have a  *)
(* buddy there, no larger than it and free.                                *)
LEMMA SpaceFound ==
    ASSUME NEW top \in Nat, NEW sc, Doubles(sc, top),
           NEW F, NEW A, NEW n \in Nat, Tiling(F \cup A, n),
           Grid(sc, top, F \cup A, n), Settled(F),
           NEW k \in 0 .. top, NEW r \in Nat, NEW s, s = sc[k], NEW p, p = r * s,
           p + s <= n,
           \A b \in A : b.offset + b.size <= p \/ p + s <= b.offset
    PROVE  \E b \in F : HoldsAll(b, p, s)
<1> SUFFICES ASSUME \A b \in F : ~ HoldsAll(b, p, s)
             PROVE  FALSE
  OBVIOUS
<1> PICK W : W = F \cup A
  OBVIOUS
<1>1. s \in Nat \ {0} /\ p \in Nat
  <2>1. s \in Nat \ {0}
    BY DEF Doubles
  <2> QED
    BY <2>1
<1>2. \A b \in W : b \in Piece /\ b.size \in Nat \ {0} /\ b.offset \in Nat /\ OnGrid(sc, top, b)
  BY DEF Tiling, Piece, Grid
<1>3. \A b \in W : Meets(b, p, s) => b \in F
  <2> SUFFICES ASSUME NEW b \in A, Meets(b, p, s)
               PROVE  FALSE
    OBVIOUS
  <2>1. b.size \in Nat /\ b.offset \in Nat
    BY <1>2
  <2>2. b.offset + b.size <= p \/ p + s <= b.offset
    OBVIOUS
  <2> QED
    BY <1>1, <2>1, <2>2 DEF Meets
<1>4. \A b \in W : Meets(b, p, s) =>
          Within(b, p, s) /\ \E j \in 0 .. k - 1 : b.size = sc[j]
  BY <1>2, <1>3, HoldsOrWithin
<1> PICK T : T = {j \in 0 .. top : \E b \in W : Meets(b, p, s) /\ b.size = sc[j]}
  OBVIOUS
<1>5. T # {} /\ T \in SUBSET Nat
  <2>1. p \in 0 .. n - 1
    BY <1>1
  <2>2. PICK b \in W : Spans(b, p)
    BY <2>1 DEF Grid, Gapless
  <2>3. Meets(b, p, s)
    BY <1>1, <1>2, <2>2 DEF Meets, Spans
  <2>4. PICK j \in 0 .. k - 1 : b.size = sc[j]
    BY <1>4, <2>3
  <2>5. j \in 0 .. top
    BY <1>1
  <2> QED
    BY <2>3, <2>4, <2>5
<1>6. PICK j \in T : \A i \in T : j <= i
  BY <1>5, LeastOf
<1>7. PICK w \in W : Meets(w, p, s) /\ w.size = sc[j]
  OBVIOUS
<1> PICK d : d = sc[j]
  OBVIOUS
<1>8. /\ w \in F /\ w.size = d /\ d \in Nat \ {0} /\ w.offset \in Nat /\ Within(w, p, s)
      /\ j \in 0 .. top /\ j < k
  <2>1. w \in F /\ Within(w, p, s) /\ w.size \in Nat \ {0} /\ w.offset \in Nat
    BY <1>2, <1>3, <1>4, <1>7
  <2>2. PICK i \in 0 .. k - 1 : w.size = sc[i]
    BY <1>4, <1>7
  <2>3. i \in 0 .. top /\ i < k
    BY <1>1
  <2>4. j \in 0 .. top /\ i \in T
    BY <1>7, <2>2, <2>3
  <2>5. j <= i
    BY <1>6, <2>4
  <2>6. j < k
    BY <1>1, <2>3, <2>4, <2>5
  <2> QED
    BY <1>7, <2>1, <2>4, <2>6
<1> PICK d2 : d2 = 2 * d
  OBVIOUS
<1>9. d2 \in Nat \ {0} /\ Divides(d2, s)
  BY <1>8, ScaleTwice
<1>10. PICK q \in Nat : w.offset = q * d
  BY <1>2, <1>8 DEF OnGrid
<1>11. PICK e \in Nat : q = 2 * e \/ q = 2 * e + 1
  BY EvenOrOdd
<1> PICK z : z = e * d2
  OBVIOUS
<1>12. /\ z \in Nat /\ (2 * e) * d = z /\ (2 * e + 1) * d = z + d
       /\ w.offset = z \/ w.offset = z + d
       /\ w.offset = z => q = 2 * e
       /\ z + d2 = z + d + d
  <2>1. z \in Nat /\ (2 * e) * d = z /\ (2 * e + 1) * d = z + d
    BY <1>8, TwiceAsLong
  <2>2. w.offset = z \/ w.offset = z + d
    BY <1>10, <1>11, <2>1
  <2>3. q = 2 * e + 1 => w.offset = z + d /\ z + d # z
    BY <1>8, <1>10, <2>1
  <2> QED
    BY <1>8, <1>11, <2>1, <2>2, <2>3
<1>13. p <= z /\ z + d2 <= p + s
  <2>1. PICK t \in Nat \ {0} : s = t * d2
    BY <1>9 DEF Divides
  <2>2. p < z + d2 /\ z < p + s
    BY <1>1, <1>8, <1>12 DEF Within
  <2> QED
    BY <1>1, <1>9, <1>12, <2>1, <2>2, Nested
<1>14. PICK y \in {z, z + d} : y # w.offset
  BY <1>8, <1>12
<1>15. y \in Nat /\ y \in 0 .. n - 1 /\ z <= y /\ y < z + d2 /\ y \in {z, z + d}
  BY <1>1, <1>8, <1>12, <1>13
<1>16. PICK c \in W : Spans(c, y)
  BY <1>15 DEF Grid, Gapless
<1>17. c.size \in Nat \ {0} /\ c.offset \in Nat /\ c \in Piece /\ OnGrid(sc, top, c)
  BY <1>2
<1>18. Meets(c, p, s)
  BY <1>1, <1>13, <1>15, <1>16, <1>17 DEF Meets, Spans
<1>19. PICK i \in 0 .. k - 1 : c.size = sc[i]
  BY <1>4, <1>18
<1>20. i \in 0 .. top /\ i \in T /\ j <= i /\ i \in Nat
  <2>1. i \in 0 .. top /\ i \in Nat
    BY <1>1
  <2>2. i \in T
    BY <1>18, <1>19, <2>1
  <2> QED
    BY <1>6, <2>1, <2>2
<1>21. PICK g \in Nat : c.offset = g * c.size
  BY <1>17 DEF OnGrid
<1>22. i = j
  <2> SUFFICES ASSUME j < i
               PROVE  FALSE
    BY <1>8, <1>20
  <2>1. Divides(d2, c.size) /\ d < c.size
    BY <1>8, <1>19, <1>20, ScaleTwice
  <2>2. PICK t \in Nat \ {0} : c.size = t * d2
    BY <2>1 DEF Divides
  <2>3. c.offset < z + d2 /\ z < c.offset + c.size
    BY <1>12, <1>15, <1>16, <1>17 DEF Spans
  <2>4. c.offset <= z /\ z + d2 <= c.offset + c.size
    <3> PICK o, S : o = c.offset /\ S = c.size
      OBVIOUS
    <3>1. o \in Nat /\ S \in Nat /\ o = g * S /\ S = t * d2
      BY <1>17, <1>21, <2>2
    <3>2. o < z + d2 /\ z < o + S
      BY <2>3
    <3>3. d2 \in Nat \ {0} /\ z \in Nat /\ z = e * d2
      BY <1>9, <1>12
    <3>4. o <= z /\ z + d2 <= o + S
      BY <3>1, <3>2, <3>3, Nested
    <3> QED
      BY <3>4
  <2>5. c # w
    BY <1>8, <1>17, <2>1
  <2>6. Clear(c, w)
    BY <1>7, <1>16, <2>5 DEF Tiling
  <2>7. z <= w.offset /\ w.offset + d <= z + d2 /\ w.offset \in Nat
    BY <1>8, <1>12
  <2>8. c.offset < w.offset + w.size /\ w.offset < c.offset + c.size
    BY <1>8, <1>12, <1>17, <2>4, <2>7
  <2> QED
    BY <1>8, <1>17, <2>6, <2>8 DEF Clear
<1>23. c.size = d /\ c.offset = g * d
  BY <1>19, <1>21, <1>22
<1>24. c.offset = y
  <2>1. PICK m \in Nat : y = m * d
    <3>1. 2 * e \in Nat /\ 2 * e + 1 \in Nat
      OBVIOUS
    <3> QED
      BY <1>12, <1>15, <3>1
  <2>2. c.offset <= y /\ y < c.offset + d
    BY <1>16, <1>23 DEF Spans
  <2> QED
    BY <1>8, <1>15, <1>17, <1>23, <2>1, <2>2, SamePlace
<1>25. z % d2 = 0
  <2>1. z \in Nat /\ d2 \in Nat \ {0}
    BY <1>9, <1>12
  <2>2. \E v \in Nat : z = v * d2
    OBVIOUS
  <2> QED
    BY <2>1, <2>2, MultipleIffNoRest
<1>26. AreBuddies(w, c) \/ AreBuddies(c, w)
  <2>1. CASE w.offset = z
    <3>1. y = z + d
      BY <1>14, <1>15, <2>1
    <3> QED
      BY <1>8, <1>23, <1>24, <1>25, <2>1, <3>1 DEF AreBuddies
  <2>2. CASE w.offset = z + d
    <3>1. y = z
      BY <1>14, <1>15, <2>2
    <3> QED
      BY <1>8, <1>23, <1>24, <1>25, <2>2, <3>1 DEF AreBuddies
  <2> QED
    BY <1>12, <2>1, <2>2
<1>27. c \in F
  BY <1>3, <1>18
<1> QED
  BY <1>8, <1>26, <1>27 DEF Settled
-----------------------------------------------------------------------------
(* What is cut from a block on the grid is on it, and a buddy that is cut  *)
(* off is not where a pair begins.                                         *)
LEMMA CutOnGrid ==
    ASSUME NEW top \in Nat, NEW sc, Doubles(sc, top),
           NEW x \in Piece, NEW j \in 0 .. top, x.size = sc[j],
           NEW q \in Nat, x.offset = q * x.size, NEW l \in 0 .. j
    PROVE  /\ OnGrid(sc, top, Rest(x, sc[l])) /\ OnGrid(sc, top, Buddy(x, sc[l]))
           /\ l < j => Buddy(x, sc[l]).offset % (2 * sc[l]) # 0
<1> PICK d, S, o, a, b : /\ d = sc[l] /\ S = x.size /\ o = x.offset
                         /\ a = Rest(x, d) /\ b = Buddy(x, d)
  OBVIOUS
<1>0. l \in 0 .. top /\ l <= j
  OBVIOUS
<1>1. d \in Nat \ {0} /\ S \in Nat \ {0} /\ o \in Nat /\ o = q * S
  BY <1>0 DEF Piece, Doubles
<1>2. a.size = d /\ a.offset = o /\ b.size = d /\ b.offset = o + d
  <2>1. d \in Nat \ {0} /\ x \in Piece
    BY <1>1
  <2> QED
    BY <2>1, CutFields
<1>3. PICK t \in Nat \ {0} : S = t * d
  <2>1. Divides(sc[l], sc[j])
    BY <1>0, ScaleMultiple
  <2> QED
    BY <2>1 DEF Divides
<1>4. PICK m \in Nat : m = q * t
  OBVIOUS
<1>5. o = m * d
  BY <1>1, <1>3, <1>4
<1>6. o + d = (m + 1) * d /\ m + 1 \in Nat
  <2>1. m \in Nat /\ d \in Nat
    BY <1>1
  <2>2. (m + 1) * d = m * d + d
    BY <2>1, OneMore
  <2> QED
    BY <1>5, <2>1, <2>2
<1>7. OnGrid(sc, top, a) /\ OnGrid(sc, top, b)
  BY <1>0, <1>2, <1>5, <1>6 DEF OnGrid
<1>8. ASSUME l < j
      PROVE  (o + d) % (2 * d) # 0
  <2>1. Divides(2 * d, S)
    BY <1>0, <1>8, ScaleTwice
  <2>2. PICK u \in Nat \ {0} : S = u * (2 * d)
    BY <2>1 DEF Divides
  <2>3. PICK v \in Nat : v = q * u
    OBVIOUS
  <2>4. o = v * (2 * d)
    BY <1>1, <2>2, <2>3
  <2>5. PICK e \in Nat \ {0} : e = 2 * d
    BY <1>1
  <2>6. o % e = 0
    <3>1. o = v * e
      BY <2>4, <2>5
    <3> QED
      BY <1>1, <3>1, MultipleIffNoRest
  <2>7. o % (2 * d) = 0
    BY <2>5, <2>6
  <2> QED
    BY <1>1, <2>7, NotBothAligned
<1> QED
  BY <1>2, <1>7, <1>8

(* The sizes a block on the grid is halved to are on the scale. *)
LEMMA HalvesOnScale ==
    ASSUME NEW top \in Nat, NEW sc, Doubles(sc, top),
           NEW j \in 0 .. top, NEW K \in Nat, NEW h,
           Halves(h, sc[j], K, MinBlock)
    PROVE  \A i \in 0 .. K : i <= j /\ h[i] = sc[j - i]
<1>0. MinBlock \in Nat \ {0} /\ j \in Nat
  BY PoolAssumption DEF PoolAssumption
<1> PICK T : T = {i \in 0 .. K : ~ (i <= j /\ h[i] = sc[j - i])}
  OBVIOUS
<1>1. T \in SUBSET Nat /\ \A i : i \in T <=> i \in 0 .. K /\ ~ (i <= j /\ h[i] = sc[j - i])
  OBVIOUS
<1>2. ASSUME T # {}
      PROVE  FALSE
  <2>1. PICK i \in T : \A l \in T : i <= l
    BY <1>1, <1>2, LeastOf
  <2>2. i \in 0 .. K /\ ~ (i <= j /\ h[i] = sc[j - i])
    BY <1>1
  <2>3. i # 0
    BY <1>0, <2>2 DEF Halves
  <2> PICK l : l = i - 1
    OBVIOUS
  <2>4. l \in 0 .. K /\ ~ (i <= l) /\ i \in 1 .. K
    BY <2>2, <2>3
  <2>5. l <= j /\ h[l] = sc[j - l]
    BY <1>1, <2>1, <2>4
  <2>6. h[i] = h[l] \div 2 /\ h[i] \in Nat /\ h[i] >= MinBlock
    BY <2>2, <2>4 DEF Halves
  <2>7. CASE l = j
    <3>1. h[l] < 2 * MinBlock /\ h[l] \in Nat
      BY <1>0, <2>5, <2>7 DEF Doubles
    <3> QED
      BY <1>0, <2>6, <3>1
  <2>8. CASE l # j
    <3>1. j - l \in 1 .. top /\ j - l - 1 = j - i /\ i <= j /\ j - i \in 0 .. top
      BY <1>0, <2>4, <2>5, <2>8
    <3>2. sc[j - l] = 2 * sc[j - i] /\ sc[j - i] \in Nat
      BY <3>1 DEF Doubles
    <3>3. h[i] = sc[j - i]
      BY <2>5, <2>6, <3>2
    <3> QED
      BY <2>2, <3>1, <3>3
  <2> QED
    BY <2>7, <2>8
<1> QED
  BY <1>1, <1>2

(* No byte of a block that is cut is left out. *)
LEMMA CutGapless ==
    ASSUME NEW x \in Piece, NEW K \in Nat, NEW h, Halves(h, x.size, K, MinBlock),
           \A l \in 1 .. K : h[l - 1] = 2 * h[l],
           NEW i \in Nat, Spans(x, i)
    PROVE  Spans(Rest(x, h[K]), i) \/ \E l \in 1 .. K : Spans(Buddy(x, h[l]), i)
<1>0. MinBlock \in Nat \ {0}
  BY PoolAssumption DEF PoolAssumption
<1>1. \A l \in 0 .. K : h[l] \in Nat \ {0}
  BY <1>0 DEF Halves
<1>2. x.offset \in Nat /\ x.size \in Nat /\ h[0] = x.size
  BY DEF Piece, Halves
<1> PICK o, T : o = x.offset /\ T = {l \in 0 .. K : i < o + h[l]}
  OBVIOUS
<1>3. 0 \in T /\ T \in SUBSET (0 .. K) /\ o \in Nat /\ o <= i
  BY <1>2 DEF Spans
<1>4. PICK m \in T : \A l \in T : l <= m
  BY <1>3, GreatestOf
<1>5. m \in 0 .. K /\ i < o + h[m]
  OBVIOUS
<1>6. CASE m = K
  <2>1. h[K] \in Nat \ {0}
    BY <1>1
  <2>2. Rest(x, h[K]).size = h[K] /\ Rest(x, h[K]).offset = o
    BY <2>1, CutFields
  <2> QED
    BY <1>3, <1>5, <1>6, <2>2 DEF Spans
<1>7. CASE m # K
  <2> PICK l : l = m + 1
    OBVIOUS
  <2>1. l \in 1 .. K /\ l \in 0 .. K /\ ~ (l <= m) /\ l - 1 = m
    BY <1>5, <1>7
  <2>2. ~ (i < o + h[l])
    BY <1>4, <2>1
  <2>3. h[m] = 2 * h[l] /\ h[l] \in Nat \ {0}
    BY <1>1, <2>1
  <2>4. Buddy(x, h[l]).size = h[l] /\ Buddy(x, h[l]).offset = o + h[l]
    BY <2>3, CutFields
  <2>5. o + h[l] <= i /\ i < o + h[l] + h[l]
    BY <1>3, <1>5, <2>2, <2>3
  <2> QED
    BY <2>1, <2>4, <2>5 DEF Spans
<1> QED
  BY <1>6, <1>7

LEMMA SameStart ==
    ASSUME NEW b \in Piece, NEW x \in Piece, NEW c, c.size \in Nat,
           c.offset = b.offset + c.size, c.offset = x.offset + c.size
    PROVE  b.offset = x.offset
<1>1. b.offset \in Nat /\ x.offset \in Nat
  BY DEF Piece
<1> QED
  BY <1>1

LEMMA TakeKeepsGrid ==
    ASSUME NEW top \in Nat, NEW sc, Doubles(sc, top),
           NEW F, NEW A, NEW n \in Nat, Tiling(F \cup A, n),
           Grid(sc, top, F \cup A, n), Settled(F), NEW x \in F,
           NEW want \in Nat, want >= MinBlock, x.size >= want
    PROVE  Grid(sc, top, AfterTake(F, A, x, want), n) /\ Settled(FreeAfter(F, x, want))
<1> PICK K, h, W : K = Splits(x, want) /\ h = Halved(x.size) /\ W = AfterTake(F, A, x, want)
  OBVIOUS
<1>0. MinBlock \in Nat \ {0}
  BY PoolAssumption DEF PoolAssumption
<1>1. x \in Piece /\ x.size \in Nat /\ x.offset \in Nat /\ OnGrid(sc, top, x)
  BY DEF Tiling, Piece, Grid
<1>2. PICK j \in 0 .. top : x.size = sc[j]
  BY <1>1 DEF OnGrid
<1>3. PICK q \in Nat : x.offset = q * x.size
  BY <1>1 DEF OnGrid
<1>4. K \in Nat /\ Halves(h, x.size, K, MinBlock)
  <2>1. K \in Nat /\ Halves(h, x.size, K, want)
    BY <1>0, <1>1, SplitsFit, HalvesAreLong
  <2> QED
    BY <1>0, <2>1 DEF Halves
<1>5. \A i \in 0 .. K : i <= j /\ h[i] = sc[j - i]
  BY <1>2, <1>4, HalvesOnScale
<1>6. Left(x, want) = Rest(x, h[K]) /\ Buddies(x, want) = Cuts(x, h, K)
  BY DEF Left, Rest, Buddies, Cuts, Buddy
<1>7. OnGrid(sc, top, Rest(x, h[K]))
  <2>1. h[K] = sc[j - K] /\ j - K \in 0 .. j
    BY <1>0, <1>4, <1>5
  <2> QED
    BY <1>1, <1>2, <1>3, <2>1, CutOnGrid
<1>8. ASSUME NEW b \in Cuts(x, h, K)
      PROVE  /\ OnGrid(sc, top, b) /\ b.offset % (2 * b.size) # 0
             /\ b.size \in Nat \ {0} /\ b.offset = x.offset + b.size
  <2>1. PICK i \in 1 .. K : b = Buddy(x, h[i])
    BY DEF Cuts
  <2>2. h[i] = sc[j - i] /\ j - i \in 0 .. j /\ j - i < j /\ j - i \in 0 .. top
    BY <1>0, <1>4, <1>5
  <2>3. OnGrid(sc, top, b) /\ b.offset % (2 * h[i]) # 0
    BY <1>1, <1>2, <1>3, <2>1, <2>2, CutOnGrid
  <2>4. h[i] \in Nat \ {0}
    BY <2>2 DEF Doubles
  <2>5. b.size = h[i] /\ b.offset = x.offset + h[i]
    BY <1>1, <2>1, <2>4, CutFields
  <2> QED
    BY <2>3, <2>4, <2>5
<1>9. W = ((F \cup A) \ {x}) \cup A \cup {Rest(x, h[K])} \cup Cuts(x, h, K)
  BY <1>6 DEF AfterTake, FreeAfter, HeldAfter
<1>10. \A b \in W : OnGrid(sc, top, b)
  BY <1>7, <1>8, <1>9 DEF Grid
<1>11. Gapless(W, n)
  <2> SUFFICES ASSUME NEW i \in 0 .. n - 1
               PROVE  \E b \in W : Spans(b, i)
    BY DEF Gapless
  <2>1. PICK b \in F \cup A : Spans(b, i)
    BY DEF Grid, Gapless
  <2>2. CASE b # x
    BY <1>9, <2>1, <2>2
  <2>3. CASE b = x
    <3>1. \A l \in 1 .. K : h[l - 1] = 2 * h[l]
      <4> SUFFICES ASSUME NEW l \in 1 .. K
                   PROVE  h[l - 1] = 2 * h[l]
        OBVIOUS
      <4>1. l \in 0 .. K /\ l - 1 \in 0 .. K
        BY <1>4
      <4>2. l <= j /\ h[l] = sc[j - l] /\ h[l - 1] = sc[j - (l - 1)]
        BY <1>5, <4>1
      <4>3. j - (l - 1) \in 1 .. top /\ j - (l - 1) - 1 = j - l
        BY <1>0, <4>1, <4>2
      <4> QED
        BY <4>2, <4>3 DEF Doubles
    <3>2. i \in Nat /\ Spans(x, i)
      BY <2>1, <2>3
    <3>3. Spans(Rest(x, h[K]), i) \/ \E l \in 1 .. K : Spans(Buddy(x, h[l]), i)
      BY <1>1, <1>4, <3>1, <3>2, CutGapless
    <3> QED
      BY <1>9, <3>3 DEF Cuts
  <2> QED
    BY <2>2, <2>3
<1>12. Settled(FreeAfter(F, x, want))
  <2> SUFFICES ASSUME NEW b \in (F \ {x}) \cup Cuts(x, h, K), NEW c \in (F \ {x}) \cup Cuts(x, h, K),
                      AreBuddies(b, c)
               PROVE  FALSE
    BY <1>6 DEF Settled, FreeAfter
  <2>1. b.size = c.size /\ c.offset = b.offset + b.size /\ b.offset % (2 * b.size) = 0
    BY DEF AreBuddies
  <2>2. b \in F \ {x}
    BY <1>8, <2>1
  <2>3. c \in Cuts(x, h, K)
    BY <2>2 DEF Settled
  <2>4. c.offset = x.offset + c.size /\ c.size \in Nat
    BY <1>8, <2>3
  <2>5. b.offset \in Nat /\ b.size \in Nat \ {0} /\ x.size \in Nat \ {0}
    BY <2>2 DEF Tiling, Piece
  <2>6. b.offset = x.offset
    <3>1. c.offset = b.offset + c.size
      BY <2>1
    <3>2. b \in Piece
      BY <2>2 DEF Tiling
    <3> QED
      BY <1>1, <2>4, <3>1, <3>2, SameStart
  <2>7. Clear(b, x)
    BY <2>2 DEF Tiling
  <2> QED
    BY <1>1, <2>5, <2>6, <2>7 DEF Clear
<1> QED
  BY <1>10, <1>11, <1>12 DEF Grid
-----------------------------------------------------------------------------
(* Merging the buddies of one size keeps the blocks on the grid, and       *)
(* leaves none of that size to merge.                                      *)
LEMMA JoinedOnGrid ==
    ASSUME NEW top \in Nat, NEW sc, Doubles(sc, top),
           NEW m \in 0 .. top, NEW n, n = sc[m],
           NEW a \in Piece, NEW s, a.size = s, OnGrid(sc, top, a),
           a.offset + 2 * s <= n, a.offset % (2 * s) = 0
    PROVE  /\ Joined(a).size = 2 * s /\ Joined(a).offset = a.offset
           /\ OnGrid(sc, top, Joined(a))
<1>1. s \in Nat \ {0} /\ a.offset \in Nat /\ n \in Nat \ {0}
  BY DEF Piece, Doubles
<1>2. Joined(a).size = 2 * s /\ Joined(a).offset = a.offset
  BY DEF Joined, Piece
<1>3. PICK j \in 0 .. top : s = sc[j]
  BY DEF OnGrid
<1>4. s < n
  BY <1>1
<1>5. j < m
  <2>1. CASE m < j
    <3>1. sc[m] < sc[j]
      BY <2>1, ScaleTwice
    <3> QED
      BY <1>1, <1>3, <1>4, <3>1
  <2>2. CASE m = j
    BY <1>1, <1>3, <1>4, <2>2
  <2> QED
    BY <1>1, <2>1, <2>2
<1> PICK i : i = j + 1
  OBVIOUS
<1>6. i \in 0 .. top /\ i \in 1 .. top /\ i - 1 = j
  BY <1>1, <1>5
<1>7. sc[i] = 2 * s
  BY <1>3, <1>6 DEF Doubles
<1>8. 2 * s \in Nat \ {0}
  BY <1>1
<1>9. \E q \in Nat : a.offset = q * (2 * s)
  BY <1>1, <1>8, MultipleIffNoRest
<1> QED
  BY <1>2, <1>6, <1>7, <1>9 DEF OnGrid

LEMMA MergeKeepsGrid ==
    ASSUME NEW top \in Nat, NEW sc, Doubles(sc, top),
           NEW m \in 0 .. top, NEW n, n = sc[m],
           NEW F, NEW A, Tiling(F \cup A, n), Grid(sc, top, F \cup A, n),
           NEW s \in Nat \ {0}
    PROVE  Grid(sc, top, MergeSize(F, s) \cup A, n)
<1> PICK P, M : P = BuddyPairs(F, s) /\ M = MergeSize(F, s)
  OBVIOUS
<1>1. M = (F \ UNION {{p[1], p[2]} : p \in P}) \cup {Joined(p[1]) : p \in P}
  BY MergeIsMerged DEF Merged
<1>2. ASSUME NEW p \in P
      PROVE  /\ p[1] \in Piece /\ p[2] \in Piece /\ p[1].size = s /\ p[2].size = s
             /\ p[2].offset = p[1].offset + s
             /\ Joined(p[1]).size = 2 * s /\ Joined(p[1]).offset = p[1].offset
             /\ OnGrid(sc, top, Joined(p[1]))
  <2> PICK a, b : a = p[1] /\ b = p[2]
    OBVIOUS
  <2>1. a \in F /\ b \in F /\ a.size = s /\ b.size = s /\ b.offset = a.offset + s
        /\ a.offset % (2 * s) = 0
    BY DEF BuddyPairs, AreBuddies
  <2>2. a \in Piece /\ b \in Piece /\ b.offset + b.size <= n /\ OnGrid(sc, top, a) /\ a.offset \in Nat
    BY <2>1 DEF Tiling, Grid, Piece
  <2>3. a.offset + 2 * s <= n
    BY <2>1, <2>2
  <2>4. /\ Joined(a).size = 2 * s /\ Joined(a).offset = a.offset
        /\ OnGrid(sc, top, Joined(a))
    BY <2>1, <2>2, <2>3, JoinedOnGrid
  <2> QED
    BY <2>1, <2>2, <2>4
<1>3. \A b \in M \cup A : OnGrid(sc, top, b)
  BY <1>1, <1>2 DEF Grid
<1>4. Gapless(M \cup A, n)
  <2> SUFFICES ASSUME NEW i \in 0 .. n - 1
               PROVE  \E b \in M \cup A : Spans(b, i)
    BY DEF Gapless
  <2>0. i \in Nat
    OBVIOUS
  <2>1. PICK b \in F \cup A : Spans(b, i)
    BY DEF Grid, Gapless
  <2>2. CASE b \in M \cup A
    BY <2>1, <2>2
  <2>3. CASE b \notin M \cup A
    <3>1. PICK p \in P : b = p[1] \/ b = p[2]
      BY <1>1, <2>3
    <3> PICK c : c = Joined(p[1])
      OBVIOUS
    <3>2. c \in M
      BY <1>1
    <3>3. c.size = 2 * s /\ c.offset = p[1].offset /\ p[1].offset \in Nat
          /\ p[1].size = s /\ p[2].size = s /\ p[2].offset = p[1].offset + s
      BY <1>2 DEF Piece
    <3>4. Spans(c, i)
      BY <2>0, <2>1, <3>1, <3>3 DEF Spans
    <3> QED
      BY <3>2, <3>4
  <2> QED
    BY <2>2, <2>3
<1> QED
  BY <1>3, <1>4 DEF Grid

NoPairsUpTo(F, s) == \A b, c \in F : AreBuddies(b, c) => ~ (b.size <= s)

LEMMA MergeLeavesNoPairs ==
    ASSUME NEW F \in SUBSET Piece, NEW s \in Nat \ {0}, NoPairsUpTo(F, s - 1)
    PROVE  NoPairsUpTo(MergeSize(F, s), s)
<1> PICK P, M : P = BuddyPairs(F, s) /\ M = MergeSize(F, s)
  OBVIOUS
<1>1. M = (F \ UNION {{p[1], p[2]} : p \in P}) \cup {Joined(p[1]) : p \in P}
  BY MergeIsMerged DEF Merged
<1>2. ASSUME NEW b \in M, b.size <= s
      PROVE  b \in F /\ \A p \in P : b # p[1] /\ b # p[2]
  <2>1. ASSUME NEW p \in P, b = Joined(p[1])
        PROVE  FALSE
    <3>1. p[1] \in Piece /\ p[1].size = s
      BY DEF BuddyPairs
    <3>2. Joined(p[1]).size = 2 * s
      BY <3>1 DEF Joined, Piece
    <3> QED
      BY <1>2, <2>1, <3>2
  <2> QED
    BY <1>1, <2>1
<1> SUFFICES ASSUME NEW b \in M, NEW c \in M, AreBuddies(b, c), b.size <= s
             PROVE  FALSE
  BY DEF NoPairsUpTo
<1>3. b.size = c.size
  BY DEF AreBuddies
<1>4. b \in F /\ c \in F /\ b.size \in Nat
  BY <1>2, <1>3 DEF Piece
<1>5. CASE b.size = s
  <2> PICK p : p = <<b, c>>
    OBVIOUS
  <2>1. p \in P /\ p[1] = b
    BY <1>4, <1>5 DEF BuddyPairs
  <2> QED
    BY <1>2, <2>1
<1>6. CASE b.size # s
  <2>1. b.size <= s - 1
    BY <1>4, <1>6
  <2> QED
    BY <1>4, <2>1 DEF NoPairsUpTo
<1> QED
  BY <1>5, <1>6

LEMMA CoalescesSettle ==
    ASSUME NEW top \in Nat, NEW sc, Doubles(sc, top),
           NEW m \in 0 .. top, NEW n, n = sc[m],
           NEW F, NEW A, F \cap A = {}, Tiling(F \cup A, n), Grid(sc, top, F \cup A, n),
           NEW N \in Nat, NEW f, Coalesces(f, F, N), NEW k \in 0 .. N
    PROVE  Grid(sc, top, f[k] \cup A, n) /\ NoPairsUpTo(f[k], k)
<1>0. f[0] = F /\ \A j \in 1 .. N : f[j] = MergeSize(f[j - 1], j)
  BY CoalescesUnfolds
<1>1. n \in Nat
  BY DEF Doubles
<1>2. Grid(sc, top, f[0] \cup A, n) /\ NoPairsUpTo(f[0], 0)
  BY <1>0 DEF Tiling, Piece, NoPairsUpTo
<1> PICK T : T = {j \in 0 .. N : ~ (Grid(sc, top, f[j] \cup A, n) /\ NoPairsUpTo(f[j], j))}
  OBVIOUS
<1>3. T \in SUBSET Nat /\ \A j : j \in T <=>
          j \in 0 .. N /\ ~ (Grid(sc, top, f[j] \cup A, n) /\ NoPairsUpTo(f[j], j))
  OBVIOUS
<1>4. ASSUME T # {}
      PROVE  FALSE
  <2>1. PICK j \in T : \A i \in T : j <= i
    BY <1>3, <1>4, LeastOf
  <2>2. j \in 0 .. N /\ ~ (Grid(sc, top, f[j] \cup A, n) /\ NoPairsUpTo(f[j], j))
    BY <1>3
  <2>3. j # 0
    BY <1>2, <2>2
  <2> PICK l : l = j - 1
    OBVIOUS
  <2>4. l \in 0 .. N /\ ~ (j <= l) /\ j \in 1 .. N /\ j \in Nat \ {0} /\ l = j - 1
    BY <2>2, <2>3
  <2> PICK G, H : G = f[l] /\ H = f[j]
    OBVIOUS
  <2>5. Grid(sc, top, G \cup A, n) /\ NoPairsUpTo(G, j - 1)
    BY <1>3, <2>1, <2>4
  <2>6. Kept(F, f[l], A, n)
    BY <1>1, <2>4, CoalescesKeeps
  <2>7. Tiling(G \cup A, n)
    BY <2>6 DEF Kept
  <2>8. G \in SUBSET Piece
    BY <2>7 DEF Tiling
  <2>9. H = MergeSize(G, j)
    BY <1>0, <2>4
  <2>10. Grid(sc, top, H \cup A, n)
    BY <2>4, <2>5, <2>7, <2>9, MergeKeepsGrid
  <2>11. NoPairsUpTo(H, j)
    BY <2>4, <2>5, <2>8, <2>9, MergeLeavesNoPairs
  <2> QED
    BY <2>2, <2>10, <2>11
<1> QED
  BY <1>3, <1>4

LEMMA CoalescedSettles ==
    ASSUME NEW top \in Nat, NEW sc, Doubles(sc, top),
           NEW m \in 0 .. top, totalBytes = sc[m],
           NEW F, NEW A, F \cap A = {}, Tiling(F \cup A, totalBytes),
           Grid(sc, top, F \cup A, totalBytes)
    PROVE  Grid(sc, top, Coalesced(F) \cup A, totalBytes) /\ Settled(Coalesced(F))
<1> PICK N : N = totalBytes
  OBVIOUS
<1>0. N \in Nat
  BY DEF Doubles
<1>1. F \in SUBSET Piece
  BY DEF Tiling
<1>2. \E f : Coalesces(f, F, N)
  BY <1>0, <1>1, CoalescesExists
<1> DEFINE P(f) == f = [s \in 0 .. N |-> IF s = 0 THEN F ELSE MergeSize(f[s - 1], s)]
           g == CHOOSE f : P(f)
<1>3. Coalesced(F) = g[N]
  BY DEF Coalesced
<1>4. \A f : P(f) <=> Coalesces(f, F, N)
  BY DEF Coalesces
<1> HIDE DEF P
<1>5. Coalesces(g, F, N)
  BY <1>2, <1>4
<1> HIDE DEF g
<1>6. PICK h : h = g
  OBVIOUS
<1>7. Coalesces(h, F, N) /\ N \in 0 .. N
  BY <1>0, <1>5, <1>6
<1> PICK G : G = h[N]
  OBVIOUS
<1>8. Grid(sc, top, G \cup A, N) /\ NoPairsUpTo(G, N)
  BY <1>0, <1>7, CoalescesSettle
<1>9. Kept(F, h[N], A, N)
  BY <1>0, <1>7, CoalescesKeeps
<1>10. \A b \in G : b.size \in Nat /\ b.size <= N
  <2>1. Tiling(G \cup A, N)
    BY <1>9 DEF Kept
  <2>2. \A b \in G : b \in Piece /\ b.offset + b.size <= N
    BY <2>1 DEF Tiling
  <2>3. \A b \in Piece : b.size \in Nat /\ b.offset \in Nat
    BY DEF Piece
  <2>4. \A b \in G : b.size \in Nat /\ b.offset \in Nat /\ b.offset + b.size <= N
    BY <2>2, <2>3
  <2> QED
    BY <1>0, <2>4
<1>11. Settled(G)
  BY <1>8, <1>10 DEF Settled, NoPairsUpTo
<1> QED
  BY <1>3, <1>6, <1>8, <1>11
-----------------------------------------------------------------------------
(* The sizes that halving the first region gives. *)
LEMMA SplitsMost ==
    ASSUME NEW b, b.size \in Nat, NEW want \in Nat, want <= b.size,
           NEW k \in 0 .. SizeBits, Halved(b.size)[k] >= want
    PROVE  k <= Splits(b, want)
<1> PICK h, T : h = Halved(b.size) /\ T = {i \in 0 .. SizeBits : h[i] >= want}
  OBVIOUS
<1>1. SizeBits \in Nat
  BY PoolAssumption DEF PoolAssumption
<1>2. T \in SUBSET (0 .. SizeBits) /\ T # {} /\ k \in T
  OBVIOUS
<1>3. \E m \in T : \A i \in T : i <= m
  BY <1>1, <1>2, GreatestOf
<1>4. \E m \in T : \A i \in T : m >= i
  BY <1>1, <1>2, <1>3
<1>5. Splits(b, want) = CHOOSE m \in T : \A i \in T : m >= i
  BY DEF Splits, Max
<1>6. Splits(b, want) \in T /\ \A i \in T : Splits(b, want) >= i
  BY <1>4, <1>5
<1> QED
  BY <1>1, <1>2, <1>6

LEMMA HalvesAreExact ==
    ASSUME NEW n \in Nat, Halvable(n), NEW h, NEW K \in Nat, Halves(h, n, K, MinBlock)
    PROVE  \A k \in 1 .. K : h[k - 1] = 2 * h[k]
<1>0. MinBlock \in Nat \ {0}
  BY PoolAssumption DEF PoolAssumption
<1>1. ASSUME NEW k \in 1 .. K, Halvable(h[k - 1])
      PROVE  h[k - 1] = 2 * h[k] /\ Halvable(h[k])
  <2> PICK g : g = h[k - 1]
    OBVIOUS
  <2>1. k - 1 \in 0 .. K /\ k \in 0 .. K
    OBVIOUS
  <2>2. g \in Nat /\ h[k] = g \div 2 /\ h[k] >= MinBlock /\ h[k] \in Nat
    BY <2>1 DEF Halves
  <2>3. g >= 2 * MinBlock
    BY <1>0, <2>2
  <2>4. g = 2 * (g \div 2) /\ Halvable(g \div 2)
    BY <1>1, <2>2, <2>3, HalfIsHalvable
  <2> QED
    BY <2>2, <2>4
<1> PICK T : T = {i \in 0 .. K : ~ Halvable(h[i])}
  OBVIOUS
<1>2. T \in SUBSET Nat /\ \A i : i \in T <=> i \in 0 .. K /\ ~ Halvable(h[i])
  OBVIOUS
<1>3. ASSUME T # {}
      PROVE  FALSE
  <2>1. PICK i \in T : \A l \in T : i <= l
    BY <1>2, <1>3, LeastOf
  <2>2. i \in 0 .. K /\ ~ Halvable(h[i])
    BY <1>2
  <2>3. i # 0
    BY <2>2 DEF Halves
  <2> PICK l : l = i - 1
    OBVIOUS
  <2>4. l \in 0 .. K /\ ~ (i <= l) /\ i \in 1 .. K
    BY <2>2, <2>3
  <2>5. Halvable(h[l])
    BY <1>2, <2>1, <2>4
  <2> QED
    BY <1>1, <2>2, <2>4, <2>5
<1>4. \A k \in 1 .. K : k - 1 \in 0 .. K
  OBVIOUS
<1> QED
  BY <1>1, <1>2, <1>3, <1>4

LEMMA BaseAtLeastMinBlock ==
    BaseSize \in Nat \ {0} /\ MinBlock \in Nat \ {0} /\ MinBlock <= BaseSize
<1>1. BaseSize \in Nat \ {0} /\ MinBlock \in Nat \ {0} /\ RoundUp(BaseSize) = BaseSize
  BY PoolAssumption DEF PoolAssumption
<1>2. BaseSize <= MinBlock => BaseSize = MinBlock
  BY <1>1 DEF RoundUp
<1> QED
  BY <1>1, <1>2

(* Halving ends before the bits of a size do. *)
Exhausted == Halved(BaseSize)[SizeBits] < 2 * MinBlock

(* The sizes the first region is halved to, as a scale. *)
IsScale(sc, top) ==
    /\ Doubles(sc, top) /\ sc[top] = BaseSize
    /\ \A k \in 0 .. SizeBits : Halved(BaseSize)[k] >= MinBlock =>
           \E j \in 0 .. top : Halved(BaseSize)[k] = sc[j]

LEMMA ScaleExists ==
    ASSUME Halvable(BaseSize), Exhausted
    PROVE  \E top \in Nat : \E sc : IsScale(sc, top)
<1> PICK n, b, h, K : /\ n = BaseSize /\ b = BaseBlock /\ h = Halved(n)
                      /\ K = Splits(b, MinBlock)
  OBVIOUS
<1>1. /\ n \in Nat \ {0} /\ MinBlock \in Nat \ {0} /\ MinBlock <= n /\ b.size = n
      /\ SizeBits \in Nat
  BY BaseAtLeastMinBlock, PoolAssumption DEF BaseBlock, PoolAssumption
<1>2. /\ h \in [0 .. SizeBits -> Nat] /\ h[0] = n
      /\ \A k \in 1 .. SizeBits : h[k] = h[k - 1] \div 2
  BY <1>1, HalvedUnfolds
<1>3. K \in 0 .. SizeBits /\ h[K] >= MinBlock /\ Halves(h, n, K, MinBlock)
  BY <1>1, SplitsFit, HalvesAreLong
<1>4. \A k \in 0 .. SizeBits : h[k] >= MinBlock => k <= K
  BY <1>1, SplitsMost
<1>5. K \in Nat /\ \A k \in 0 .. K : k \in 0 .. SizeBits
  BY <1>1, <1>3
<1>6. \A k \in 1 .. K : h[k - 1] = 2 * h[k]
  BY <1>1, <1>3, <1>5, HalvesAreExact
<1>7. h[K] < 2 * MinBlock
  <2>1. CASE K = SizeBits
    BY <2>1 DEF Exhausted
  <2>2. CASE K # SizeBits
    <3> PICK l : l = K + 1
      OBVIOUS
    <3>1. l \in 1 .. SizeBits /\ l \in 0 .. SizeBits /\ l - 1 = K /\ ~ (l <= K)
      BY <1>1, <1>3, <2>2
    <3>2. h[l] = h[K] \div 2 /\ h[l] \in Nat /\ h[K] \in Nat
      BY <1>2, <1>3, <3>1
    <3>3. ~ (h[l] >= MinBlock)
      BY <1>4, <3>1
    <3> QED
      BY <1>1, <3>2, <3>3
  <2> QED
    BY <2>1, <2>2
<1> PICK sc : sc = [j \in 0 .. K |-> h[K - j]]
  OBVIOUS
<1>8. \A j \in 0 .. K : K - j \in 0 .. K /\ K - (K - j) = j
  BY <1>5
<1>9. \A j \in 0 .. K : h[j] \in Nat \ {0}
  BY <1>1, <1>3 DEF Halves
<1>10. sc \in [0 .. K -> Nat \ {0}] /\ \A j \in 0 .. K : sc[j] = h[K - j]
  BY <1>8, <1>9
<1>11. ASSUME NEW k \in 1 .. K
       PROVE  sc[k] = 2 * sc[k - 1]
  <2> PICK i : i = K - k + 1
    OBVIOUS
  <2>1. i \in 1 .. K /\ i - 1 = K - k /\ i = K - (k - 1) /\ k \in 0 .. K /\ k - 1 \in 0 .. K
    BY <1>5
  <2>2. h[i - 1] = 2 * h[i]
    BY <1>6, <2>1
  <2> QED
    BY <1>10, <2>1, <2>2
<1>12. sc[0] = h[K] /\ sc[K] = h[0]
  BY <1>5, <1>10
<1>13. Doubles(sc, K)
  BY <1>7, <1>10, <1>11, <1>12 DEF Doubles
<1>14. ASSUME NEW k \in 0 .. SizeBits, h[k] >= MinBlock
       PROVE  \E j \in 0 .. K : h[k] = sc[j]
  <2>1. k \in 0 .. K
    BY <1>4, <1>5, <1>14
  <2>2. K - k \in 0 .. K /\ sc[K - k] = h[k]
    BY <1>8, <1>10, <2>1
  <2> QED
    BY <2>2
<1>15. IsScale(sc, K)
  BY <1>2, <1>12, <1>13, <1>14 DEF IsScale
<1> QED
  BY <1>5, <1>15

(* While there is one region, its blocks leave no gap and lie on the grid, *)
(* and no two free ones could be merged.                                   *)
SpaceInv(sc, top) ==
    /\ Len(regions) # 0
    /\ Len(regions) = 1 =>
           /\ totalBytes = BaseSize
           /\ Grid(sc, top, Blocks, totalBytes) /\ Settled(free)

LEMMA FreshSpace ==
    ASSUME NEW top \in Nat, NEW sc, IsScale(sc, top), Fresh
    PROVE  SpaceInv(sc, top)
<1> PICK x, n : x = BaseBlock /\ n = BaseSize
  OBVIOUS
<1>1. x.offset = 0 /\ x.size = n /\ n \in Nat \ {0}
  BY BaseAtLeastMinBlock DEF BaseBlock
<1>2. free = {x} /\ Blocks = {x} /\ totalBytes = n /\ Len(regions) # 0
  BY DEF Fresh, Blocks
<1>3. Gapless({x}, n)
  BY <1>1 DEF Gapless, Spans
<1>4. OnGrid(sc, top, x)
  <2>1. top \in 0 .. top /\ n = sc[top] /\ 0 = 0 * n
    BY <1>1 DEF IsScale
  <2> QED
    BY <1>1, <2>1 DEF OnGrid
<1>5. Settled({x})
  BY <1>1 DEF Settled, AreBuddies
<1> QED
  BY <1>2, <1>3, <1>4, <1>5 DEF SpaceInv, Grid

LEMMA FreshSpaceNext ==
    ASSUME NEW CONSTANT top \in Nat, NEW CONSTANT sc, IsScale(sc, top)
    PROVE  Fresh' => SpaceInv(sc, top)'
<1>1. Fresh => SpaceInv(sc, top)
  BY FreshSpace
<1> QED
  BY <1>1, PTL

LEMMA AllocateKeepsSpace ==
    ASSUME NEW top \in Nat, NEW sc, IsScale(sc, top), PoolInv, SpaceInv(sc, top),
           NEW t \in Threads, NEW bytes \in Requests, Allocate(t, bytes)
    PROVE  SpaceInv(sc, top)'
<1> PICK want : want = RoundUp(bytes)
  OBVIOUS
<1>1. want \in Nat /\ want >= MinBlock
  BY RequestRoundsUp
<1>2. PICK b \in BestFits(want) : Take(b, bytes)
  BY DEF Allocate
<1>3. b \in free /\ b.size >= want
  BY DEF BestFits
<1>4. /\ free' = (free \ {b}) \cup Buddies(b, want)
      /\ allocated' = allocated \cup {Left(b, want)}
      /\ UNCHANGED <<regions, poolSize, totalBytes>>
  BY <1>2 DEF Take
<1> SUFFICES ASSUME Len(regions) = 1
             PROVE  Grid(sc, top, Blocks', totalBytes) /\ Settled(free')
  BY <1>4 DEF SpaceInv
<1> PICK F, A, n : F = free /\ A = allocated /\ n = totalBytes
  OBVIOUS
<1>5. /\ n \in Nat /\ Tiling(F \cup A, n) /\ Grid(sc, top, F \cup A, n) /\ Settled(F) /\ b \in F
      /\ Doubles(sc, top)
  BY <1>3 DEF PoolInv, SpaceInv, Blocks, IsScale
<1>6. Grid(sc, top, AfterTake(F, A, b, want), n) /\ Settled(FreeAfter(F, b, want))
  BY <1>1, <1>3, <1>5, TakeKeepsGrid
<1>7. free' = FreeAfter(F, b, want) /\ Blocks' = AfterTake(F, A, b, want)
  BY <1>4 DEF FreeAfter, HeldAfter, AfterTake, Blocks
<1> QED
  BY <1>6, <1>7

LEMMA FreeKeepsSpace ==
    ASSUME NEW top \in Nat, NEW sc, IsScale(sc, top), PoolInv, SpaceInv(sc, top),
           NEW b \in allocated, Free(b)
    PROVE  SpaceInv(sc, top)'
<1> PICK F, A : F = free \cup {b} /\ A = allocated \ {b}
  OBVIOUS
<1>1. /\ free' = Coalesced(F) /\ allocated' = A
      /\ UNCHANGED <<regions, poolSize, totalBytes, caller>>
  BY DEF Free
<1> SUFFICES ASSUME Len(regions) = 1
             PROVE  Grid(sc, top, Blocks', totalBytes) /\ Settled(free')
  BY <1>1 DEF SpaceInv
<1>2. F \cap A = {} /\ F \cup A = Blocks
  BY DEF PoolInv, Blocks
<1>3. /\ Tiling(F \cup A, totalBytes) /\ Grid(sc, top, F \cup A, totalBytes)
      /\ Doubles(sc, top) /\ totalBytes = sc[top] /\ top \in 0 .. top
  <2>1. Tiling(Blocks, totalBytes)
    BY DEF PoolInv
  <2>2. totalBytes = BaseSize /\ Grid(sc, top, Blocks, totalBytes)
    BY DEF SpaceInv
  <2>3. Doubles(sc, top) /\ sc[top] = BaseSize /\ top \in 0 .. top
    BY DEF IsScale
  <2> QED
    BY <1>2, <2>1, <2>2, <2>3
<1>4. Grid(sc, top, Coalesced(F) \cup A, totalBytes) /\ Settled(Coalesced(F))
  BY <1>2, <1>3, CoalescedSettles
<1>5. Blocks' = Coalesced(F) \cup A
  BY <1>1 DEF Blocks
<1> QED
  BY <1>1, <1>4, <1>5

LEMMA SpaceStep ==
    ASSUME NEW CONSTANT top \in Nat, NEW CONSTANT sc, IsScale(sc, top),
           PoolInv, SpaceInv(sc, top), [PoolNext]_poolVars
    PROVE  SpaceInv(sc, top)'
<1>1. ASSUME NEW t \in Threads, NEW bytes \in Requests, Allocate(t, bytes)
      PROVE  SpaceInv(sc, top)'
  BY <1>1, AllocateKeepsSpace
<1>2. ASSUME UNCHANGED <<free, allocated, regions, poolSize, totalBytes, usedBytes>>
      PROVE  SpaceInv(sc, top)'
  BY <1>2 DEF SpaceInv, Blocks
<1>3. ASSUME NEW t \in Threads, NEW bytes \in Requests, MustExpand(t, bytes)
      PROVE  SpaceInv(sc, top)'
  BY <1>2, <1>3 DEF MustExpand
<1>4. ASSUME NEW t \in Threads, Expand(t)
      PROVE  SpaceInv(sc, top)'
  <2>1. PICK s : regions' = Append(regions, s)
    BY <1>4 DEF Expand
  <2>2. regions \in Seq(Nat) /\ Len(regions) # 0
    BY DEF PoolInv, SpaceInv
  <2>3. Len(regions') = Len(regions) + 1 /\ Len(regions) \in Nat
    BY <2>1, <2>2
  <2>4. Len(regions') # 0 /\ Len(regions') # 1
    BY <2>2, <2>3
  <2> QED
    BY <2>4 DEF SpaceInv
<1>5. ASSUME NEW t \in Threads, ExpandFails(t)
      PROVE  SpaceInv(sc, top)'
  BY <1>2, <1>5 DEF ExpandFails
<1>6. ASSUME NEW b \in allocated, Free(b)
      PROVE  SpaceInv(sc, top)'
  BY <1>6, FreeKeepsSpace
<1>7. CASE Reset
  <2>1. Fresh'
    BY <1>7 DEF Reset, Fresh
  <2> QED
    BY <2>1, FreshSpaceNext
<1>8. CASE UNCHANGED poolVars
  BY <1>2, <1>8 DEF poolVars
<1> QED
  BY <1>1, <1>3, <1>4, <1>5, <1>6, <1>7, <1>8 DEF PoolNext

LEMMA SpaceIsFound ==
    ASSUME NEW top \in Nat, NEW sc, IsScale(sc, top), PoolInv, SpaceInv(sc, top)
    PROVE  NoHiddenSpace
<1>0. SUFFICES ASSUME Len(regions) = 1,
                      NEW i \in 0 .. SizeBits, NEW want, want = Halved(BaseSize)[i],
                      want >= MinBlock, NEW start \in 0 .. BaseSize - want, start % want = 0,
                      \A b \in allocated :
                          b.offset + b.size <= start \/ start + want <= b.offset
               PROVE  \E b \in free : b.offset <= start /\ start + want <= b.offset + b.size
  BY DEF NoHiddenSpace
<1> PICK F, A, n : F = free /\ A = allocated /\ n = totalBytes
  OBVIOUS
<1>1. /\ n \in Nat /\ Tiling(F \cup A, n) /\ Grid(sc, top, F \cup A, n) /\ Settled(F)
      /\ Doubles(sc, top) /\ n = BaseSize
  BY <1>0 DEF PoolInv, SpaceInv, Blocks, IsScale
<1>2. PICK k \in 0 .. top : want = sc[k]
  BY <1>0 DEF IsScale
<1>3. want \in Nat \ {0}
  BY <1>1, <1>2 DEF Doubles
<1>4. start \in Nat /\ start + want <= n
  BY <1>1, <1>3
<1>5. PICK r \in Nat : start = r * want
  BY <1>0, <1>3, <1>4, MultipleIffNoRest
<1>6. \A b \in A : b.offset + b.size <= start \/ start + want <= b.offset
  BY <1>0
<1>7. \E b \in F : HoldsAll(b, start, want)
  <2>1. n \in Nat /\ Tiling(F \cup A, n) /\ Grid(sc, top, F \cup A, n) /\ Settled(F)
    BY <1>1
  <2>2. Doubles(sc, top) /\ want = sc[k] /\ start = r * want /\ start + want <= n
    BY <1>1, <1>2, <1>4, <1>5
  <2> QED
    BY <1>6, <2>1, <2>2, SpaceFound
<1> QED
  BY <1>7 DEF HoldsAll

(* Until the pool grows, no free space is hidden by fragmentation: where   *)
(* an aligned range has no allocated byte, whatever was allocated and      *)
(* freed before, one free block holds it, so that an allocation that fails *)
(* had no such range.  The first region must halve evenly, as the power of *)
(* two it is in the code does.                                             *)
THEOREM SpaceNeverHidden ==
    ASSUME Halvable(BaseSize), Exhausted
    PROVE  PoolSpec => []NoHiddenSpace
<1>1. PICK top \in Nat : \E sc : IsScale(sc, top)
  BY ScaleExists
<1>2. PICK sc : IsScale(sc, top)
  BY <1>1
<1>3. PoolInit => PoolInv /\ SpaceInv(sc, top)
  <2>1. PoolInit => Fresh
    BY DEF PoolInit, Fresh
  <2> QED
    BY <1>2, <2>1, PoolStart, FreshSpace
<1>4. PoolInv /\ SpaceInv(sc, top) /\ [PoolNext]_poolVars => PoolInv' /\ SpaceInv(sc, top)'
  BY <1>2, PoolStep, SpaceStep
<1>5. PoolInv /\ SpaceInv(sc, top) => NoHiddenSpace
  BY <1>2, SpaceIsFound
<1> QED
  BY <1>3, <1>4, <1>5, PTL DEF PoolSpec
==============================================================================
