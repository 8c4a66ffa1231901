--------------------------- MODULE BumpAllocProofs ---------------------------
(***************************************************************************)
(* The arena of a worker, for any number of threads and chunks: blocks in  *)
(* use never overlap, a chunk's count is the number of its blocks in use,  *)
(* and a chunk is erased only under blocks that were counted too late.     *)
(***************************************************************************)
EXTENDS BumpAlloc, FiniteSetTheorems, TLAPS

\* A nonempty set of naturals has a least element.
LEMMA LeastNatural ==
  ASSUME NEW T \in SUBSET Nat, T # {}
  PROVE  \E m \in T : \A n \in T : m <= n
<1> DEFINE R == OpToRel(<, Nat)
<1>1. IsWellFoundedOn(R, Nat)
  BY NatLessThanWellFounded
<1>2. \A x, y \in Nat : x < y => <<x, y>> \in R
  BY DEF OpToRel
<1> HIDE DEF R
<1>3. PICK m \in T : \A n \in T : ~ (<<n, m>> \in R)
  BY <1>1, WFMin
<1>4. \A n \in T : ~ (n < m)
  BY <1>2, <1>3
<1>5. \A n \in T : m <= n
  BY <1>4
<1> QED
  BY <1>5

\* Powers of two are the sizes of power sets, so they are positive and grow
\* beyond every number.
LEMMA PowerOfTwo ==
  ASSUME NEW n \in Nat
  PROVE  2^n \in Nat \ {0} /\ n <= 2^n
<1> DEFINE S == 1..n
           f == [i \in S |-> {i}]
<1>1. IsFiniteSet(S) /\ Cardinality(S) = n
  BY FS_Interval
<1>2. IsFiniteSet(SUBSET S) /\ Cardinality(SUBSET S) = 2^n
  BY <1>1, FS_SUBSET
<1>3. Cardinality(SUBSET S) \in Nat
  BY <1>2, FS_CardinalityType
<1>4. Cardinality(SUBSET S) # 0
  BY <1>2, FS_EmptySet
<1>5. f \in Injection(S, SUBSET S)
  <2>1. f \in [S -> SUBSET S]
    OBVIOUS
  <2>2. \A a, b \in S : f[a] = f[b] => a = b
    <3>1. \A a, b \in S : {a} = {b} => a = b
      OBVIOUS
    <3> QED
      BY <3>1
  <2> HIDE DEF f
  <2> QED
    BY <2>1, <2>2 DEF Injection, IsInjective
<1>6. Cardinality(S) <= Cardinality(SUBSET S)
  BY <1>2, <1>5, FS_Injection
<1> QED
  BY <1>1, <1>2, <1>3, <1>4, <1>6

\* roundup_to_poweroftwo never makes a size smaller, or zero.
LEMMA RoundUpPositive ==
  ASSUME NEW n \in Nat \ {0}
  PROVE  RoundUp(n) \in Nat \ {0} /\ n <= RoundUp(n)
<1> DEFINE E == {k \in 0..n : 2^k >= n}
<1>1. \A k \in 0..n : 2^k \in Nat \ {0}
  BY PowerOfTwo
<1>2. n \in E
  BY PowerOfTwo
<1>3. PICK m \in E : \A j \in E : m <= j
  <2>1. E \in SUBSET Nat /\ E # {}
    BY <1>2
  <2> HIDE DEF E
  <2> QED
    BY <2>1, LeastNatural
<1>4. \E k \in 0..n : 2^k >= n /\ \A j \in 0..n : 2^j >= n => k <= j
  BY <1>3
<1> DEFINE k == CHOOSE k \in 0..n : 2^k >= n /\ \A j \in 0..n : 2^j >= n => k <= j
<1>5. k \in 0..n /\ 2^k >= n
  BY <1>4
<1>6. RoundUp(n) = 2^k
  BY DEF RoundUp
<1> HIDE DEF k
<1> QED
  BY <1>1, <1>5, <1>6

-----------------------------------------------------------------------------
(***************************************************************************)
(* The inductive invariant.                                                *)
(***************************************************************************)

\* Types; iterators point at chunks that exist.  (The numeric bounds of TypeOK
\* come from the bound on the calls of allocate and are not needed.)
Types ==
  /\ ListTypeOK
  /\ next_addr \in [Chunk -> Int] /\ count \in [Chunk -> Int]
  /\ pc \in [Thread -> Pcs] /\ size \in [Thread -> Nat]
  /\ blk \in [Thread -> Block \union {NoBlock}]
  /\ it \in [Thread -> 0..head] /\ prev_it \in [Thread -> 0..head]
  /\ skip \in [Thread -> 0..head] /\ p \in [Thread -> 0..head]
  /\ blocks \subseteq Block /\ raced \subseteq Block

\* What a thread has in hand follows from where it is.
ThreadMatches(t) ==
  /\ pc[t] \in {"head", "take", "count", "grow"} => size[t] # 0
  /\ pc[t] \in {"take", "count", "dec", "full", "erase", "move"} => it[t] # NoChunk
  /\ pc[t] \in {"begin", "search", "dec", "full", "erase", "load", "test", "store",
               "move"} => prev_it[t] # NoChunk
  /\ pc[t] \in {"load", "test", "store"} => skip[t] # NoChunk
  /\ pc[t] \in {"count", "dec"} => blk[t].chunk = it[t]
  /\ pc[t] \in {"prev", "begin", "search", "dec", "move", "count"} => blk[t] # NoBlock
  /\ pc[t] \in {"idle", "head", "take", "grow", "full", "erase"} => blk[t] = NoBlock
  /\ pc[t] \in {"load", "test", "store"} /\ blk[t] # NoBlock => it[t] # NoChunk

ControlMatches == \A t \in Thread : ThreadMatches(t)

\* From chunk c back to d only deleted chunks (del) are left out.
SkipsDeleted(del, c, d) == d < c /\ \A e \in Chunk : d < e /\ e < c => del[e]

\* The list leads back over all chunks that are not deleted, and so does what
\* skip_deleted_prev is going to write into it.
ListOrdered ==
  /\ \A c \in Chunk : c <= head => SkipsDeleted(deleted, c, prev[c])
  /\ \A t \in Thread : pc[t] \in {"test", "store"} => SkipsDeleted(deleted, skip[t], p[t])

\* deallocate has not passed the chunk that it looks for, unless that is deleted.
Ahead(t) ==
  blk[t] # NoBlock =>
    /\ pc[t] = "search" => blk[t].chunk <= it[t] \/ deleted[blk[t].chunk]
    /\ pc[t] \in {"load", "test", "store", "move"} =>
         blk[t].chunk < it[t] \/ deleted[blk[t].chunk]

SearchAhead == \A t \in Thread : Ahead(t)

\* A block that belongs to the program or is on its way.
Live(b) == b \in blocks \/ \E t \in Thread : b = blk[t] /\ b # NoBlock

\* Blocks lie above the space that is left in their chunk.
Placed ==
  /\ \A c \in Chunk : next_addr[c] <= Usable
  /\ \A b \in Block : Live(b) =>
       next_addr[b.chunk] <= b.ptr /\ b.ptr + b.len <= Usable /\ b.chunk <= head

Disjoint == \A a, b \in Block : Live(a) /\ Live(b) /\ a # b => ~ Overlap(a, b)

\* A block is in use or in the hands of one thread.
OwnedOnce ==
  \A t \in Thread : blk[t] # NoBlock =>
    blk[t] \notin blocks /\ \A u \in Thread : u # t => blk[u] # blk[t]

UsedOf(c) == {b \in Used : b.chunk = c}

Counted ==
  /\ IsFiniteSet(Used)
  /\ \A c \in Chunk : ~ deleted[c] => count[c] = Cardinality(UsedOf(c))

\* Once a chunk is found empty, blocks get into use in it only too late.
ErasedLate ==
  \A c \in Chunk : deleted[c] \/ Emptying(c) => UsedOf(c) \subseteq raced

\* A chunk is erased when it is full.
ErasedFull ==
  \A c \in Chunk : deleted[c] \/ (\E t \in Thread : pc[t] = "erase" /\ it[t] = c) =>
    next_addr[c] <= 0

IInv ==
  /\ Types /\ ControlMatches /\ ListOrdered /\ SearchAhead
  /\ Placed /\ Disjoint /\ OwnedOnce /\ Counted /\ ErasedLate /\ ErasedFull

\* Constants, unfolded: capacities are numbers and the null block is no block.
LEMMA Constants ==
  /\ MaxChunk \in Nat \ {0}
  /\ ChunkCapacity \in Nat /\ Usable \in Nat
  /\ NoChunk = 0 /\ NoChunk \notin Chunk
  /\ NoBlock \notin Block
  /\ \A b \in Block : b.chunk \in Chunk /\ b.ptr \in 0..Usable /\ b.len \in 1..Usable
<1>1. /\ MaxChunk \in Nat \ {0} /\ ChunkCapacity \in Nat /\ Usable \in Nat
      /\ NoChunk = 0 /\ NoChunk \notin Chunk
  BY BumpAssumption, AtomicListAssumption
     DEF BumpAssumption, AtomicListAssumption, Usable, NoChunk, Chunk
<1>2. NoBlock.chunk = NoChunk
  BY DEF NoBlock
<1>3. \A b \in Block : b.chunk \in Chunk /\ b.ptr \in 0..Usable /\ b.len \in 1..Usable
  BY DEF Block
<1> QED
  BY <1>1, <1>2, <1>3

\* Chunks are numbered from one, and zero stands for none.
LEMMA ChunkIsNat == \A c \in Chunk \union {NoChunk} : c \in Nat
BY Constants DEF Chunk

\* At the start there is no chunk and no block.
LEMMA InitIInv == Init => IInv
<1> SUFFICES ASSUME Init PROVE IInv
  OBVIOUS
<1> USE DEF Init
<1>1. Types
  BY Constants DEF Types, ListTypeOK, Pcs, NoChunk
<1>2. ControlMatches
  BY DEF ControlMatches, ThreadMatches
<1>3. ListOrdered
  BY Constants DEF ListOrdered, Chunk
<1>4. SearchAhead
  BY DEF SearchAhead, Ahead
<1>5. Used = {}
  BY DEF Used, Returning
<1>6. Placed /\ Disjoint /\ OwnedOnce
  BY Constants DEF Placed, Disjoint, OwnedOnce, Live
<1>7. Counted
  <2>1. \A c \in Chunk : UsedOf(c) = {}
    BY <1>5 DEF UsedOf
  <2> QED
    BY <1>5, <2>1, FS_EmptySet DEF Counted
<1>8. ErasedLate /\ ErasedFull
  BY <1>5 DEF ErasedLate, Emptying, UsedOf, ErasedFull
<1> QED
  BY <1>1, <1>2, <1>3, <1>4, <1>6, <1>7, <1>8 DEF IInv

-----------------------------------------------------------------------------
\* A step of t changes nothing that another thread has for itself.
LEMMA ThreadFrame ==
  ASSUME Types, NEW t \in Thread, Begin(t) \/ ThreadStep(t)
  PROVE  \A u \in Thread : u # t =>
           /\ pc'[u] = pc[u] /\ size'[u] = size[u] /\ blk'[u] = blk[u]
           /\ it'[u] = it[u] /\ prev_it'[u] = prev_it[u]
           /\ skip'[u] = skip[u] /\ p'[u] = p[u]
<1> USE DEF Types, Goto, EndDeallocate
<1>1. ASSUME NEW n \in Sizes, BeginAllocate(t, n)
      PROVE  \A u \in Thread : u # t =>
               /\ pc'[u] = pc[u] /\ size'[u] = size[u] /\ blk'[u] = blk[u]
               /\ it'[u] = it[u] /\ prev_it'[u] = prev_it[u]
               /\ skip'[u] = skip[u] /\ p'[u] = p[u]
  BY <1>1 DEF BeginAllocate
<1>2. ASSUME NEW b \in blocks, BeginDeallocate(t, b)
      PROVE  \A u \in Thread : u # t =>
               /\ pc'[u] = pc[u] /\ size'[u] = size[u] /\ blk'[u] = blk[u]
               /\ it'[u] = it[u] /\ prev_it'[u] = prev_it[u]
               /\ skip'[u] = skip[u] /\ p'[u] = p[u]
  BY <1>2 DEF BeginDeallocate
<1>3. CASE LoadHead(t) \/ TakeSpace(t) \/ CountBlock(t) \/ AllocateItem(t)
  BY <1>3 DEF LoadHead, TakeSpace, CountBlock, AllocateItem
<1>4. CASE LoadPrev(t) \/ LoadBegin(t) \/ Search(t)
  BY <1>4 DEF LoadPrev, LoadBegin, Search
<1>5. CASE Decrement(t) \/ TestFull(t) \/ Erase(t)
  BY <1>5 DEF Decrement, TestFull, Erase
<1>6. CASE SkipLoad(t) \/ SkipTest(t)
  BY <1>6 DEF SkipLoad, SkipTest
<1>7. CASE SkipStore(t) \/ Move(t)
  BY <1>7 DEF SkipStore, Move
<1> QED
  BY <1>1, <1>2, <1>3, <1>4, <1>5, <1>6, <1>7 DEF Begin, ThreadStep

\* The list leads from newer to older chunks.
LEMMA PrevBefore ==
  ASSUME Types, ListOrdered
  PROVE  \A c \in Chunk : c <= head => prev[c] \in 0..head /\ prev[c] < c
<1> SUFFICES ASSUME NEW c \in Chunk, c <= head
             PROVE  prev[c] \in 0..head /\ prev[c] < c
  OBVIOUS
<1>1. prev[c] < c
  BY DEF ListOrdered, SkipsDeleted
<1>2. prev[c] \in Chunk \union {NoChunk} /\ head \in Chunk \union {NoChunk}
  BY DEF Types, ListTypeOK
<1>3. prev[c] \in Nat /\ c \in Nat /\ head \in Nat
  BY <1>2, Constants DEF Chunk
<1> QED
  BY <1>1, <1>3

\* Every step keeps the types.
LEMMA TypeStep ==
  ASSUME Types, ControlMatches, ListOrdered, Placed,
         NEW t \in Thread, Begin(t) \/ ThreadStep(t)
  PROVE  Types'
<1> USE Constants DEF Types, ListTypeOK, Goto, EndDeallocate, listVars
<1>0. /\ head \in Nat /\ (head = NoChunk \/ head \in Chunk)
      /\ \A i \in 0..head : i # NoChunk => i \in Chunk
      /\ \A c \in Chunk : c <= head => prev[c] \in Chunk \union {NoChunk}
      /\ 0 \in 0..head /\ head \in 0..head
  BY SMTT(60) DEF Chunk
<1>pc. pc' \in [Thread -> Pcs]
  <2> USE DEF Pcs
  <2>1. ASSUME NEW n \in Sizes, BeginAllocate(t, n) PROVE pc' \in [Thread -> Pcs]
    BY <2>1 DEF BeginAllocate
  <2>2. ASSUME NEW b \in blocks, BeginDeallocate(t, b) PROVE pc' \in [Thread -> Pcs]
    BY <2>2 DEF BeginDeallocate
  <2>3. CASE LoadHead(t) \/ TakeSpace(t) \/ CountBlock(t) \/ AllocateItem(t)
    BY <2>3 DEF LoadHead, TakeSpace, CountBlock, AllocateItem
  <2>4. CASE LoadPrev(t) \/ LoadBegin(t) \/ Search(t)
    BY <2>4 DEF LoadPrev, LoadBegin, Search
  <2>5. CASE Decrement(t) \/ TestFull(t) \/ Erase(t)
    BY <2>5 DEF Decrement, TestFull, Erase
  <2>6. CASE SkipLoad(t) \/ SkipTest(t) \/ SkipStore(t) \/ Move(t)
    BY <2>6 DEF SkipLoad, SkipTest, SkipStore, Move
  <2> QED
    BY <2>1, <2>2, <2>3, <2>4, <2>5, <2>6 DEF Begin, ThreadStep
<1>1. ASSUME NEW n \in Sizes, BeginAllocate(t, n) PROVE Types'
  <2>1. RoundUp(n) \in Nat
    BY RoundUpPositive, BumpAssumption DEF BumpAssumption
  <2>2. size' \in [Thread -> Nat]
    BY <1>1, <2>1 DEF BeginAllocate
  <2> QED
    BY <1>1, <1>pc, <2>2 DEF BeginAllocate
<1>2. ASSUME NEW b \in blocks, BeginDeallocate(t, b) PROVE Types'
  BY <1>2, <1>pc DEF BeginDeallocate
<1>3. CASE LoadHead(t)
  BY <1>3, <1>pc, <1>0 DEF LoadHead
<1>4. CASE TakeSpace(t)
  <2> DEFINE c == it[t]
             addr == next_addr[c] - size[t]
  <2>1. c \in Chunk /\ size[t] \in Nat /\ size[t] # 0 /\ next_addr[c] \in Int
    BY <1>4, <1>0 DEF TakeSpace, ControlMatches, ThreadMatches
  <2>2. next_addr' \in [Chunk -> Int]
    BY <1>4, <2>1 DEF TakeSpace
  <2>3. addr >= 0 => [chunk |-> c, ptr |-> addr, len |-> size[t]] \in Block
    BY <2>1 DEF Block, Placed
  <2>4. blk' \in [Thread -> Block \union {NoBlock}]
    BY <1>4, <2>3 DEF TakeSpace
  <2> QED
    BY <1>4, <1>pc, <2>2, <2>4 DEF TakeSpace
<1>5. CASE CountBlock(t)
  <2>1. it[t] \in Chunk /\ blk[t] \in Block
    BY <1>5, <1>0 DEF CountBlock, ControlMatches, ThreadMatches
  <2>2. count' \in [Chunk -> Int]
    BY <1>5, <2>1 DEF CountBlock
  <2>3. blocks' \subseteq Block /\ raced' \subseteq Block
    BY <1>5, <2>1 DEF CountBlock
  <2>4. /\ size' \in [Thread -> Nat] /\ it' \in [Thread -> 0..head]
        /\ blk' \in [Thread -> Block \union {NoBlock}]
    BY <1>5, <1>0 DEF CountBlock
  <2> QED
    BY <1>5, <1>pc, <2>2, <2>3, <2>4 DEF CountBlock
<1>6. CASE AllocateItem(t)
  <2>1. /\ head' = head + 1 /\ head' \in Chunk
        /\ prev' = [prev EXCEPT ![head'] = head] /\ UNCHANGED deleted
    BY <1>6 DEF AllocateItem, AppendItem, NewChunk
  <2>2. \A f : f \in [Thread -> 0..head] => f \in [Thread -> 0..head']
    BY <1>0, <2>1
  <2>3. prev' \in [Chunk -> Chunk \union {NoChunk}]
    BY <1>0, <2>1
  <2>4. it' \in [Thread -> 0..head]
    BY <1>6, <1>0 DEF AllocateItem
  <2> QED
    BY <1>6, <1>pc, <2>1, <2>2, <2>3, <2>4 DEF AllocateItem
<1>7. CASE LoadPrev(t) \/ LoadBegin(t)
  BY <1>7, <1>pc, <1>0 DEF LoadPrev, LoadBegin
<1>8. CASE Search(t)
  BY SMTT(60), <1>8, <1>pc, <1>0 DEF Search
<1>9. CASE Decrement(t)
  <2>1. it[t] \in Chunk
    BY <1>9, <1>0 DEF Decrement, ControlMatches, ThreadMatches
  <2>2. count' \in [Chunk -> Int]
    BY <1>9, <2>1 DEF Decrement
  <2>3. /\ blk' \in [Thread -> Block \union {NoBlock}]
        /\ it' \in [Thread -> 0..head] /\ prev_it' \in [Thread -> 0..head]
        /\ skip' \in [Thread -> 0..head] /\ p' \in [Thread -> 0..head]
    BY SMTT(60), <1>9, <1>0 DEF Decrement
  <2> QED
    BY <1>9, <1>pc, <2>2, <2>3 DEF Decrement
<1>10. CASE TestFull(t)
  BY SMTT(60), <1>10, <1>pc, <1>0 DEF TestFull
<1>11. CASE Erase(t)
  BY <1>11, <1>pc, <1>0 DEF Erase
<1>12. \A c \in Chunk : c <= head => prev[c] \in 0..head
  BY PrevBefore
<1>13. CASE SkipLoad(t)
  <2>1. skip[t] \in Chunk /\ skip[t] <= head
    BY <1>13, <1>0 DEF SkipLoad, ControlMatches, ThreadMatches
  <2> QED
    BY <1>13, <1>pc, <1>12, <2>1 DEF SkipLoad
<1>14. CASE SkipTest(t)
  <2>1. IsDeleted(p[t]) => p[t] \in Chunk /\ p[t] <= head
    BY <1>14, <1>0 DEF IsDeleted
  <2> QED
    BY <1>14, <1>pc, <1>12, <2>1 DEF SkipTest
<1>15. CASE SkipStore(t)
  <2>1. p[t] \in Chunk \union {NoChunk}
    BY <1>0
  <2>2. prev' \in [Chunk -> Chunk \union {NoChunk}]
    BY <1>15, <2>1 DEF SkipStore
  <2> QED
    BY SMTT(60), <1>15, <1>pc, <1>0, <2>2 DEF SkipStore
<1>16. CASE Move(t)
  <2>1. it[t] \in Chunk /\ it[t] <= head
    BY <1>16, <1>0 DEF Move, ControlMatches, ThreadMatches
  <2> QED
    BY <1>16, <1>pc, <1>0, <1>12, <2>1 DEF Move
<1> QED
  BY <1>1, <1>2, <1>3, <1>4, <1>5, <1>6, <1>7, <1>8, <1>9, <1>10, <1>11, <1>13,
     <1>14, <1>15, <1>16 DEF Begin, ThreadStep

\* Where a thread is keeps matching what it has in hand.
LEMMA ControlStep ==
  ASSUME Types, ControlMatches, Placed, NEW t \in Thread, Begin(t) \/ ThreadStep(t)
  PROVE  ControlMatches'
<1>1. ThreadMatches(t) /\ pc[t] \in Pcs
  BY DEF ControlMatches, Types
<1>2. ThreadMatches(t)'
  <2> USE Constants DEF Types, Goto, EndDeallocate, ThreadMatches
  <2>1. ASSUME NEW n \in Sizes, BeginAllocate(t, n) PROVE ThreadMatches(t)'
    <3>1. RoundUp(n) # 0
      BY RoundUpPositive, BumpAssumption DEF BumpAssumption
    <3> QED
      BY <1>1, <2>1, <3>1 DEF BeginAllocate
  <2>2. ASSUME NEW b \in blocks, BeginDeallocate(t, b) PROVE ThreadMatches(t)'
    BY <1>1, <2>2 DEF BeginDeallocate
  <2>3. CASE LoadHead(t)
    BY <1>1, <2>3 DEF LoadHead
  <2>4. CASE TakeSpace(t)
    <3>1. it[t] \in Chunk
      BY SMTT(60), <1>1, <2>4 DEF TakeSpace, ListTypeOK, Chunk
    <3>2. CASE next_addr[it[t]] - size[t] >= 0
      <4>1. /\ pc' = [pc EXCEPT ![t] = "count"]
            /\ blk' = [blk EXCEPT ![t] =
                 [chunk |-> it[t], ptr |-> next_addr[it[t]] - size[t], len |-> size[t]]]
            /\ UNCHANGED <<it, size>>
        BY <2>4, <3>2 DEF TakeSpace
      <4>2. pc'[t] = "count" /\ blk'[t].chunk = it[t]
        BY <4>1
      <4>3. blk'[t] # NoBlock
        BY <3>1, <4>2 DEF NoBlock
      <4> QED
        BY <1>1, <2>4, <4>1, <4>2, <4>3 DEF TakeSpace
    <3>3. CASE ~ (next_addr[it[t]] - size[t] >= 0)
      BY <1>1, <2>4, <3>3 DEF TakeSpace
    <3> QED
      BY <3>2, <3>3
  <2>5. CASE CountBlock(t) \/ AllocateItem(t)
    BY <1>1, <2>5 DEF CountBlock, AllocateItem
  <2>6. CASE LoadPrev(t)
    <3>1. blk[t] \in Block /\ Live(blk[t])
      BY <1>1, <2>6 DEF LoadPrev, Live
    <3>2. blk[t].chunk \in Chunk /\ blk[t].chunk <= head
      BY <3>1 DEF Placed
    <3>3. head # NoChunk
      BY SMTT(60), <3>2 DEF Chunk
    <3> QED
      BY <1>1, <2>6, <3>3 DEF LoadPrev
  <2>7. CASE LoadBegin(t)
    BY <1>1, <2>7 DEF LoadBegin
  <2>8. CASE Search(t)
    BY <1>1, <2>8 DEF Search, Owns
  <2>9. CASE Decrement(t)
    BY <1>1, <2>9 DEF Decrement
  <2>10. CASE TestFull(t)
    BY <1>1, <2>10 DEF TestFull
  <2>11. CASE Erase(t)
    BY <1>1, <2>11 DEF Erase
  <2>12. CASE SkipLoad(t) \/ SkipTest(t)
    BY <1>1, <2>12 DEF SkipLoad, SkipTest
  <2>13. CASE SkipStore(t)
    BY <1>1, <2>13 DEF SkipStore
  <2>14. CASE Move(t)
    BY <1>1, <2>14 DEF Move
  <2> QED
    BY <2>1, <2>2, <2>3, <2>4, <2>5, <2>6, <2>7, <2>8, <2>9, <2>10, <2>11, <2>12,
       <2>13, <2>14 DEF Begin, ThreadStep
<1> QED
  BY <1>2, ThreadFrame DEF ControlMatches, ThreadMatches

\* deleted is never reset, chunks are only added, next_addr only moves down.
LEMMA Monotone ==
  ASSUME Types, ControlMatches, NEW t \in Thread, Begin(t) \/ ThreadStep(t)
  PROVE  /\ \A c \in Chunk : deleted[c] => deleted'[c]
         /\ head' = head \/ head' = head + 1
         /\ \A c \in Chunk : next_addr'[c] <= next_addr[c]
<1> USE Constants DEF Types, ListTypeOK, listVars
<1>1. CASE TakeSpace(t)
  <2>1. it[t] \in Chunk /\ size[t] \in Nat
    BY SMTT(60), <1>1 DEF TakeSpace, Goto, ControlMatches, ThreadMatches, Chunk
  <2>2. next_addr' = [next_addr EXCEPT ![it[t]] = next_addr[it[t]] - size[t]]
    BY <1>1 DEF TakeSpace
  <2>3. \A c \in Chunk : next_addr'[c] <= next_addr[c]
    BY <2>1, <2>2
  <2> QED
    BY <1>1, <2>3 DEF TakeSpace
<1>2. CASE AllocateItem(t)
  BY <1>2 DEF AllocateItem, AppendItem, NewChunk
<1>3. CASE Erase(t)
  BY <1>3 DEF Erase
<1>4. CASE ~ (TakeSpace(t) \/ AllocateItem(t) \/ Erase(t))
  <2>1. UNCHANGED <<head, deleted, next_addr>>
    BY <1>4 DEF Begin, BeginAllocate, BeginDeallocate, ThreadStep, LoadHead, CountBlock,
       LoadPrev, LoadBegin, Search, Decrement, TestFull, SkipLoad, SkipTest, SkipStore, Move
  <2> QED
    BY <2>1
<1> QED
  BY <1>1, <1>2, <1>3, <1>4

\* No step makes the list, or what is going to be written into it, pass a
\* chunk that is not deleted.
LEMMA ListStep ==
  ASSUME Types, ControlMatches, ListOrdered, NEW t \in Thread, Begin(t) \/ ThreadStep(t)
  PROVE  ListOrdered'
<1> USE Constants DEF Types, ListTypeOK, Goto, listVars
<1>1. \A c, d : SkipsDeleted(deleted, c, d) => SkipsDeleted(deleted', c, d)
  BY Monotone DEF SkipsDeleted
<1>2. \A u \in Thread : u # t => /\ pc'[u] = pc[u] /\ skip'[u] = skip[u] /\ p'[u] = p[u]
  BY ThreadFrame
<1>3. ASSUME \A c \in Chunk : c <= head' => SkipsDeleted(deleted', c, prev'[c]),
             pc'[t] \in {"test", "store"} => SkipsDeleted(deleted', skip'[t], p'[t])
      PROVE  ListOrdered'
  BY <1>1, <1>2, <1>3 DEF ListOrdered
<1>4. ASSUME prev' = prev, head' = head
      PROVE  \A c \in Chunk : c <= head' => SkipsDeleted(deleted', c, prev'[c])
  BY <1>1, <1>4 DEF ListOrdered
<1>5. skip[t] # NoChunk => skip[t] \in Chunk /\ skip[t] <= head
  BY SMTT(60) DEF Chunk
<1>6. CASE AllocateItem(t)
  <2>1. /\ head' = head + 1 /\ head' \in Chunk
        /\ prev' = [prev EXCEPT ![head'] = head] /\ deleted' = deleted
    BY <1>6 DEF AllocateItem, AppendItem, NewChunk
  <2>2. \A c \in Chunk : c <= head' => SkipsDeleted(deleted', c, prev'[c])
    <3> SUFFICES ASSUME NEW c \in Chunk, c <= head' PROVE SkipsDeleted(deleted', c, prev'[c])
      OBVIOUS
    <3>1. CASE c = head'
      <4>1. prev'[c] = head
        BY <2>1, <3>1
      <4> QED
        BY <2>1, <3>1, <4>1 DEF SkipsDeleted, Chunk
    <3>2. CASE c # head'
      <4>1. c <= head /\ prev'[c] = prev[c]
        BY <2>1, <3>2 DEF Chunk
      <4> QED
        BY <1>1, <4>1 DEF ListOrdered
    <3> QED
      BY <3>1, <3>2
  <2>3. pc'[t] = "head"
    BY <1>6 DEF AllocateItem
  <2> QED
    BY <1>3, <2>2, <2>3
<1>7. CASE SkipLoad(t)
  <2>1. skip[t] \in Chunk /\ skip[t] <= head
    BY <1>5, <1>7 DEF SkipLoad, ControlMatches, ThreadMatches
  <2>2. prev' = prev /\ head' = head /\ skip'[t] = skip[t] /\ p'[t] = prev[skip[t]]
    BY <1>7 DEF SkipLoad
  <2>3. SkipsDeleted(deleted', skip'[t], p'[t])
    BY <1>1, <2>1, <2>2 DEF ListOrdered
  <2> QED
    BY <1>3, <1>4, <2>2, <2>3
<1>8. CASE SkipTest(t)
  <2>1. /\ prev' = prev /\ head' = head /\ skip'[t] = skip[t] /\ deleted' = deleted
        /\ SkipsDeleted(deleted, skip[t], p[t])
    BY <1>8 DEF SkipTest, ListOrdered
  <2>2. CASE IsDeleted(p[t])
    <3>1. p[t] \in Chunk /\ p[t] <= head /\ deleted[p[t]] /\ p'[t] = prev[p[t]]
      BY SMTT(60), <1>8, <2>2 DEF SkipTest, IsDeleted, Chunk
    <3>2. SkipsDeleted(deleted, p[t], prev[p[t]])
      BY <3>1 DEF ListOrdered
    <3>3. prev[p[t]] \in Nat /\ p[t] \in Nat /\ skip[t] \in Nat
      BY SMTT(60), <3>1 DEF Chunk
    <3>4. SkipsDeleted(deleted, skip[t], prev[p[t]])
      BY SMTT(60), <2>1, <3>1, <3>2, <3>3 DEF SkipsDeleted, Chunk
    <3> QED
      BY <1>1, <1>3, <1>4, <2>1, <3>1, <3>4
  <2>3. CASE ~ IsDeleted(p[t])
    BY <1>1, <1>3, <1>4, <1>8, <2>1, <2>3 DEF SkipTest
  <2> QED
    BY <2>2, <2>3
<1>9. CASE SkipStore(t)
  <2>1. /\ prev' = [prev EXCEPT ![skip[t]] = p[t]] /\ head' = head /\ deleted' = deleted
        /\ SkipsDeleted(deleted, skip[t], p[t])
        /\ pc'[t] \notin {"test", "store"}
    BY <1>9 DEF SkipStore, EndDeallocate, ListOrdered
  <2>2. \A c \in Chunk : c <= head' => SkipsDeleted(deleted', c, prev'[c])
    BY <1>1, <2>1 DEF ListOrdered
  <2> QED
    BY <1>3, <2>1, <2>2
<1>10. CASE ~ (AllocateItem(t) \/ SkipLoad(t) \/ SkipTest(t) \/ SkipStore(t))
  <2>1. prev' = prev /\ head' = head /\ pc'[t] \notin {"test", "store"}
    <3>1. ASSUME NEW n \in Sizes, BeginAllocate(t, n)
          PROVE  prev' = prev /\ head' = head /\ pc'[t] \notin {"test", "store"}
      BY <3>1 DEF BeginAllocate
    <3>2. ASSUME NEW b \in blocks, BeginDeallocate(t, b)
          PROVE  prev' = prev /\ head' = head /\ pc'[t] \notin {"test", "store"}
      BY <3>2 DEF BeginDeallocate
    <3>3. CASE LoadHead(t) \/ TakeSpace(t) \/ CountBlock(t) \/ LoadPrev(t) \/ LoadBegin(t)
      BY <3>3 DEF LoadHead, TakeSpace, CountBlock, LoadPrev, LoadBegin
    <3>4. CASE Search(t) \/ Decrement(t) \/ TestFull(t)
      BY <3>4 DEF Search, Decrement, TestFull, EndDeallocate
    <3>5. CASE Erase(t) \/ Move(t)
      BY <3>5 DEF Erase, Move
    <3> QED
      BY <1>10, <3>1, <3>2, <3>3, <3>4, <3>5 DEF Begin, ThreadStep
  <2> QED
    BY <1>3, <1>4, <2>1
<1> QED
  BY <1>6, <1>7, <1>8, <1>9, <1>10

\* deallocate passes only deleted chunks.
LEMMA SearchStep ==
  ASSUME Types, ControlMatches, ListOrdered, SearchAhead, Placed,
         NEW t \in Thread, Begin(t) \/ ThreadStep(t)
  PROVE  SearchAhead'
<1> USE Constants DEF Types, ListTypeOK, Goto, EndDeallocate, listVars
<1>1. \A u \in Thread : u # t => Ahead(u)'
  <2> SUFFICES ASSUME NEW u \in Thread, u # t PROVE Ahead(u)'
    OBVIOUS
  <2>1. pc'[u] = pc[u] /\ blk'[u] = blk[u] /\ it'[u] = it[u]
    BY ThreadFrame
  <2>2. blk[u] # NoBlock => blk[u].chunk \in Chunk
    OBVIOUS
  <2>3. Ahead(u)
    BY DEF SearchAhead
  <2> QED
    BY <2>1, <2>2, <2>3, Monotone DEF Ahead
<1>2. Ahead(t) /\ ThreadMatches(t) /\ (blk[t] # NoBlock => blk[t] \in Block /\ blk[t].chunk \in Chunk)
  BY DEF SearchAhead, ControlMatches
<1>3. Ahead(t)'
  <2>1. ASSUME NEW n \in Sizes, BeginAllocate(t, n) PROVE Ahead(t)'
    BY <2>1 DEF BeginAllocate, Ahead
  <2>2. ASSUME NEW b \in blocks, BeginDeallocate(t, b) PROVE Ahead(t)'
    BY <2>2 DEF BeginDeallocate, Ahead
  <2>3. CASE LoadHead(t) \/ TakeSpace(t) \/ CountBlock(t) \/ AllocateItem(t) \/ LoadPrev(t)
    BY <2>3 DEF LoadHead, TakeSpace, CountBlock, AllocateItem, LoadPrev, Ahead
  <2>4. CASE LoadBegin(t)
    <3>1. blk[t] \in Block /\ Live(blk[t])
      BY <1>2, <2>4 DEF LoadBegin, Live, ThreadMatches
    <3>2. blk[t].chunk <= head
      BY <3>1 DEF Placed
    <3> QED
      BY <2>4, <3>2 DEF LoadBegin, Ahead
  <2>5. CASE Search(t)
    <3>1. CASE it[t] # NoChunk /\ ~ Owns(it[t], blk[t])
      <4>1. blk[t] \in Block /\ blk[t].chunk \in Nat /\ it[t] \in Nat
        BY SMTT(60), <1>2, <2>5 DEF Search, ThreadMatches, Chunk
      <4>2. blk[t].chunk < it[t] \/ deleted[blk[t].chunk]
        BY SMTT(60), <1>2, <2>5, <3>1, <4>1 DEF Search, Owns, Ahead
      <4>3. deleted' = deleted /\ blk' = blk /\ it' = it /\ pc'[t] = "load"
        BY <2>5, <3>1 DEF Search
      <4> QED
        BY <4>2, <4>3 DEF Ahead
    <3>2. CASE it[t] = NoChunk \/ Owns(it[t], blk[t])
      BY <2>5, <3>2 DEF Search, Ahead
    <3> QED
      BY <3>1, <3>2
  <2>6. CASE Decrement(t) \/ TestFull(t)
    BY <2>6 DEF Decrement, TestFull, Ahead
  <2>7. CASE Erase(t)
    BY <1>2, <2>7 DEF Erase, Ahead, ThreadMatches
  <2>8. CASE SkipLoad(t) \/ SkipTest(t)
    BY <1>2, <2>8 DEF SkipLoad, SkipTest, Ahead
  <2>9. CASE SkipStore(t)
    BY <1>2, <2>9 DEF SkipStore, Ahead
  <2>10. CASE Move(t)
    <3> DEFINE c == blk[t].chunk
               d == it[t]
    <3>1. d \in Chunk /\ d <= head /\ c \in Chunk
      BY SMTT(60), <1>2, <2>10 DEF Move, ThreadMatches, Chunk
    <3>2. c < d \/ deleted[c]
      BY <1>2, <2>10 DEF Move, Ahead, ThreadMatches
    <3>3. SkipsDeleted(deleted, d, prev[d])
      BY <3>1 DEF ListOrdered
    <3>4. c \in Nat /\ prev[d] \in Nat
      <4>1. prev[d] \in Chunk \union {NoChunk}
        BY <3>1
      <4> QED
        BY <3>1, <4>1, ChunkIsNat
    <3>5. c <= prev[d] \/ deleted[c]
      BY <3>1, <3>2, <3>3, <3>4 DEF SkipsDeleted
    <3>6. deleted' = deleted /\ blk' = blk /\ it'[t] = prev[d] /\ pc'[t] = "search"
      BY <2>10 DEF Move
    <3> QED
      BY <3>5, <3>6 DEF Ahead
  <2> QED
    BY <2>1, <2>2, <2>3, <2>4, <2>5, <2>6, <2>7, <2>8, <2>9, <2>10 DEF Begin, ThreadStep
<1> QED
  BY <1>1, <1>3 DEF SearchAhead

-----------------------------------------------------------------------------
\* Where no block comes into being, blocks stay placed and disjoint.
LEMMA LiveKept ==
  ASSUME Types, ControlMatches, Placed, Disjoint, NEW t \in Thread, Begin(t) \/ ThreadStep(t),
         Types', \A b \in Block : Live(b)' => Live(b)
  PROVE  Placed' /\ Disjoint'
<1>1. Disjoint'
  BY DEF Disjoint
<1>2. \A c \in Chunk : next_addr'[c] <= next_addr[c] /\ next_addr[c] <= Usable
                       /\ next_addr'[c] \in Int /\ next_addr[c] \in Int
  BY Monotone DEF Placed, Types
<1>3. head \in Nat /\ head <= head'
  <2>1. head \in Nat
    BY ChunkIsNat DEF Types, ListTypeOK
  <2> QED
    BY <2>1, Monotone
<1>4. \A b \in Block : b.chunk \in Chunk /\ b.chunk \in Nat /\ b.ptr \in Nat /\ b.len \in Nat
  BY Constants DEF Chunk
<1>5. \A c \in Chunk : next_addr'[c] <= Usable
  BY <1>2, Constants
<1>6. ASSUME NEW b \in Block, Live(b)'
      PROVE  next_addr'[b.chunk] <= b.ptr /\ b.ptr + b.len <= Usable /\ b.chunk <= head'
  <2>1. next_addr[b.chunk] <= b.ptr /\ b.ptr + b.len <= Usable /\ b.chunk <= head
    BY <1>6 DEF Placed
  <2>2. b.chunk \in Chunk
    BY <1>4
  <2>3. next_addr'[b.chunk] <= b.ptr
    BY <1>2, <1>4, <2>1, <2>2
  <2>4. head' \in Nat
    BY Monotone, <1>3
  <2> QED
    BY <1>3, <1>4, <2>1, <2>3, <2>4
<1> QED
  BY <1>1, <1>5, <1>6 DEF Placed

\* BumpAllocator::allocate: the new block lies between the old and the new
\* next_addr, below all others.
LEMMA TakeStep ==
  ASSUME Types, ControlMatches, Placed, Disjoint, OwnedOnce, NEW t \in Thread, TakeSpace(t)
  PROVE  Placed' /\ Disjoint' /\ OwnedOnce'
<1> DEFINE c == it[t]
           addr == next_addr[c] - size[t]
           new == [chunk |-> c, ptr |-> addr, len |-> size[t]]
<1>1. /\ c \in Chunk /\ c <= head /\ size[t] \in Nat \ {0} /\ next_addr[c] \in Int
      /\ next_addr[c] <= Usable /\ blk[t] = NoBlock
  <2>1. pc[t] = "take" /\ it[t] \in 0..head /\ size[t] \in Nat
    BY DEF TakeSpace, Goto, Types
  <2>2. it[t] # NoChunk /\ size[t] # 0 /\ blk[t] = NoBlock
    BY <2>1 DEF ControlMatches, ThreadMatches
  <2>3. head \in Chunk \union {NoChunk} /\ head \in Nat
    BY ChunkIsNat DEF Types, ListTypeOK
  <2>4. it[t] \in Chunk /\ it[t] <= head
    BY <2>1, <2>2, <2>3, Constants DEF Chunk
  <2> QED
    BY <2>1, <2>2, <2>4 DEF Types, Placed
<1>2. /\ next_addr' = [next_addr EXCEPT ![c] = addr] /\ blocks' = blocks /\ head' = head
      /\ \A u \in Thread : blk'[u] = IF u # t THEN blk[u]
                                     ELSE IF addr >= 0 THEN new ELSE NoBlock
  BY DEF TakeSpace, Types, listVars
<1>3. \A d \in Chunk : /\ next_addr'[d] <= next_addr[d] /\ next_addr'[d] \in Int
                       /\ next_addr[d] <= Usable /\ next_addr[d] \in Int
  BY <1>1, <1>2 DEF Types, Placed
<1>4. next_addr'[c] = addr
  BY <1>1, <1>2 DEF Types
<1>5. \A b \in Block : b.chunk \in Chunk /\ b.chunk \in Nat /\ b.ptr \in Nat /\ b.len \in Nat
  BY Constants DEF Chunk
<1>6. \A b \in Block : Live(b)' => Live(b) \/ (b = new /\ addr >= 0)
  BY <1>2 DEF Live
<1>7. \A d \in Chunk : next_addr'[d] <= Usable
  BY <1>3, Constants
<1>8. ASSUME NEW b \in Block, Live(b)
      PROVE  next_addr'[b.chunk] <= b.ptr /\ b.ptr + b.len <= Usable /\ b.chunk <= head
  <2>1. next_addr[b.chunk] <= b.ptr /\ b.ptr + b.len <= Usable /\ b.chunk <= head
    BY <1>8 DEF Placed
  <2> QED
    BY <1>3, <1>5, <2>1
<1>9. CASE addr < 0
  <2>1. \A b \in Block : Live(b)' => Live(b)
    BY <1>1, <1>6, <1>9
  <2>2. Placed'
    BY <1>2, <1>7, <1>8, <2>1 DEF Placed
  <2>3. Disjoint'
    BY <2>1 DEF Disjoint
  <2>4. OwnedOnce'
    BY <1>1, <1>2, <1>9 DEF OwnedOnce
  <2> QED
    BY <2>2, <2>3, <2>4
<1>10. CASE addr >= 0
  <2>1. /\ new.chunk = c /\ new.ptr = addr /\ new.len = size[t]
        /\ addr \in Nat /\ addr < next_addr[c] /\ addr + size[t] = next_addr[c]
    BY <1>1, <1>10
  <2> HIDE DEF new
  <2>2. Placed'
    <3>1. next_addr'[new.chunk] <= new.ptr /\ new.ptr + new.len <= Usable /\ new.chunk <= head
      BY <1>1, <1>4, <2>1
    <3>2. ASSUME NEW b \in Block, Live(b)'
          PROVE  next_addr'[b.chunk] <= b.ptr /\ b.ptr + b.len <= Usable /\ b.chunk <= head
      <4>1. CASE Live(b)
        BY <1>8, <4>1
      <4>2. CASE b = new
        BY <3>1, <4>2
      <4> QED
        BY <1>6, <3>2, <4>1, <4>2
    <3> QED
      BY <1>2, <1>7, <3>2 DEF Placed
  <2>3. \A b \in Block : Live(b) => b # new /\ ~ Overlap(b, new) /\ ~ Overlap(new, b)
    <3> SUFFICES ASSUME NEW b \in Block, Live(b), b.chunk = c
                 PROVE  b # new /\ ~ Overlap(b, new) /\ ~ Overlap(new, b)
      BY <2>1 DEF Overlap
    <3>1. next_addr[c] <= b.ptr
      BY DEF Placed
    <3> QED
      BY <1>1, <1>5, <2>1, <3>1 DEF Overlap
  <2>4. Disjoint'
    BY <1>6, <2>3 DEF Disjoint
  <2>5. \A u \in Thread : u # t => blk[u] # new
    <3> SUFFICES ASSUME NEW u \in Thread, blk[u] = new PROVE FALSE
      OBVIOUS
    <3>1. new # NoBlock
      BY <1>1, <2>1, Constants DEF NoBlock
    <3>2. new \in Block
      BY <3>1 DEF Types
    <3> QED
      BY <2>3, <3>1, <3>2 DEF Live
  <2>6. new \notin blocks
    BY <2>3 DEF Live, Types
  <2>7. OwnedOnce'
    BY <1>2, <1>10, <2>5, <2>6 DEF OwnedOnce
  <2> QED
    BY <2>2, <2>4, <2>7
<1> QED
  BY <1>1, <1>9, <1>10

\* What a step of t other than TakeSpace does to the blocks: one is returned by
\* allocate, one is given to deallocate, or deallocate lets go of its block.
LEMMA BlockMoves ==
  ASSUME Types, ControlMatches, NEW t \in Thread, Begin(t) \/ ThreadStep(t), ~ TakeSpace(t)
  PROVE  \/ CountBlock(t)
         \/ \E b \in blocks : BeginDeallocate(t, b)
         \/ /\ blocks' = blocks /\ raced' = raced
            /\ pc[t] # "count" /\ pc'[t] # "count"
            /\ \/ blk'[t] = blk[t] /\ count' = count
               \/ /\ blk'[t] = NoBlock /\ blk[t] # NoBlock
                  /\ Decrement(t) \/ (Search(t) /\ it[t] = NoChunk /\ count' = count)
<1> DEFINE Quiet ==
            /\ blocks' = blocks /\ raced' = raced
            /\ pc[t] # "count" /\ pc'[t] # "count"
            /\ \/ blk'[t] = blk[t] /\ count' = count
               \/ /\ blk'[t] = NoBlock /\ blk[t] # NoBlock
                  /\ Decrement(t) \/ (Search(t) /\ it[t] = NoChunk /\ count' = count)
<1>0. ThreadMatches(t)
  BY DEF ControlMatches
<1> USE DEF Types, Goto, EndDeallocate
<1>1. ASSUME NEW n \in Sizes, BeginAllocate(t, n) PROVE Quiet
  BY <1>1 DEF BeginAllocate
<1>2. ASSUME LoadHead(t) \/ AllocateItem(t) \/ LoadPrev(t) \/ LoadBegin(t) PROVE Quiet
  BY <1>2 DEF LoadHead, AllocateItem, LoadPrev, LoadBegin
<1>3. ASSUME Search(t) PROVE Quiet
  BY <1>0, <1>3 DEF Search, ThreadMatches
<1>4. ASSUME Decrement(t) PROVE Quiet
  <2>1. pc[t] = "dec" /\ blk[t] # NoBlock /\ blocks' = blocks /\ raced' = raced
    BY <1>0, <1>4 DEF Decrement, ThreadMatches
  <2>2. pc'[t] # "count" /\ blk'[t] = NoBlock
    BY <1>4 DEF Decrement
  <2> QED
    BY <1>4, <2>1, <2>2
<1>5. ASSUME TestFull(t) PROVE Quiet
  BY <1>0, <1>5 DEF TestFull, ThreadMatches
<1>6. ASSUME Erase(t) \/ SkipLoad(t) \/ SkipTest(t) \/ Move(t) PROVE Quiet
  BY <1>6 DEF Erase, SkipLoad, SkipTest, Move
<1>7. ASSUME SkipStore(t) PROVE Quiet
  BY <1>7 DEF SkipStore
<1> HIDE DEF Quiet
<1>8. Quiet \/ CountBlock(t) \/ \E b \in blocks : BeginDeallocate(t, b)
  BY <1>1, <1>2, <1>3, <1>4, <1>5, <1>6, <1>7 DEF Begin, ThreadStep
<1> QED
  BY <1>8 DEF Quiet

\* Every block stays in one place, and no step but TakeSpace makes one.
LEMMA BlockStep ==
  ASSUME Types, ControlMatches, Placed, Disjoint, OwnedOnce,
         NEW t \in Thread, Begin(t) \/ ThreadStep(t), Types'
  PROVE  Placed' /\ Disjoint' /\ OwnedOnce'
<1>1. CASE TakeSpace(t)
  BY <1>1, TakeStep
<1>2. \A u \in Thread : u # t => blk'[u] = blk[u]
  BY ThreadFrame
<1>3. ASSUME \A b \in Block : Live(b)' => Live(b), OwnedOnce'
      PROVE  Placed' /\ Disjoint' /\ OwnedOnce'
  BY <1>3, LiveKept
<1>4. CASE CountBlock(t)
  <2>1. /\ blocks' = blocks \union {blk[t]} /\ blk'[t] = NoBlock /\ blk[t] # NoBlock
    BY <1>4 DEF CountBlock, Goto, Types, ControlMatches, ThreadMatches
  <2>2. \A b \in Block : Live(b)' => Live(b)
    BY <1>2, <2>1 DEF Live
  <2>3. OwnedOnce'
    BY <1>2, <2>1 DEF OwnedOnce
  <2> QED
    BY <1>3, <2>2, <2>3
<1>5. ASSUME NEW b \in blocks, BeginDeallocate(t, b)
      PROVE  Placed' /\ Disjoint' /\ OwnedOnce'
  <2>1. blocks' = blocks \ {b} /\ blk'[t] = b /\ blk[t] = NoBlock
    BY <1>5 DEF BeginDeallocate, Goto, Types, ControlMatches, ThreadMatches
  <2>2. b # NoBlock
    BY Constants DEF Types
  <2>3. \A a \in Block : Live(a)' => Live(a)
    BY <1>2, <2>1 DEF Live
  <2>4. OwnedOnce'
    BY <1>2, <2>1, <2>2 DEF OwnedOnce
  <2> QED
    BY <1>3, <2>3, <2>4
<1>6. ASSUME blocks' = blocks, blk'[t] = blk[t] \/ blk'[t] = NoBlock
      PROVE  Placed' /\ Disjoint' /\ OwnedOnce'
  <2>1. \A a \in Block : Live(a)' => Live(a)
    BY <1>2, <1>6 DEF Live
  <2>2. OwnedOnce'
    BY <1>2, <1>6 DEF OwnedOnce
  <2> QED
    BY <1>3, <2>1, <2>2
<1> QED
  BY <1>1, <1>4, <1>5, <1>6, BlockMoves

\* Used, block by block.
LEMMA UsedIs ==
  \A b : b \in Used <=>
    b \in blocks \/ \E u \in Thread : pc[u] # "count" /\ blk[u] # NoBlock /\ b = blk[u]
BY DEF Used, Returning

\* How a step changes the blocks in use: count++ adds one, deallocate takes one
\* away, by count.fetch_sub or because its chunk is not in the list any more.
LEMMA UsedStep ==
  ASSUME Types, ControlMatches, SearchAhead, OwnedOnce,
         NEW t \in Thread, Begin(t) \/ ThreadStep(t)
  PROVE  \/ CountBlock(t) /\ Used' = Used \union {blk[t]} /\ blk[t] \notin Used
         \/ /\ ~ CountBlock(t) /\ raced' = raced
            /\ Used' = Used /\ count' = count
         \/ /\ Used' = Used \ {blk[t]} /\ blk[t] \in Used /\ raced' = raced /\ blk[t] # NoBlock
            /\ \/ Decrement(t)
               \/ ~ CountBlock(t) /\ deleted[blk[t].chunk] /\ count' = count
<1>1. \A u \in Thread : u # t => blk'[u] = blk[u] /\ pc'[u] = pc[u]
  BY ThreadFrame
<1>2. ThreadMatches(t) /\ Ahead(t)
  BY DEF ControlMatches, SearchAhead
<1>3. \A b : b \in Used' <=>
        b \in blocks' \/ \E u \in Thread : pc'[u] # "count" /\ blk'[u] # NoBlock /\ b = blk'[u]
  BY DEF Used, Returning
<1>4. CASE TakeSpace(t)
  <2>1. /\ pc[t] = "take" /\ blocks' = blocks /\ raced' = raced /\ count' = count
        /\ pc'[t] = "count" \/ blk'[t] = NoBlock
    BY <1>4 DEF TakeSpace, Goto, Types
  <2>2. blk[t] = NoBlock
    BY <1>2, <2>1 DEF ThreadMatches
  <2>3. \A b : b \in Used' <=> b \in Used
    BY <1>1, <1>3, <2>1, <2>2, UsedIs
  <2>4. ~ CountBlock(t)
    BY <2>1 DEF CountBlock, Goto
  <2> QED
    BY <2>1, <2>3, <2>4
<1>5. CASE CountBlock(t)
  <2>1. /\ pc[t] = "count" /\ blk[t] # NoBlock /\ blk'[t] = NoBlock
        /\ blocks' = blocks \union {blk[t]}
    BY <1>2, <1>5 DEF CountBlock, Goto, Types, ThreadMatches
  <2>2. \A b : b \in Used' <=> b \in Used \union {blk[t]}
    BY <1>1, <1>3, <2>1, UsedIs
  <2>3. blk[t] \notin Used
    BY <2>1, UsedIs DEF OwnedOnce
  <2> QED
    BY <1>5, <2>2, <2>3
<1>6. ASSUME NEW a \in blocks, BeginDeallocate(t, a)
      PROVE  ~ CountBlock(t) /\ raced' = raced /\ Used' = Used /\ count' = count
  <2>1. /\ pc[t] = "idle" /\ pc'[t] = "prev" /\ blk'[t] = a
        /\ blocks' = blocks \ {a} /\ raced' = raced /\ count' = count
    BY <1>6 DEF BeginDeallocate, Goto, Types
  <2>2. blk[t] = NoBlock /\ a # NoBlock
    BY <1>2, <2>1, Constants DEF ThreadMatches, Types
  <2>3. \A b : b \in Used' <=> b \in Used
    BY <1>1, <1>3, <2>1, <2>2, UsedIs
  <2>4. ~ CountBlock(t)
    BY <2>1 DEF CountBlock, Goto
  <2> QED
    BY <2>1, <2>3, <2>4
<1>7. ASSUME blocks' = blocks, raced' = raced, pc[t] # "count", pc'[t] # "count",
             blk'[t] = blk[t], count' = count
      PROVE  ~ CountBlock(t) /\ raced' = raced /\ Used' = Used /\ count' = count
  <2>1. \A b : b \in Used' <=> b \in Used
    BY <1>1, <1>3, <1>7, UsedIs
  <2>2. ~ CountBlock(t)
    BY <1>7 DEF CountBlock, Goto
  <2> QED
    BY <1>7, <2>1, <2>2
<1>8. ASSUME blocks' = blocks, raced' = raced, pc[t] # "count", pc'[t] # "count",
             blk'[t] = NoBlock, blk[t] # NoBlock,
             Decrement(t) \/ (Search(t) /\ it[t] = NoChunk /\ count' = count)
      PROVE  /\ Used' = Used \ {blk[t]} /\ blk[t] \in Used /\ raced' = raced
             /\ \/ Decrement(t)
                \/ ~ CountBlock(t) /\ deleted[blk[t].chunk] /\ count' = count
  <2>1. \A b : b \in Used' <=> b \in Used \ {blk[t]}
    BY <1>1, <1>3, <1>8, UsedIs DEF OwnedOnce
  <2>2. blk[t] \in Used
    BY <1>8, UsedIs
  <2>3. ~ CountBlock(t)
    BY <1>8 DEF CountBlock, Goto
  <2>4. ASSUME Search(t), it[t] = NoChunk PROVE deleted[blk[t].chunk]
    <3>1. blk[t] \in Block /\ blk[t].chunk \in Chunk
      BY <1>8, Constants DEF Types
    <3>2. blk[t].chunk <= it[t] \/ deleted[blk[t].chunk]
      BY <1>2, <1>8, <2>4 DEF Search, Ahead
    <3> QED
      BY <2>4, <3>1, <3>2, Constants DEF Chunk
  <2> QED
    BY <1>8, <2>1, <2>2, <2>3, <2>4
<1> QED
  BY <1>4, <1>5, <1>6, <1>7, <1>8, BlockMoves

\* A chunk's count follows the blocks in use.
LEMMA CountedStep ==
  ASSUME Types, ControlMatches, SearchAhead, OwnedOnce, Counted,
         NEW t \in Thread, Begin(t) \/ ThreadStep(t)
  PROVE  Counted'
<1>1. IsFiniteSet(Used')
  BY UsedStep, FS_AddElement, FS_RemoveElement DEF Counted
<1>2. \A c \in Chunk : IsFiniteSet(UsedOf(c)) /\ Cardinality(UsedOf(c)) \in Nat
  <2>1. \A c \in Chunk : UsedOf(c) \subseteq Used
    BY DEF UsedOf
  <2> QED
    BY <2>1, FS_Subset, FS_CardinalityType DEF Counted
<1> SUFFICES ASSUME NEW c \in Chunk, ~ deleted'[c]
             PROVE  count'[c] = Cardinality(UsedOf(c)')
  BY <1>1 DEF Counted
<1>3. ~ deleted[c] /\ count[c] = Cardinality(UsedOf(c)) /\ count[c] \in Int
  BY Monotone DEF Counted, Types
<1>4. UsedOf(c)' = {b \in Used' : b.chunk = c}
  BY DEF UsedOf
<1>5. ASSUME Used' = Used \/ (blk[t].chunk # c /\ Used' = Used \union {blk[t]})
                 \/ (blk[t].chunk # c /\ Used' = Used \ {blk[t]})
      PROVE  UsedOf(c)' = UsedOf(c)
  BY <1>4, <1>5 DEF UsedOf
<1>6. CASE CountBlock(t) /\ Used' = Used \union {blk[t]} /\ blk[t] \notin Used
  <2>1. /\ it[t] = blk[t].chunk
        /\ it[t] \in Chunk => count' = [count EXCEPT ![it[t]] = count[it[t]] + 1]
    BY <1>6 DEF CountBlock, Goto, ControlMatches, ThreadMatches
  <2>2. CASE it[t] = c
    <3>1. UsedOf(c)' = UsedOf(c) \union {blk[t]} /\ blk[t] \notin UsedOf(c)
      BY <1>4, <1>6, <2>1, <2>2 DEF UsedOf
    <3>2. Cardinality(UsedOf(c)') = Cardinality(UsedOf(c)) + 1
      BY <1>2, <3>1, FS_AddElement
    <3> QED
      BY <1>3, <2>1, <2>2, <3>2 DEF Types
  <2>3. CASE it[t] # c
    <3>1. UsedOf(c)' = UsedOf(c)
      BY <1>5, <1>6, <2>1, <2>3
    <3>2. count'[c] = count[c]
      BY <1>6, <2>3 DEF CountBlock, Types
    <3> QED
      BY <1>3, <3>1, <3>2
  <2> QED
    BY <2>2, <2>3
<1>7. CASE Used' = Used /\ count' = count
  BY <1>3, <1>5, <1>7
<1>8. CASE Decrement(t) /\ Used' = Used \ {blk[t]} /\ blk[t] \in Used
  <2>1. /\ it[t] = blk[t].chunk
        /\ it[t] \in Chunk => count' = [count EXCEPT ![it[t]] = count[it[t]] - 1]
    BY <1>8 DEF Decrement, ControlMatches, ThreadMatches
  <2>2. CASE it[t] = c
    <3>1. UsedOf(c)' = UsedOf(c) \ {blk[t]} /\ blk[t] \in UsedOf(c)
      BY <1>4, <1>8, <2>1, <2>2 DEF UsedOf
    <3>2. Cardinality(UsedOf(c)') = Cardinality(UsedOf(c)) - 1
      BY ZenonT(60), <1>2, <3>1, FS_RemoveElement
    <3> QED
      BY <1>3, <2>1, <2>2, <3>2 DEF Types
  <2>3. CASE it[t] # c
    <3>1. UsedOf(c)' = UsedOf(c)
      BY <1>5, <1>8, <2>1, <2>3
    <3>2. count'[c] = count[c]
      BY <1>8, <2>3 DEF Decrement, Types
    <3> QED
      BY <1>3, <3>1, <3>2
  <2> QED
    BY <2>2, <2>3
<1>9. CASE Used' = Used \ {blk[t]} /\ deleted[blk[t].chunk] /\ count' = count
  <2>1. blk[t].chunk # c
    BY <1>3, <1>9
  <2> QED
    BY <1>3, <1>5, <1>9, <2>1
<1> QED
  BY <1>6, <1>7, <1>8, <1>9, UsedStep

\* A chunk comes to be emptied when its count falls to zero, and is erased only
\* by a thread that has found it so.
LEMMA EmptyingStep ==
  ASSUME Types, ControlMatches, NEW t \in Thread, Begin(t) \/ ThreadStep(t),
         NEW c \in Chunk, deleted'[c] \/ Emptying(c)'
  PROVE  deleted[c] \/ Emptying(c) \/ (Decrement(t) /\ it[t] = c /\ count[c] = 1)
<1> USE DEF Types, ListTypeOK, Goto, EndDeallocate, listVars
<1>1. CASE Erase(t)
  <2>1. /\ pc[t] = "erase" /\ it' = it /\ pc'[t] = "load"
        /\ deleted' = [deleted EXCEPT ![it[t]] = TRUE]
    BY <1>1 DEF Erase
  <2>2. deleted'[c] => deleted[c] \/ it[t] = c
    BY <2>1
  <2>3. Emptying(c)' => Emptying(c)
    BY <2>1, ThreadFrame DEF Emptying
  <2> QED
    BY <2>1, <2>2, <2>3 DEF Emptying
<1>2. CASE ~ Erase(t)
  <2>1. deleted' = deleted
    BY <1>2 DEF Begin, ThreadStep, BeginAllocate, BeginDeallocate, LoadHead, TakeSpace,
       CountBlock, AllocateItem, AppendItem, LoadPrev, LoadBegin, Search, Decrement, TestFull,
       SkipLoad, SkipTest, SkipStore, Move
  <2>2. CASE Emptying(c)'
    <3>1. PICK u \in Thread : it'[u] = c /\ pc'[u] \in {"full", "erase"}
      BY <2>2 DEF Emptying
    <3>2. CASE u # t
      BY <3>1, <3>2, ThreadFrame DEF Emptying
    <3>3. CASE u = t
      <4>1. it'[t] = c /\ pc'[t] \in {"full", "erase"}
        BY <3>1, <3>3
      <4>2. CASE Decrement(t)
        BY <4>1, <4>2 DEF Decrement
      <4>3. CASE TestFull(t)
        BY <4>1, <4>3 DEF TestFull, Emptying
      <4>4. ASSUME NEW n \in Sizes, BeginAllocate(t, n) PROVE FALSE
        BY <4>1, <4>4 DEF BeginAllocate
      <4>5. ASSUME NEW b \in blocks, BeginDeallocate(t, b) PROVE FALSE
        BY <4>1, <4>5 DEF BeginDeallocate
      <4>6. ASSUME LoadHead(t) \/ TakeSpace(t) \/ CountBlock(t) \/ AllocateItem(t) PROVE FALSE
        BY <4>1, <4>6 DEF LoadHead, TakeSpace, CountBlock, AllocateItem
      <4>7. ASSUME LoadPrev(t) \/ LoadBegin(t) \/ Search(t) PROVE FALSE
        BY <4>1, <4>7 DEF LoadPrev, LoadBegin, Search
      <4>8. ASSUME SkipLoad(t) \/ SkipTest(t) \/ SkipStore(t) \/ Move(t) PROVE FALSE
        BY <4>1, <4>8 DEF SkipLoad, SkipTest, SkipStore, Move
      <4> QED
        BY <1>2, <4>2, <4>3, <4>4, <4>5, <4>6, <4>7, <4>8 DEF Begin, ThreadStep
    <3> QED
      BY <3>2, <3>3
  <2> QED
    BY <2>1, <2>2
<1> QED
  BY <1>1, <1>2

\* Where a chunk is deleted or about to be, the blocks in use in it came late.
LEMMA LateStep ==
  ASSUME Types, ControlMatches, SearchAhead, OwnedOnce, Counted, ErasedLate,
         NEW t \in Thread, Begin(t) \/ ThreadStep(t)
  PROVE  ErasedLate'
<1> SUFFICES ASSUME NEW c \in Chunk, deleted'[c] \/ Emptying(c)'
             PROVE  UsedOf(c)' \subseteq raced'
  BY DEF ErasedLate
<1>1. UsedOf(c)' = {b \in Used' : b.chunk = c}
  BY DEF UsedOf
<1>2. raced \subseteq raced'
  BY UsedStep DEF CountBlock
<1>3. CASE deleted[c] \/ Emptying(c)
  <2>1. UsedOf(c) \subseteq raced
    BY <1>3 DEF ErasedLate
  <2>2. CASE Used' \subseteq Used
    BY <1>1, <1>2, <2>1, <2>2 DEF UsedOf
  <2>3. CASE CountBlock(t) /\ Used' = Used \union {blk[t]}
    <3>1. blk[t].chunk = it[t]
      BY <2>3 DEF CountBlock, Goto, ControlMatches, ThreadMatches
    <3>2. blk[t].chunk = c => blk[t] \in raced'
      BY <1>3, <2>3, <3>1 DEF CountBlock
    <3> QED
      BY <1>1, <1>2, <2>1, <2>3, <3>2 DEF UsedOf
  <2> QED
    BY <2>2, <2>3, UsedStep
<1>4. CASE ~ deleted[c] /\ Decrement(t) /\ it[t] = c /\ count[c] = 1
  <2>1. blk[t].chunk = c /\ ~ CountBlock(t) /\ count' # count
    <3>1. pc[t] = "dec"
      BY <1>4 DEF Decrement
    <3>2. blk[t].chunk = c
      BY <1>4, <3>1 DEF ControlMatches, ThreadMatches
    <3>3. count'[c] = 0
      BY <1>4 DEF Decrement, Types
    <3> QED
      BY <1>4, <3>1, <3>2, <3>3 DEF CountBlock, Goto
  <2>2. Used' = Used \ {blk[t]} /\ blk[t] \in Used
    BY <2>1, UsedStep
  <2>3. UsedOf(c)' = UsedOf(c) \ {blk[t]} /\ blk[t] \in UsedOf(c)
    BY <1>1, <2>1, <2>2 DEF UsedOf
  <2>4. IsFiniteSet(UsedOf(c)) /\ Cardinality(UsedOf(c)) = 1
    <3>1. UsedOf(c) \subseteq Used
      BY DEF UsedOf
    <3> QED
      BY <1>4, <3>1, FS_Subset DEF Counted
  <2>5. IsFiniteSet(UsedOf(c)') /\ Cardinality(UsedOf(c)') = 0
    BY <2>3, <2>4, FS_RemoveElement
  <2> QED
    BY <2>5, FS_EmptySet
<1> QED
  BY <1>3, <1>4, EmptyingStep

\* A chunk that is going to be erased is full, and stays so.
LEMMA FullStep ==
  ASSUME Types, ControlMatches, ErasedFull, NEW t \in Thread, Begin(t) \/ ThreadStep(t), Types'
  PROVE  ErasedFull'
<1> DEFINE Bound(c) == deleted[c] \/ (\E u \in Thread : pc[u] = "erase" /\ it[u] = c)
<1> SUFFICES ASSUME NEW c \in Chunk, Bound(c)' PROVE next_addr'[c] <= 0
  BY DEF ErasedFull
<1>1. next_addr'[c] <= next_addr[c] /\ next_addr[c] \in Int /\ next_addr'[c] \in Int
  BY Monotone DEF Types
<1>2. ASSUME Bound(c) PROVE next_addr'[c] <= 0
  <2>1. next_addr[c] <= 0
    BY <1>2 DEF ErasedFull
  <2> QED
    BY <1>1, <2>1
<1>3. CASE TestFull(t)
  <2>1. /\ pc[t] = "full" /\ next_addr' = next_addr /\ deleted' = deleted
        /\ pc'[t] = "erase" => next_addr[it[t]] <= 0 /\ it' = it
    BY <1>3 DEF TestFull, EndDeallocate, Types, listVars
  <2>2. CASE pc'[t] = "erase" /\ it'[t] = c
    BY <2>1, <2>2
  <2>3. CASE ~ (pc'[t] = "erase" /\ it'[t] = c)
    BY <1>2, <2>1, <2>3, ThreadFrame
  <2> QED
    BY <2>2, <2>3
<1>4. CASE ~ TestFull(t)
  <2> USE DEF Types, ListTypeOK, Goto, EndDeallocate, listVars
  <2>1. pc'[t] # "erase"
    <3>1. ASSUME NEW n \in Sizes, BeginAllocate(t, n) PROVE pc'[t] # "erase"
      BY <3>1 DEF BeginAllocate
    <3>2. ASSUME NEW b \in blocks, BeginDeallocate(t, b) PROVE pc'[t] # "erase"
      BY <3>2 DEF BeginDeallocate
    <3>3. CASE LoadHead(t) \/ TakeSpace(t) \/ CountBlock(t) \/ AllocateItem(t)
      BY <3>3 DEF LoadHead, TakeSpace, CountBlock, AllocateItem
    <3>4. CASE LoadPrev(t) \/ LoadBegin(t) \/ Search(t) \/ Decrement(t) \/ Erase(t)
      BY <3>4 DEF LoadPrev, LoadBegin, Search, Decrement, Erase
    <3>5. CASE SkipLoad(t) \/ SkipTest(t) \/ SkipStore(t) \/ Move(t)
      BY <3>5 DEF SkipLoad, SkipTest, SkipStore, Move
    <3> QED
      BY <1>4, <3>1, <3>2, <3>3, <3>4, <3>5 DEF Begin, ThreadStep
  <2>2. deleted'[c] => deleted[c] \/ (pc[t] = "erase" /\ it[t] = c)
    <3>1. CASE Erase(t)
      BY <3>1 DEF Erase
    <3>2. CASE ~ Erase(t)
      BY <3>2 DEF Begin, ThreadStep, BeginAllocate, BeginDeallocate, LoadHead, TakeSpace,
       CountBlock, AllocateItem, AppendItem, LoadPrev, LoadBegin, Search, Decrement, TestFull,
       SkipLoad, SkipTest, SkipStore, Move
    <3> QED
      BY <3>1, <3>2
  <2>3. Bound(c)
    BY <2>1, <2>2, ThreadFrame
  <2> QED
    BY <1>2, <2>3
<1> QED
  BY <1>3, <1>4

-----------------------------------------------------------------------------
(***************************************************************************)
(* Theorems.                                                               *)
(***************************************************************************)

\* The arena's invariant: every atomic access of every thread keeps it.
THEOREM Invariance == Spec => []IInv
<1>1. ASSUME IInv, [Next]_vars PROVE IInv'
  <2>1. CASE Next
    <3>1. PICK t \in Thread : Begin(t) \/ ThreadStep(t)
      BY <2>1 DEF Next
    <3> USE <1>1, <3>1 DEF IInv
    <3>2. Types' /\ ControlMatches' /\ ListOrdered' /\ SearchAhead'
      BY TypeStep, ControlStep, ListStep, SearchStep
    <3>3. Placed' /\ Disjoint' /\ OwnedOnce'
      BY <3>2, BlockStep
    <3>4. Counted' /\ ErasedLate' /\ ErasedFull'
      BY <3>2, CountedStep, LateStep, FullStep
    <3> QED
      BY <3>2, <3>3, <3>4
  <2>2. CASE UNCHANGED vars
    BY <1>1, <2>2 DEF IInv, vars, listVars, threadVars, Types, ListTypeOK, ControlMatches,
       ThreadMatches, ListOrdered, SearchAhead, Ahead, Placed, Disjoint, Live, OwnedOnce,
       Counted, ErasedLate, ErasedFull, UsedOf, Used, Returning, Emptying
  <2> QED
    BY <1>1, <2>1, <2>2
<1> QED
  BY <1>1, InitIInv, PTL DEF Spec

\* A block that counts in BlocksExact is one that belongs to the program or a
\* thread.
LEMMA UsedIsLive ==
  ASSUME Types, ControlMatches, NEW b \in Used \union Taken
  PROVE  b \in Block /\ Live(b)
<1>1. CASE b \in Taken
  <2>1. PICK t \in Thread : pc[t] = "count" /\ b = blk[t]
    BY <1>1 DEF Taken
  <2>2. blk[t] # NoBlock
    BY <2>1 DEF ControlMatches, ThreadMatches
  <2> QED
    BY <2>1, <2>2 DEF Live, Types
<1>2. CASE b \in blocks
  BY <1>2 DEF Live, Types
<1>3. ASSUME NEW t \in Thread, blk[t] # NoBlock, b = blk[t] PROVE b \in Block /\ Live(b)
  BY <1>3 DEF Live, Types
<1> QED
  BY <1>1, <1>2, <1>3, UsedIs

\* However many threads allocate and give back at once, blocks in use or about
\* to be do not overlap and lie in the data of their chunk, and count is exact
\* until the chunk is erased (ChunkedBumpAlloc, BumpAllocator).
THEOREM BlocksExactCorrect == Spec => []BlocksExact
<1>1. IInv => BlocksExact
  <2> SUFFICES ASSUME IInv PROVE BlocksExact
    OBVIOUS
  <2> USE DEF IInv
  <2>1. \A b \in Used \union Taken : b \in Block /\ Live(b)
    BY UsedIsLive
  <2>2. \A a, b \in Used \union Taken : a # b => ~ Overlap(a, b)
    BY <2>1 DEF Disjoint
  <2>3. \A b \in Used \union Taken : b.ptr >= 0 /\ b.ptr + b.len <= Usable
    <3> TAKE b \in Used \union Taken
    <3>1. b \in Block /\ Live(b) /\ b.ptr \in 0..Usable
      BY <2>1, Constants
    <3> QED
      BY <3>1 DEF Placed
  <2>4. \A c \in Chunk : ~ deleted[c] => count[c] = Cardinality({b \in Used : b.chunk = c})
    BY DEF Counted, UsedOf
  <2> QED
    BY <2>2, <2>3, <2>4 DEF BlocksExact
<1> QED
  BY <1>1, Invariance, PTL

\* A chunk that is not deleted stays in the list: the least chunk reached that
\* is not before it is the chunk itself.
LEMMA NotDeletedReached ==
  ASSUME Types, ListOrdered, NEW c \in Chunk, c <= head, ~ deleted[c]
  PROVE  Reaches(head, c)
<1> SUFFICES ASSUME NEW S \in SUBSET Chunk, head # NoChunk => head \in S,
                    \A e \in S : prev[e] # NoChunk => prev[e] \in S
             PROVE  c \in S
  BY DEF Reaches
<1> DEFINE T == {x \in S : c <= x /\ x <= head}
<1>1. head \in Nat /\ c \in Nat /\ 0 < c /\ \A x \in S : x \in Nat /\ x \in Chunk
  BY ChunkIsNat, Constants DEF Types, ListTypeOK, Chunk
<1>2. head \in T
  BY <1>1, Constants
<1>3. T \in SUBSET Nat /\ T # {}
  BY <1>1, <1>2
<1> HIDE DEF T
<1>4. PICK m \in T : \A n \in T : m <= n
  BY <1>3, LeastNatural
<1>5. m \in S /\ m \in Chunk /\ m \in Nat /\ c <= m /\ m <= head
  BY <1>1, <1>4 DEF T
<1>6. SkipsDeleted(deleted, m, prev[m])
  BY <1>5 DEF ListOrdered
<1>7. prev[m] \in Nat
  BY <1>5, ChunkIsNat DEF Types, ListTypeOK
<1>8. CASE m # c
  <2>1. c <= prev[m] /\ prev[m] < m
    BY <1>1, <1>5, <1>6, <1>7, <1>8 DEF SkipsDeleted
  <2>2. prev[m] # NoChunk
    BY <1>1, <1>7, <2>1, Constants
  <2>3. prev[m] \in T
    BY <1>1, <1>5, <1>7, <2>1, <2>2 DEF T
  <2>4. m <= prev[m]
    BY <1>4, <2>3
  <2> QED
    BY <1>5, <1>7, <2>1, <2>4
<1> QED
  BY <1>5, <1>8

\* A chunk with a block in use stays in the list, where deallocate finds it,
\* unless the block was counted after the chunk was found empty; erased chunks
\* have no space left (AtomicList::erase, ChunkedBumpAlloc::deallocate).
THEOREM UsedStaysInListCorrect == Spec => []UsedStaysInList
<1>1. IInv => UsedStaysInList
  <2> SUFFICES ASSUME IInv PROVE UsedStaysInList
    OBVIOUS
  <2> USE DEF IInv
  <2>1. ASSUME NEW b \in Used \ raced PROVE ~ deleted[b.chunk] /\ Reaches(head, b.chunk)
    <3>1. b \in Block /\ Live(b)
      BY UsedIsLive
    <3>2. b.chunk \in Chunk /\ b.chunk <= head
      BY <3>1, Constants DEF Placed
    <3>3. b \in UsedOf(b.chunk)
      BY DEF UsedOf
    <3>4. ~ deleted[b.chunk]
      BY <3>2, <3>3 DEF ErasedLate
    <3> QED
      BY <3>2, <3>4, NotDeletedReached
  <2> QED
    BY <2>1 DEF UsedStaysInList, ErasedFull
<1> QED
  BY <1>1, Invariance, PTL
=============================================================================
