------------------------------ MODULE BumpAlloc ------------------------------
(***************************************************************************)
(* ChunkedBumpAlloc (memory/chunked_bump_alloc.hpp): the arena of a        *)
(* worker.  Any thread allocates from the newest chunk by moving its       *)
(* next_addr down; any thread gives a block back, for which it searches    *)
(* the chunk that owns it.                                                 *)
(*                                                                         *)
(* An action is one atomic access.  Addresses are relative to the          *)
(* lower_limit of their chunk.                                             *)
(***************************************************************************)
EXTENDS AtomicList, FiniteSets

CONSTANTS
  Thread,
  ChunkCapacity,   \* chunk_capacity
  Overhead,        \* get_controlblock_size() and sizeof(BumpAllocator)
  Sizes,           \* the sizes that are asked for
  MaxAllocs        \* bound: calls of allocate

\* The data of a chunk is smaller than its capacity.
Usable == ChunkCapacity - Overhead

\* roundup_to_poweroftwo
RoundUp(n) ==
  LET k == CHOOSE k \in 0..n : /\ 2^k >= n
                               /\ \A j \in 0..n : 2^j >= n => k <= j
  IN  2^k

ASSUME BumpAssumption ==
  /\ ChunkCapacity \in Nat /\ Overhead \in Nat /\ Overhead < ChunkCapacity
  /\ Sizes \subseteq Nat \ {0}
  /\ MaxAllocs \in Nat /\ IsFiniteSet(Thread)
  /\ MaxChunk >= MaxAllocs * Cardinality(Thread)

Block == [chunk : Chunk, ptr : 0..Usable, len : 1..Usable]
NoBlock == [chunk |-> NoChunk, ptr |-> 0, len |-> 0]

VARIABLES
  \* BumpAllocator
  next_addr, count,
  \* threads
  pc,
  size,        \* alloc_size of the thread's call of allocate
  blk,         \* the block it is about to return, or to give back
  it,          \* its iterator over the chunks, or the chunk it allocates from
  prev_it,     \* deallocate's iterator `prev'
  skip,        \* whose skip_deleted_prev it is in ...
  p,           \* ... and its local p
  blocks,      \* the blocks that have been allocated and are in use
  allocs,      \* calls of allocate so far
  \* history
  raced        \* blocks counted after the chunk was found empty and to be erased

threadVars == <<size, blk, it, prev_it, skip, p>>
vars == <<listVars, next_addr, count, pc, threadVars, blocks, allocs, raced>>

Pcs == {"idle", "head", "take", "count", "grow",
        "prev", "begin", "search", "dec", "full", "erase",
        "load", "test", "store", "move"}

TypeOK ==
  /\ ListTypeOK
  /\ next_addr \in [Chunk -> (Usable - MaxAllocs * ChunkCapacity)..Usable]
  /\ count \in [Chunk -> 0..MaxAllocs]
  /\ pc \in [Thread -> Pcs]
  /\ size \in [Thread -> 0..ChunkCapacity]
  /\ blk \in [Thread -> Block \union {NoBlock}]
  /\ \A f \in {it, prev_it, skip, p} : f \in [Thread -> Chunk \union {NoChunk}]
  /\ blocks \subseteq Block /\ raced \subseteq Block
  /\ allocs \in 0..MaxAllocs

Init ==
  /\ head = NoChunk
  /\ prev = [c \in Chunk |-> NoChunk]
  /\ deleted = [c \in Chunk |-> FALSE]
  /\ next_addr = [c \in Chunk |-> Usable]
  /\ count = [c \in Chunk |-> 0]
  /\ pc = [t \in Thread |-> "idle"]
  /\ size = [t \in Thread |-> 0]
  /\ blk = [t \in Thread |-> NoBlock]
  /\ it = [t \in Thread |-> NoChunk]
  /\ prev_it = it /\ skip = it /\ p = it
  /\ blocks = {} /\ allocs = 0 /\ raced = {}

Goto(t, from, to) == pc[t] = from /\ pc' = [pc EXCEPT ![t] = to]

-----------------------------------------------------------------------------
\* allocate

\* A request beyond the capacity of a chunk is answered at once, by a null block.
BeginAllocate(t, n) ==
  /\ allocs < MaxAllocs
  /\ allocs' = allocs + 1
  /\ Goto(t, "idle", IF RoundUp(n) <= ChunkCapacity THEN "head" ELSE "idle")
  /\ size' = [size EXCEPT ![t] = IF RoundUp(n) <= ChunkCapacity THEN RoundUp(n) ELSE @]
  /\ UNCHANGED <<listVars, next_addr, count, blk, it, prev_it, skip, p, blocks, raced>>

\* Mutant of LoadHead: tests the iterator that it had before.
LoadHeadStale(t) ==
  /\ Goto(t, "head", IF it[t] = NoChunk THEN "grow" ELSE "take")
  /\ it' = [it EXCEPT ![t] = head]
  /\ UNCHANGED <<listVars, next_addr, count, size, blk, prev_it, skip, p, blocks,
                 allocs, raced>>

LoadHead(t) ==
  /\ Goto(t, "head", IF head = NoChunk THEN "grow" ELSE "take")
  /\ it' = [it EXCEPT ![t] = head]
  /\ UNCHANGED <<listVars, next_addr, count, size, blk, prev_it, skip, p, blocks,
                 allocs, raced>>

\* Mutant of TakeSpace: looks at next_addr as it was before the subtraction.
TakeSpaceBelow(t) ==
  LET c == it[t]
      addr == next_addr[c] - size[t]
  IN  /\ Goto(t, "take", IF next_addr[c] > 0 THEN "count" ELSE "grow")
      /\ next_addr' = [next_addr EXCEPT ![c] = addr]
      /\ blk' = [blk EXCEPT ![t] = IF next_addr[c] > 0
                   THEN [chunk |-> c, ptr |-> addr, len |-> size[t]] ELSE NoBlock]
      /\ UNCHANGED <<listVars, count, size, it, prev_it, skip, p, blocks, allocs, raced>>

\* BumpAllocator::allocate: next_addr.fetch_sub(n_bytes), which stays done when
\* it overruns the chunk.
TakeSpace(t) ==
  LET c == it[t]
      addr == next_addr[c] - size[t]
  IN  /\ Goto(t, "take", IF addr >= 0 THEN "count" ELSE "grow")
      /\ next_addr' = [next_addr EXCEPT ![c] = addr]
      /\ blk' = [blk EXCEPT ![t] = IF addr >= 0
                   THEN [chunk |-> c, ptr |-> addr, len |-> size[t]] ELSE NoBlock]
      /\ UNCHANGED <<listVars, count, size, it, prev_it, skip, p, blocks, allocs, raced>>

\* A thread that has found chunk c empty and has not erased it yet.
Emptying(c) == \E u \in Thread : it[u] = c /\ pc[u] \in {"full", "erase"}

\* count++, and the block is returned.
CountBlock(t) ==
  LET c == it[t]
  IN  /\ Goto(t, "count", "idle")
      /\ count' = [count EXCEPT ![c] = @ + 1]
      /\ blocks' = blocks \union {blk[t]}
      /\ raced' = IF deleted[c] \/ Emptying(c) THEN raced \union {blk[t]} ELSE raced
      /\ blk' = [blk EXCEPT ![t] = NoBlock]
      /\ it' = [it EXCEPT ![t] = NoChunk]
      /\ size' = [size EXCEPT ![t] = 0]
      /\ UNCHANGED <<listVars, next_addr, prev_it, skip, p, allocs>>

\* Mutant of AllocateItem: the new chunk does not get into the list.
AllocateUnlinked(t) ==
  /\ Goto(t, "grow", "head")
  /\ it' = [it EXCEPT ![t] = NoChunk]
  /\ UNCHANGED <<listVars, next_addr, count, size, blk, prev_it, skip, p, blocks,
                 allocs, raced>>

\* Every thread that finds the chunk full, or none, adds one.
AllocateItem(t) ==
  /\ Goto(t, "grow", "head")
  /\ AppendItem
  /\ it' = [it EXCEPT ![t] = NoChunk]
  /\ UNCHANGED <<next_addr, count, size, blk, prev_it, skip, p, blocks, allocs, raced>>

-----------------------------------------------------------------------------
\* deallocate: a block is given back once, by any thread.
BeginDeallocate(t, b) ==
  /\ Goto(t, "idle", "prev")
  /\ b \in blocks
  /\ blocks' = blocks \ {b}
  /\ blk' = [blk EXCEPT ![t] = b]
  /\ UNCHANGED <<listVars, next_addr, count, size, it, prev_it, skip, p, allocs, raced>>

\* auto prev = bump_allocators.rbegin()
LoadPrev(t) ==
  /\ Goto(t, "prev", "begin")
  /\ prev_it' = [prev_it EXCEPT ![t] = head]
  /\ UNCHANGED <<listVars, next_addr, count, size, blk, it, skip, p, blocks, allocs, raced>>

\* auto it = bump_allocators.rbegin(), a second load
LoadBegin(t) ==
  /\ Goto(t, "begin", "search")
  /\ it' = [it EXCEPT ![t] = head]
  /\ UNCHANGED <<listVars, next_addr, count, size, blk, prev_it, skip, p, blocks,
                 allocs, raced>>

\* lower_limit <= blk.ptr < upper_limit
Owns(c, b) == b.chunk = c

EndDeallocate(t) ==
  /\ pc' = [pc EXCEPT ![t] = "idle"]
  /\ blk' = [blk EXCEPT ![t] = NoBlock]
  /\ it' = [it EXCEPT ![t] = NoChunk]
  /\ prev_it' = [prev_it EXCEPT ![t] = NoChunk]
  /\ skip' = [skip EXCEPT ![t] = NoChunk]
  /\ p' = [p EXCEPT ![t] = NoChunk]

\* Ends without a trace when no chunk owns the block.
Search(t) ==
  /\ pc[t] = "search"
  /\ \/ /\ it[t] = NoChunk
        /\ EndDeallocate(t)
     \/ /\ it[t] # NoChunk /\ Owns(it[t], blk[t])
        /\ pc' = [pc EXCEPT ![t] = "dec"]
        /\ UNCHANGED <<blk, it, prev_it, skip, p>>
     \/ /\ it[t] # NoChunk /\ ~ Owns(it[t], blk[t])
        /\ pc' = [pc EXCEPT ![t] = "load"]
        /\ prev_it' = [prev_it EXCEPT ![t] = it[t]]
        /\ skip' = [skip EXCEPT ![t] = it[t]]
        /\ UNCHANGED <<blk, it, p>>
  /\ UNCHANGED <<listVars, next_addr, count, size, blocks, allocs, raced>>

\* Mutant of Decrement: compares with the value after the subtraction.
DecrementEarly(t) ==
  LET c == it[t]
  IN  /\ pc[t] = "dec"
      /\ count' = [count EXCEPT ![c] = @ - 1]
      /\ \/ /\ count'[c] = 1
            /\ pc' = [pc EXCEPT ![t] = "full"]
            /\ blk' = [blk EXCEPT ![t] = NoBlock]
            /\ UNCHANGED <<it, prev_it, skip, p>>
         \/ /\ count'[c] # 1
            /\ EndDeallocate(t)
      /\ UNCHANGED <<listVars, next_addr, size, blocks, allocs, raced>>

\* count.fetch_sub(1) == 1
Decrement(t) ==
  LET c == it[t]
  IN  /\ pc[t] = "dec"
      /\ count' = [count EXCEPT ![c] = @ - 1]
      /\ \/ /\ count[c] = 1
            /\ pc' = [pc EXCEPT ![t] = "full"]
            /\ blk' = [blk EXCEPT ![t] = NoBlock]
            /\ UNCHANGED <<it, prev_it, skip, p>>
         \/ /\ count[c] # 1
            /\ EndDeallocate(t)
      /\ UNCHANGED <<listVars, next_addr, size, blocks, allocs, raced>>

\* full(): chunks that still have space are kept.
TestFull(t) ==
  /\ pc[t] = "full"
  /\ \/ /\ next_addr[it[t]] <= 0
        /\ pc' = [pc EXCEPT ![t] = "erase"]
        /\ UNCHANGED <<blk, it, prev_it, skip, p>>
     \/ /\ next_addr[it[t]] > 0
        /\ EndDeallocate(t)
  /\ UNCHANGED <<listVars, next_addr, count, size, blocks, allocs, raced>>

\* erase, also of the head; then prev.optimize()
Erase(t) ==
  /\ Goto(t, "erase", "load")
  /\ deleted' = [deleted EXCEPT ![it[t]] = TRUE]
  /\ skip' = [skip EXCEPT ![t] = prev_it[t]]
  /\ UNCHANGED <<head, prev, next_addr, count, size, blk, it, prev_it, p, blocks, allocs, raced>>

-----------------------------------------------------------------------------
\* skip_deleted_prev of chunk skip[t]

SkipLoad(t) ==
  /\ Goto(t, "load", "test")
  /\ p' = [p EXCEPT ![t] = prev[skip[t]]]
  /\ UNCHANGED <<listVars, next_addr, count, size, blk, it, prev_it, skip, blocks,
                 allocs, raced>>

IsDeleted(c) == c # NoChunk /\ deleted[c]

\* while(p && p->deleted) p = atomic_load(&p->prev)
SkipTest(t) ==
  /\ pc[t] = "test"
  /\ \/ /\ IsDeleted(p[t])
        /\ p' = [p EXCEPT ![t] = prev[p[t]]]
        /\ UNCHANGED pc
     \/ /\ ~ IsDeleted(p[t])
        /\ pc' = [pc EXCEPT ![t] = "store"]
        /\ UNCHANGED p
  /\ UNCHANGED <<listVars, next_addr, count, size, blk, it, prev_it, skip, blocks,
                 allocs, raced>>

\* atomic_store(&prev, p): on to the assignment in operator++, or the end of
\* optimize(), when the block is given back already.
SkipStore(t) ==
  /\ pc[t] = "store"
  /\ prev' = [prev EXCEPT ![skip[t]] = p[t]]
  /\ \/ /\ blk[t] # NoBlock
        /\ pc' = [pc EXCEPT ![t] = "move"]
        /\ UNCHANGED <<blk, it, prev_it, skip, p>>
     \/ /\ blk[t] = NoBlock
        /\ EndDeallocate(t)
  /\ UNCHANGED <<head, deleted, next_addr, count, size, blocks, allocs, raced>>

\* c = c->prev, which may have changed again
Move(t) ==
  /\ Goto(t, "move", "search")
  /\ it' = [it EXCEPT ![t] = prev[it[t]]]
  /\ skip' = [skip EXCEPT ![t] = NoChunk]
  /\ p' = [p EXCEPT ![t] = NoChunk]
  /\ UNCHANGED <<listVars, next_addr, count, size, blk, prev_it, blocks, allocs, raced>>

-----------------------------------------------------------------------------
ThreadStep(t) ==
  \/ LoadHead(t) \/ TakeSpace(t) \/ CountBlock(t) \/ AllocateItem(t)
  \/ LoadPrev(t) \/ LoadBegin(t) \/ Search(t) \/ Decrement(t) \/ TestFull(t)
  \/ Erase(t) \/ SkipLoad(t) \/ SkipTest(t) \/ SkipStore(t) \/ Move(t)

Begin(t) ==
  \/ \E n \in Sizes : BeginAllocate(t, n)
  \/ \E b \in blocks : BeginDeallocate(t, b)

Next == \E t \in Thread : Begin(t) \/ ThreadStep(t)

\* Threads are scheduled, and call allocate and deallocate as they like.
Spec == Init /\ [][Next]_vars
FairSpec == Spec /\ \A t \in Thread : WF_vars(ThreadStep(t))

-----------------------------------------------------------------------------
(***************************************************************************)
(* Properties.                                                             *)
(***************************************************************************)

\* Blocks on their way into use, and on their way back to their chunk.
Taken == {blk[t] : t \in {u \in Thread : pc[u] = "count"}}
Returning == {blk[t] : t \in {u \in Thread : pc[u] # "count" /\ blk[u] # NoBlock}}
Used == blocks \union Returning

Overlap(a, b) ==
  a.chunk = b.chunk /\ a.ptr < b.ptr + b.len /\ b.ptr < a.ptr + a.len

\* However many threads move next_addr down at once, blocks in use do not
\* overlap each other or leave the data of their chunk; and until a chunk is
\* erased, its count is the number of its blocks in use.
BlocksExact ==
  /\ \A a, b \in Used \union Taken : a # b => ~ Overlap(a, b)
  /\ \A b \in Used \union Taken : b.ptr >= 0 /\ b.ptr + b.len <= Usable
  /\ \A c \in Chunk : ~ deleted[c] => count[c] = Cardinality({b \in Used : b.chunk = c})

\* A chunk with a block in use stays in the list, where deallocate finds it and
\* a shared_ptr keeps its memory, unless the block was counted too late: after
\* another thread has found the chunk empty and before it has erased it.
\* An erased chunk has no space for new blocks.
UsedStaysInList ==
  /\ \A b \in Used \ raced : ~ deleted[b.chunk] /\ Reaches(head, b.chunk)
  /\ \A c \in Chunk : deleted[c] => next_addr[c] <= 0

\* A call of allocate for more than the data of a chunk that was not refused,
\* as it is for no more than the capacity.  No chunk has space for it.
Oversize(t) == size[t] > Usable

\* Whatever fits into a chunk gets into one that is added for it, unless other
\* threads fill that up first: a call of allocate adds no more than one chunk
\* per thread.  The loop of an oversize call is the one exception.
ChunksBounded ==
  head <= allocs * Cardinality(Thread) \/ \E t \in Thread : Oversize(t)

\* allocate and deallocate return, unless a thread is in an oversize call: it
\* adds chunks for ever, and takes the space of each from the others.
OperationsReturn ==
  \A t \in Thread : (pc[t] # "idle") ~> (pc[t] = "idle" \/ \E u \in Thread : Oversize(u))
=============================================================================
