--------------------------- MODULE ConcurrentQueue ---------------------------
(***************************************************************************)
(* moodycamel::ConcurrentQueue as task::Queue uses it: enqueue through the *)
(* implicit producer of the calling thread, try_dequeue by any thread.     *)
(*                                                                         *)
(* Every producer has a list of blocks of BlockSize elements, found through *)
(* a block index that grows.  A block all of whose elements are taken goes *)
(* back to the queue: a block of the initial pool to a lock-free free list, *)
(* another one to the heap.  Which producer a thread gets is the subject   *)
(* of ImplicitProducers: here producer p is the one of thread p.           *)
(*                                                                         *)
(* One action is one atomic operation on shared state; loads whose value   *)
(* only says whether an attempt is worth while are merged with the next    *)
(* one.  Indices are unsigned integers that wrap: they count modulo        *)
(* IndexRange.                                                             *)
(***************************************************************************)
EXTENDS Integers, Sequences, FiniteSets

CONSTANTS
  N,             \* number of threads
  Enqueues,      \* bound: how many elements every thread enqueues
  Dequeuers,     \* threads that call try_dequeue
  BlockSize,     \* BLOCK_SIZE
  IndexRange,    \* number of values of index_t
  IndexSize,     \* IMPLICIT_INITIAL_INDEX_SIZE
  PoolSize,      \* number of blocks of the initial pool
  MaxBlock,      \* bound: number of blocks there can be at once
  MaxFailures,   \* bound: how often an allocation fails
  StartIndex     \* tail and head of the producers of a queue that has been in use

Thread == 1..N
PowerOfTwo == {1, 2, 4, 8, 16, 32}

ASSUME QueueAssumption ==
  /\ N \in Nat
  /\ Enqueues \in [Thread -> Nat] /\ Dequeuers \subseteq Thread
  /\ {IndexRange, IndexSize} \subseteq PowerOfTwo /\ BlockSize \in PowerOfTwo \ {1}
  /\ {PoolSize, MaxBlock, MaxFailures} \subseteq Nat /\ PoolSize <= MaxBlock
  /\ StartIndex \in 0..(IndexRange - 1) /\ StartIndex % BlockSize = 0
  \* circular_less_than compares indices that are less than half the range apart
  /\ \A t \in Thread : Enqueues[t] + BlockSize < IndexRange \div 2

Block == 1..MaxBlock
NoBlock == 0
Garbage == <<0, 0>>           \* what a slot holds that has no element
Invalid == 1                  \* INVALID_BLOCK_BASE

VARIABLES
  \* producers
  tailIndex, headIndex, dequeueOptimisticCount, dequeueOvercommit,
  tailBlock,
  headers,         \* the block indexes, the current one last: tail and index
  entries,         \* block index entries: key and value
  \* blocks
  elements, elementsCompletelyDequeued,
  freeListRefs,    \* count and the SHOULD_BE_ON_FREELIST bit
  freeListNext, freeListHead,
  initialBlockPoolIndex,
  heap,            \* the blocks beyond the initial pool that are allocated
  failures,        \* allocations that have failed
  destroyed,       \* has the queue been destroyed?
  th,              \* threads: program counter and local variables
  \* history
  written,         \* number of elements every producer has published
  claimed          \* number of indices that have been taken from headIndex

prodVars == <<tailIndex, tailBlock, headers>>
deqVars == <<headIndex, dequeueOptimisticCount, dequeueOvercommit, claimed>>
blockVars == <<elements, elementsCompletelyDequeued>>
listVars == <<freeListRefs, freeListNext, freeListHead>>
memVars == <<initialBlockPoolIndex, heap, failures, destroyed>>
vars == <<prodVars, deqVars, entries, blockVars, listVars, memVars, th, written>>

\* A thread outside of the queue.
Idle == [pc |-> "idle", p |-> 0, tried |-> {}, over |-> 0, count |-> 0, index |-> 0, n |-> 0,
         header |-> 0, tail |-> 0, entry |-> 0, block |-> NoBlock, item |-> Garbage,
         head |-> NoBlock, next |-> NoBlock, ret |-> ""]

PC == {"idle", "pool", "pool_take", "get_head", "get_ref", "get_next", "get_cas", "get_got",
       "get_lost", "create", "attach", "write", "publish", "check", "add", "confirm", "claim",
       "over", "find", "base", "take", "set_empty", "release", "free_add", "link", "link_cas",
       "link_lost"}

Modulo(i) == i % IndexRange

TypeOK ==
  /\ {tailIndex, headIndex, dequeueOptimisticCount, dequeueOvercommit}
       \subseteq [Thread -> 0..(IndexRange - 1)]
  /\ tailBlock \in [Thread -> Block \union {NoBlock}]
  /\ \A p \in Thread :
       /\ headers[p] # <<>>
       /\ \A h \in DOMAIN headers[p] : headers[p][h].tail \in DOMAIN headers[p][h].index
       /\ \A e \in DOMAIN entries[p] : entries[p][e].value \in Block \union {NoBlock}
  /\ elements \in [Block -> [0..(BlockSize - 1) -> {Garbage} \union (Thread \X Nat)]]
  /\ elementsCompletelyDequeued \in [Block -> 0..BlockSize]
  /\ freeListRefs \in [Block -> [count : Nat, should : BOOLEAN]]
  /\ freeListNext \in [Block -> Block \union {NoBlock}]
  /\ freeListHead \in Block \union {NoBlock}
  /\ initialBlockPoolIndex \in Nat
  /\ heap \subseteq (PoolSize + 1)..MaxBlock
  /\ failures \in 0..MaxFailures /\ destroyed \in BOOLEAN
  /\ \A t \in Thread : th[t].pc \in PC /\ DOMAIN th[t] = DOMAIN Idle
  /\ written \in [Thread -> Nat] /\ claimed \in [Thread -> Nat]

\* The constructor: an empty queue with an unused pool; or a queue that has been in use,
\* with all blocks of the pool on the free list and producers at the end of a block.
Init ==
  \E start \in {0, StartIndex} :
    LET used == start # 0 IN
    /\ tailIndex = [p \in Thread |-> start] /\ headIndex = [p \in Thread |-> start]
    /\ dequeueOptimisticCount = [p \in Thread |-> start]
    /\ dequeueOvercommit = [p \in Thread |-> 0]
    /\ tailBlock = [p \in Thread |-> NoBlock]
    /\ headers = [p \in Thread |-> <<[tail |-> IndexSize - 1,
                                       index |-> [i \in 0..(IndexSize - 1) |-> i + 1]]>>]
    /\ entries = [p \in Thread |-> [e \in 1..IndexSize |->
         [key |-> IF used THEN Modulo(start - (IndexSize + 1 - e) * BlockSize) ELSE Invalid,
          value |-> NoBlock]]]
    /\ elements = [b \in Block |-> [i \in 0..(BlockSize - 1) |-> Garbage]]
    /\ elementsCompletelyDequeued = [b \in Block |-> IF used /\ b <= PoolSize THEN BlockSize ELSE 0]
    /\ freeListRefs = [b \in Block |-> [count |-> IF used /\ b <= PoolSize THEN 1 ELSE 0,
                                         should |-> FALSE]]
    /\ freeListNext = [b \in Block |-> IF used /\ b < PoolSize THEN b + 1 ELSE NoBlock]
    /\ freeListHead = IF used /\ PoolSize > 0 THEN 1 ELSE NoBlock
    /\ initialBlockPoolIndex = IF used THEN PoolSize ELSE 0
    /\ heap = {} /\ failures = 0 /\ destroyed = FALSE
    /\ th = [t \in Thread |-> Idle]
    /\ written = [p \in Thread |-> 0] /\ claimed = [p \in Thread |-> 0]

-----------------------------------------------------------------------------
\* circular_less_than
Less(a, b) == Modulo(a - b) > IndexRange \div 2

\* The difference of two indices as a signed integer.
Signed(a, b) == IF Modulo(a - b) < IndexRange \div 2 THEN Modulo(a - b)
                                                     ELSE Modulo(a - b) - IndexRange

InBlock(i) == i % BlockSize
Base(i) == i - InBlock(i)
Last(s) == s[Len(s)]

Set(t, r) == th' = [th EXCEPT ![t] = r]
Goto(t, p) == th' = [th EXCEPT ![t].pc = p]
Return(t) == th' = [th EXCEPT ![t] = Idle]

-----------------------------------------------------------------------------
(***************************************************************************)
(* ImplicitProducer::enqueue.                                              *)
(***************************************************************************)
\* new_block_index: twice the capacity; the old entries, the oldest first, then new ones.
Grown(p) ==
  LET old == Last(headers[p])
      cap == Cardinality(DOMAIN old.index)
  IN  [tail |-> cap - 1,
       index |-> [i \in 0..(2 * cap - 1) |->
                    IF i < cap THEN old.index[(old.tail + 1 + i) % cap]
                               ELSE Len(entries[p]) + 1 + i - cap]]

Advanced(h) == [h EXCEPT !.tail = (@ + 1) % Cardinality(DOMAIN h.index)]

\* rewind_block_index_tail
Rewound(h) == [h EXCEPT !.tail = (@ - 1) % Cardinality(DOMAIN h.index)]

\* The entry of the block index that comes next.
NextEntry(p) == LET h == Advanced(Last(headers[p])) IN h.index[h.tail]

IsFree(entry) == entry.key = Invalid \/ entry.value = NoBlock

\* insert_block_index_entry: the next entry if it is free, and else one of a larger index.
InsertBlockIndexEntry(p) ==
  LET old == Advanced(Last(headers[p]))
      new == Advanced(Grown(p))
      e == NextEntry(p)
      f == new.index[new.tail]
  IN  IF IsFree(entries[p][e])
        THEN /\ headers' = [headers EXCEPT ![p][Len(headers[p])] = old]
             /\ entries' = [entries EXCEPT ![p][e].key = tailIndex[p]]
             /\ Set(p, [Idle EXCEPT !.pc = "pool", !.entry = e])
        ELSE /\ headers' = [headers EXCEPT ![p] = Append(@, new)]
             /\ entries' = [entries EXCEPT ![p] =
                  [i \in 1..Len(@) + Cardinality(DOMAIN old.index) |->
                     [key |-> IF i = f THEN tailIndex[p]
                              ELSE IF i <= Len(@) THEN @[i].key ELSE Invalid,
                      value |-> IF i <= Len(@) THEN @[i].value ELSE NoBlock]]]
             /\ Set(p, [Idle EXCEPT !.pc = "pool", !.entry = f])

\* At the end of a block a new one is needed.
Enqueue(t) ==
  /\ ~ destroyed /\ th[t].pc = "idle" /\ written[t] < Enqueues[t]
  /\ IF InBlock(tailIndex[t]) = 0
       THEN /\ Less(headIndex[t], tailIndex[t] + BlockSize)
            /\ InsertBlockIndexEntry(t)
            /\ UNCHANGED <<tailIndex, tailBlock>>
       ELSE Goto(t, "write") /\ UNCHANGED <<prodVars, entries>>
  /\ UNCHANGED <<deqVars, blockVars, listVars, memVars, written>>

\* There is no memory for a larger block index: enqueue returns false.
IndexFails(t) ==
  /\ ~ destroyed /\ th[t].pc = "idle" /\ written[t] < Enqueues[t] /\ failures < MaxFailures
  /\ InBlock(tailIndex[t]) = 0 /\ Less(headIndex[t], tailIndex[t] + BlockSize)
  /\ ~ IsFree(entries[t][NextEntry(t)])
  /\ failures' = failures + 1
  /\ UNCHANGED <<prodVars, deqVars, entries, blockVars, listVars, initialBlockPoolIndex, heap,
                 destroyed, th, written>>

\* try_get_block_from_initial_pool: a load ...
TestPool(t) ==
  /\ th[t].pc = "pool"
  /\ Goto(t, IF initialBlockPoolIndex >= PoolSize THEN "get_head" ELSE "pool_take")
  /\ UNCHANGED <<prodVars, deqVars, entries, blockVars, listVars, memVars, written>>

\* ... and a fetch_add.
TakeFromPool(t) ==
  /\ th[t].pc = "pool_take"
  /\ initialBlockPoolIndex' = initialBlockPoolIndex + 1
  /\ IF initialBlockPoolIndex < PoolSize
       THEN Set(t, [th[t] EXCEPT !.pc = "attach", !.block = initialBlockPoolIndex + 1])
       ELSE Goto(t, "get_head")
  /\ UNCHANGED <<prodVars, deqVars, entries, blockVars, listVars, heap, failures, destroyed, written>>

\* requisition_block, when the free list is empty: a new block of the heap.
Create(t) ==
  /\ th[t].pc = "create"
  /\ \E b \in ((PoolSize + 1)..MaxBlock) \ heap :
       /\ \A c \in ((PoolSize + 1)..MaxBlock) \ heap : b <= c
       /\ heap' = heap \union {b}
       /\ Set(t, [th[t] EXCEPT !.pc = "attach", !.block = b])
  /\ UNCHANGED <<prodVars, deqVars, entries, blockVars, listVars, initialBlockPoolIndex, failures,
                 destroyed, written>>

\* There is no memory for it: undo insert_block_index_entry, and enqueue returns false.
CreateFails(t) ==
  /\ th[t].pc = "create" /\ failures < MaxFailures
  /\ failures' = failures + 1
  /\ headers' = [headers EXCEPT ![t][Len(headers[t])] = Rewound(@)]
  /\ entries' = [entries EXCEPT ![t][th[t].entry].value = NoBlock]
  /\ Return(t)
  /\ UNCHANGED <<tailIndex, tailBlock, deqVars, blockVars, listVars, initialBlockPoolIndex, heap,
                 destroyed, written>>

\* reset_empty, and enter the block into the block index.
Attach(t) ==
  /\ th[t].pc = "attach"
  /\ elementsCompletelyDequeued' = [elementsCompletelyDequeued EXCEPT ![th[t].block] = 0]
  /\ entries' = [entries EXCEPT ![t][th[t].entry].value = th[t].block]
  /\ tailBlock' = [tailBlock EXCEPT ![t] = th[t].block]
  /\ Set(t, [Idle EXCEPT !.pc = "write"])
  /\ UNCHANGED <<tailIndex, headers, deqVars, elements, listVars, memVars, written>>

\* Construct the element in the tail block, ...
Write(t) ==
  /\ th[t].pc = "write"
  /\ elements' = [elements EXCEPT ![tailBlock[t]][InBlock(tailIndex[t])] = <<t, written[t] + 1>>]
  /\ Goto(t, "publish")
  /\ UNCHANGED <<prodVars, deqVars, entries, elementsCompletelyDequeued, listVars, memVars,
                 written>>

\* ... then store tailIndex.
Publish(t) ==
  /\ th[t].pc = "publish"
  /\ tailIndex' = [tailIndex EXCEPT ![t] = Modulo(@ + 1)]
  /\ written' = [written EXCEPT ![t] = @ + 1]
  /\ Return(t)
  /\ UNCHANGED <<tailBlock, headers, deqVars, entries, blockVars, listVars, memVars>>

-----------------------------------------------------------------------------
(***************************************************************************)
(* FreeList::try_get.                                                      *)
(***************************************************************************)
\* What comes when head has been loaded.
Tested(t, r) ==
  IF r.head = NoBlock THEN [r EXCEPT !.pc = "create", !.block = NoBlock]
                      ELSE [r EXCEPT !.pc = "get_ref", !.block = NoBlock]

GetHead(t) ==
  /\ th[t].pc = "get_head"
  /\ Set(t, Tested(t, [th[t] EXCEPT !.head = freeListHead]))
  /\ UNCHANGED <<prodVars, deqVars, entries, blockVars, listVars, memVars, written>>

\* Take a reference, unless there is none: then the node is off the list.
GetRef(t) ==
  /\ th[t].pc = "get_ref"
  /\ LET b == th[t].head IN
       IF freeListRefs[b].count = 0
         THEN Goto(t, "get_head") /\ UNCHANGED freeListRefs
         ELSE Goto(t, "get_next")
              /\ freeListRefs' = [freeListRefs EXCEPT ![b].count = @ + 1]
  /\ UNCHANGED <<prodVars, deqVars, entries, blockVars, freeListNext, freeListHead, memVars,
                 written>>

GetNext(t) ==
  /\ th[t].pc = "get_next"
  /\ Set(t, [th[t] EXCEPT !.pc = "get_cas", !.next = freeListNext[th[t].head]])
  /\ UNCHANGED <<prodVars, deqVars, entries, blockVars, listVars, memVars, written>>

\* compare_exchange of freeListHead; if it fails, head is what was found there.
GetCAS(t) ==
  /\ th[t].pc = "get_cas"
  /\ LET b == th[t].head IN
       IF freeListHead = b
         THEN /\ freeListHead' = th[t].next
              /\ Set(t, [th[t] EXCEPT !.pc = "get_got", !.block = b, !.head = NoBlock, !.next = NoBlock])
         ELSE /\ Set(t, [th[t] EXCEPT !.pc = "get_lost", !.block = b, !.head = freeListHead,
                                      !.next = NoBlock])
              /\ UNCHANGED freeListHead
  /\ UNCHANGED <<prodVars, deqVars, entries, blockVars, freeListRefs, freeListNext, memVars,
                 written>>

\* Give up the own reference and that of the list.
GetGot(t) ==
  /\ th[t].pc = "get_got"
  /\ freeListRefs' = [freeListRefs EXCEPT ![th[t].block].count = @ - 2]
  /\ Goto(t, "attach")
  /\ UNCHANGED <<prodVars, deqVars, entries, blockVars, freeListNext, freeListHead, memVars,
                 written>>

\* Mutant of GetLost: the block somebody has left to this thread is not put back.
GetLostOnly(t) ==
  /\ th[t].pc = "get_lost"
  /\ freeListRefs' = [freeListRefs EXCEPT ![th[t].block].count = @ - 1]
  /\ Set(t, Tested(t, th[t]))
  /\ UNCHANGED <<prodVars, deqVars, entries, blockVars, freeListNext, freeListHead, memVars,
                 written>>

\* Give up the own reference; the last one puts back a block that should be on the list.
GetLost(t) ==
  /\ th[t].pc = "get_lost"
  /\ LET r == freeListRefs[th[t].block] IN
       /\ freeListRefs' = [freeListRefs EXCEPT ![th[t].block].count = @ - 1]
       /\ IF r.should /\ r.count = 1
            THEN Set(t, [th[t] EXCEPT !.pc = "link", !.next = freeListHead, !.ret = "get"])
            ELSE Set(t, Tested(t, th[t]))
  /\ UNCHANGED <<prodVars, deqVars, entries, blockVars, freeListNext, freeListHead, memVars,
                 written>>

-----------------------------------------------------------------------------
(***************************************************************************)
(* FreeList::add and add_knowing_refcount_is_zero, which starts by loading *)
(* freeListHead (here into next).                                          *)
(***************************************************************************)
FreeAdd(t) ==
  /\ th[t].pc = "free_add"
  /\ freeListRefs' = [freeListRefs EXCEPT ![th[t].block].should = TRUE]
  /\ IF freeListRefs[th[t].block].count = 0
       THEN Set(t, [th[t] EXCEPT !.pc = "link", !.next = freeListHead, !.ret = "return"])
       ELSE Return(t)
  /\ UNCHANGED <<prodVars, deqVars, entries, blockVars, freeListNext, freeListHead, memVars,
                 written>>

AfterLink(t) ==
  IF th[t].ret = "return" THEN Idle ELSE Tested(t, [th[t] EXCEPT !.next = NoBlock, !.ret = ""])

\* Store the next pointer, then set the reference count to one and clear the flag.
Link(t) ==
  /\ th[t].pc = "link"
  /\ freeListNext' = [freeListNext EXCEPT ![th[t].block] = th[t].next]
  /\ freeListRefs' = [freeListRefs EXCEPT ![th[t].block] = [count |-> 1, should |-> FALSE]]
  /\ Goto(t, "link_cas")
  /\ UNCHANGED <<prodVars, deqVars, entries, blockVars, freeListHead, memVars, written>>

LinkCAS(t) ==
  /\ th[t].pc = "link_cas"
  /\ IF freeListHead = th[t].next
       THEN freeListHead' = th[t].block /\ Set(t, AfterLink(t))
       ELSE /\ Set(t, [th[t] EXCEPT !.pc = "link_lost", !.next = freeListHead])
            /\ UNCHANGED freeListHead
  /\ UNCHANGED <<prodVars, deqVars, entries, blockVars, freeListRefs, freeListNext, memVars,
                 written>>

\* fetch_add(SHOULD_BE_ON_FREELIST - 1): try again if nobody else has a reference.
LinkLost(t) ==
  /\ th[t].pc = "link_lost"
  /\ LET r == freeListRefs[th[t].block] IN
       /\ freeListRefs' = [freeListRefs EXCEPT ![th[t].block] =
                             [count |-> r.count - 1, should |-> TRUE]]
       /\ IF r.count = 1 THEN Goto(t, "link") ELSE Set(t, AfterLink(t))
  /\ UNCHANGED <<prodVars, deqVars, entries, blockVars, freeListNext, freeListHead, memVars,
                 written>>

-----------------------------------------------------------------------------
(***************************************************************************)
(* ConcurrentQueue::try_dequeue and ImplicitProducer::dequeue.             *)
(***************************************************************************)
Size(p) == IF Less(headIndex[p], tailIndex[p]) THEN Modulo(tailIndex[p] - headIndex[p]) ELSE 0

\* The producers that are scored: of those that seem non-empty, the first three in the
\* list, which is in the order of age with the youngest producer first.
Scored == {p \in Thread : Size(p) > 0 /\ Cardinality({q \in Thread : q > p /\ Size(q) > 0}) < 3}

IsBest(p) ==
  /\ p \in Scored
  /\ \A q \in Scored : Size(q) < Size(p) \/ (Size(q) = Size(p) /\ q <= p)

\* try_dequeue tries the best one first.  It returns at once if all seem empty.
TryDequeue(t) ==
  /\ ~ destroyed /\ th[t].pc = "idle" /\ t \in Dequeuers
  /\ \E p \in Thread : IsBest(p) /\ Set(t, [Idle EXCEPT !.pc = "check", !.p = p, !.tried = {p}])
  /\ UNCHANGED <<prodVars, deqVars, entries, blockVars, listVars, memVars, written>>

\* dequeue has failed: the next producer of the list, or nothing.
NextProducer(t) ==
  LET rest == Thread \ th[t].tried IN
  IF rest = {} THEN Idle
  ELSE LET q == CHOOSE q \in rest : \A o \in rest : o <= q
       IN  [Idle EXCEPT !.pc = "check", !.p = q, !.tried = th[t].tried \union {q}]

\* Is there an element that nobody has reserved?  dequeueOvercommit is kept.
Check(t) ==
  /\ th[t].pc = "check"
  /\ LET p == th[t].p IN
       Set(t, IF Less(Modulo(dequeueOptimisticCount[p] - dequeueOvercommit[p]), tailIndex[p])
                THEN [th[t] EXCEPT !.pc = "add", !.over = dequeueOvercommit[p]]
                ELSE NextProducer(t))
  /\ UNCHANGED <<prodVars, deqVars, entries, blockVars, listVars, memVars, written>>

\* Reserve one.
Reserve(t) ==
  /\ th[t].pc = "add"
  /\ LET p == th[t].p IN
       /\ Set(t, [th[t] EXCEPT !.pc = "confirm", !.count = dequeueOptimisticCount[p]])
       /\ dequeueOptimisticCount' = [dequeueOptimisticCount EXCEPT ![p] = Modulo(@ + 1)]
  /\ UNCHANGED <<prodVars, headIndex, dequeueOvercommit, claimed, entries, blockVars, listVars,
                 memVars, written>>

\* Mutant of Confirm: the second look at tailIndex is left out.
ConfirmUnseen(t) ==
  /\ th[t].pc = "confirm"
  /\ Goto(t, "claim")
  /\ UNCHANGED <<prodVars, deqVars, entries, blockVars, listVars, memVars, written>>

\* Is there still one for this thread?
Confirm(t) ==
  /\ th[t].pc = "confirm"
  /\ Goto(t, IF Less(Modulo(th[t].count - th[t].over), tailIndex[th[t].p]) THEN "claim" ELSE "over")
  /\ UNCHANGED <<prodVars, deqVars, entries, blockVars, listVars, memVars, written>>

\* Mutant of Overcommit: the reservation is not given back.
OvercommitNothing(t) ==
  /\ th[t].pc = "over"
  /\ Set(t, NextProducer(t))
  /\ UNCHANGED <<prodVars, deqVars, entries, blockVars, listVars, memVars, written>>

\* There is not: note that dequeueOptimisticCount is one too high.
Overcommit(t) ==
  /\ th[t].pc = "over"
  /\ dequeueOvercommit' = [dequeueOvercommit EXCEPT ![th[t].p] = Modulo(@ + 1)]
  /\ Set(t, NextProducer(t))
  /\ UNCHANGED <<prodVars, headIndex, dequeueOptimisticCount, claimed, entries, blockVars, listVars,
                 memVars, written>>

\* There is: take the next index.
Claim(t) ==
  /\ th[t].pc = "claim"
  /\ LET p == th[t].p IN
       /\ Set(t, [th[t] EXCEPT !.pc = "find", !.index = headIndex[p], !.n = claimed[p] + 1,
                               !.over = 0, !.count = 0])
       /\ headIndex' = [headIndex EXCEPT ![p] = Modulo(@ + 1)]
       /\ claimed' = [claimed EXCEPT ![p] = @ + 1]
  /\ UNCHANGED <<prodVars, dequeueOptimisticCount, dequeueOvercommit, entries, blockVars, listVars,
                 memVars, written>>

\* get_block_index_index_for_index: the current block index and its tail ...
FindIndex(t) ==
  /\ th[t].pc = "find"
  /\ LET p == th[t].p IN
       Set(t, [th[t] EXCEPT !.pc = "base", !.header = Len(headers[p]), !.tail = Last(headers[p]).tail])
  /\ UNCHANGED <<prodVars, deqVars, entries, blockVars, listVars, memVars, written>>

\* ... the index of the tail entry, and how many blocks before it the element is.
FindEntry(t) ==
  /\ th[t].pc = "base"
  /\ LET p == th[t].p
         h == headers[p][th[t].header]
         offset == Signed(Base(th[t].index), entries[p][h.index[th[t].tail]].key) \div BlockSize
     IN  Set(t, [th[t] EXCEPT !.pc = "take", !.header = 0, !.tail = 0,
                   !.entry = h.index[(th[t].tail + offset) % Cardinality(DOMAIN h.index)]])
  /\ UNCHANGED <<prodVars, deqVars, entries, blockVars, listVars, memVars, written>>

\* Move the element out of its block and destroy it.
Take(t) ==
  /\ th[t].pc = "take"
  /\ LET p == th[t].p
         b == entries[p][th[t].entry].value
         i == InBlock(th[t].index)
     IN  /\ b # NoBlock
         /\ Set(t, [th[t] EXCEPT !.pc = "set_empty", !.block = b, !.item = elements[b][i]])
         /\ elements' = [elements EXCEPT ![b][i] = Garbage]
  /\ UNCHANGED <<prodVars, deqVars, entries, elementsCompletelyDequeued, listVars, memVars, written>>

\* Block::set_empty: the thread that takes the last element of a block releases it.
SetEmpty(t) ==
  /\ th[t].pc = "set_empty"
  /\ LET b == th[t].block IN
       /\ elementsCompletelyDequeued' = [elementsCompletelyDequeued EXCEPT ![b] = @ + 1]
       /\ IF elementsCompletelyDequeued[b] = BlockSize - 1
            THEN Set(t, [Idle EXCEPT !.pc = "release", !.p = th[t].p, !.entry = th[t].entry,
                                     !.block = b])
            ELSE Return(t)
  /\ UNCHANGED <<prodVars, deqVars, entries, elements, listVars, memVars, written>>

\* A block of the pool goes to the free list, another one to the heap.
AddBlockToFreeList(t, b) ==
  IF b <= PoolSize
    THEN Set(t, [Idle EXCEPT !.pc = "free_add", !.block = b]) /\ UNCHANGED heap
    ELSE Return(t) /\ heap' = heap \ {b}

\* Remove it from the block index, then put it back.
Release(t) ==
  /\ th[t].pc = "release"
  /\ entries' = [entries EXCEPT ![th[t].p][th[t].entry].value = NoBlock]
  /\ AddBlockToFreeList(t, th[t].block)
  /\ UNCHANGED <<prodVars, deqVars, blockVars, listVars, initialBlockPoolIndex, failures,
                 destroyed, written>>

-----------------------------------------------------------------------------
(***************************************************************************)
(* The destructors: the blocks that still hold elements, and the tail      *)
(* block unless it has been released.                                      *)
(***************************************************************************)
Undequeued(p) == {Modulo(headIndex[p] + k) : k \in 0..(Modulo(tailIndex[p] - headIndex[p]) - 1)}

TailBlockKept(p) ==
  tailBlock[p] # NoBlock /\ (Undequeued(p) # {} \/ InBlock(tailIndex[p]) # 0)

FreedBlocks(p) ==
  {b \in Block : \E i \in Undequeued(p), e \in DOMAIN entries[p] :
     entries[p][e] = [key |-> Base(i), value |-> b] /\ b # tailBlock[p]}
  \union IF TailBlockKept(p) THEN {tailBlock[p]} ELSE {}

\* No thread uses the queue any more.
Destroy ==
  /\ ~ destroyed /\ \A t \in Thread : th[t].pc = "idle"
  /\ destroyed' = TRUE
  /\ LET freed == UNION {FreedBlocks(p) : p \in Thread} IN
       /\ heap' = heap \ freed
       /\ entries' = [p \in Thread |-> [e \in DOMAIN entries[p] |->
            IF entries[p][e].value \in FreedBlocks(p)
              THEN [entries[p][e] EXCEPT !.value = NoBlock] ELSE entries[p][e]]]
  /\ UNCHANGED <<prodVars, deqVars, blockVars, listVars, initialBlockPoolIndex, failures, th,
                 written>>

Ended == destroyed /\ UNCHANGED vars

-----------------------------------------------------------------------------
ThreadStep(t) ==
  \/ Enqueue(t) \/ IndexFails(t) \/ TestPool(t) \/ TakeFromPool(t) \/ Create(t) \/ CreateFails(t)
  \/ Attach(t) \/ Write(t) \/ Publish(t)
  \/ GetHead(t) \/ GetRef(t) \/ GetNext(t) \/ GetCAS(t) \/ GetGot(t) \/ GetLost(t)
  \/ FreeAdd(t) \/ Link(t) \/ LinkCAS(t) \/ LinkLost(t)
  \/ TryDequeue(t) \/ Check(t) \/ Reserve(t) \/ Confirm(t) \/ Overcommit(t) \/ Claim(t)
  \/ FindIndex(t) \/ FindEntry(t) \/ Take(t) \/ SetEmpty(t) \/ Release(t)

Next == (\E t \in Thread : ThreadStep(t)) \/ Destroy \/ Ended

Spec == Init /\ [][Next]_vars

-----------------------------------------------------------------------------
\* A dequeued element is the one that was enqueued at the index the consumer claimed,
\* and no consumer claims an index whose element is not yet published: elements are
\* neither lost, duplicated nor read before they are written, although consumers reserve
\* optimistically, blocks are reused and indices wrap.
ElementsExact ==
  /\ \A t \in Thread : th[t].pc = "set_empty" => th[t].item = <<th[t].p, th[t].n>>
  /\ \A p \in Thread : claimed[p] <= written[p]

\* The blocks that can be reached from the head of the free list.
Reached[k \in 0..PoolSize] ==
  IF k = 0 THEN {freeListHead} \ {NoBlock}
  ELSE (Reached[k - 1] \union {freeListNext[b] : b \in Reached[k - 1]}) \ {NoBlock}

Holds == {"get_got", "attach", "free_add", "link", "link_cas", "link_lost"}

\* Where a block is: in the unused part of the pool or the heap, on the free list, left
\* to the last thread with a reference, in the hands of a thread, or in a block index.
Places(b) ==
  {x \in {"unused"} : b > PoolSize /\ b \notin heap} \union
  {x \in {"pool"} : b <= PoolSize /\ b > initialBlockPoolIndex} \union
  {x \in {"list"} : b \in Reached[PoolSize]} \union
  {x \in {"flagged"} : freeListRefs[b].should /\ freeListRefs[b].count > 0} \union
  {x \in {"thread"} \X Thread : th[x[2]].pc \in Holds /\ th[x[2]].block = b} \union
  UNION {{<<"producer", p, e>> : e \in {e \in DOMAIN entries[p] : entries[p][e].value = b}} : p \in Thread}

\* Every block is in exactly one place: no block is used by two producers, is used while
\* it is on the free list, or is lost, however the reference counts of the free list race
\* with blocks being put back; and the destructor frees what is left.
BlocksAccounted ==
  \A b \in Block :
    IF destroyed THEN b \notin heap /\ (b \in Reached[PoolSize] => Places(b) = {"list"})
                 ELSE Cardinality(Places(b)) = 1

\* dequeueOptimisticCount, dequeueOvercommit and headIndex differ exactly by the
\* reservations under way, whatever values of dequeueOvercommit the consumers have kept:
\* when no attempt is pending, the next one finds every element that is left.
ReservationsBalance ==
  \A p \in Thread :
    Modulo(dequeueOptimisticCount[p] - dequeueOvercommit[p] - headIndex[p])
      = Cardinality({t \in Thread : th[t].p = p /\ th[t].pc \in {"confirm", "claim", "over"}})
=============================================================================
