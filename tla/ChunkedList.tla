----------------------------- MODULE ChunkedList -----------------------------
(***************************************************************************)
(* ChunkedList (util/chunked_list.hpp) on top of AtomicList, as the users  *)
(* list of a resource: a task pushes itself without a lock; it looks at    *)
(* the tasks before it, and later removes itself, under the users_mutex;   *)
(* it drops its iterator `user_entry' when it is destroyed.  The lists of  *)
(* followers and of accesses are used in the same way without a mutex.     *)
(*                                                                         *)
(* An action is one atomic access.  Items are pairs <<chunk, index>>, and  *)
(* there are at most as many chunks as pushes, and one.  Temporary copies  *)
(* of an iterator made on the way of a return value or an assignment are   *)
(* left out.                                                               *)
(***************************************************************************)
EXTENDS AtomicList, FiniteSets

CONSTANTS
  LockedUsers,     \* bound: users of a list that is used with a mutex ...
  UnlockedUsers,   \* ... and without
  ChunkSize        \* T_chunk_size

ASSUME ListAssumption ==
  /\ LockedUsers \in Nat /\ UnlockedUsers \in Nat
  /\ ChunkSize \in Nat \ {0}
  /\ MaxChunk > LockedUsers /\ MaxChunk > UnlockedUsers

MaxUser == IF LockedUsers > UnlockedUsers THEN LockedUsers ELSE UnlockedUsers
User == 1..MaxUser                  \* in the order in which they come
Index == 0..(ChunkSize - 1)
Item == Chunk \X Index

NoUser == 0
NoItem == <<NoChunk, -1>>           \* rend()
Raw == 0                            \* storage without a value ...
Destroyed == -1                     \* ... and after its destructor

VARIABLES
  \* Chunk
  next_item,        \* as an index; beyond ChunkSize after an overflow
  freed_items,
  \* Item
  iter_offset, refcount,
  value,            \* the user stored in it, Raw or Destroyed
  users_mutex,
  locked,           \* are iteration and removal under the users_mutex?
  \* users
  pc,
  at,               \* the item the user's push or iterator is at
  step,             \* what acquire() has read of iter_offset
  user_entry,       \* the iterator to its own item
  \* history
  before,           \* users whose push had returned when this one's push began
  seen,             \* users that its iteration has come across
  raced             \* users jumped over by an offset computed before they were there

chunkVars == <<next_item, freed_items>>
itemVars == <<iter_offset, refcount, value>>
lockVars == <<users_mutex, locked>>
history == <<before, seen, raced>>
vars == <<listVars, chunkVars, itemVars, lockVars, pc, at, step, user_entry, history>>

PushPcs == {"head", "first", "check", "slot", "alloc", "write", "enter"}
AcquirePcs == {"load_offset", "load_refcount", "add", "reload", "sub"}
ScanPcs == {"visit", "end"}
RemovePcs == {"drop", "free"}

TypeOK ==
  /\ ListTypeOK
  /\ next_item \in [Chunk -> 0..(ChunkSize + MaxUser)]
  /\ freed_items \in [Chunk -> 0..ChunkSize]
  /\ iter_offset \in [Item -> 0..ChunkSize]
  /\ refcount \in [Item -> (-1 - MaxUser)..(2 * MaxUser)]
  /\ value \in [Item -> User \union {Raw, Destroyed}]
  /\ users_mutex \in User \union {NoUser} /\ locked \in BOOLEAN
  /\ pc \in [User -> {"idle", "pushed", "scanned", "removed", "done", "thrown"}
                       \union PushPcs \union AcquirePcs \union ScanPcs \union RemovePcs]
  /\ at \in [User -> Item \union {NoItem} \union (Chunk \X {-1})]
  /\ step \in [User -> 0..ChunkSize]
  /\ user_entry \in [User -> Item \union {NoItem}]
  /\ before \in [User -> SUBSET User] /\ seen \in [User -> SUBSET User]
  /\ raced \subseteq User

\* The list is empty, or one item of its first chunk has come and gone.
Init ==
  \E used \in {0, 1} :
    /\ head = used
    /\ prev = [c \in Chunk |-> NoChunk]
    /\ deleted = [c \in Chunk |-> used = ChunkSize /\ c = head]
    /\ next_item = [c \in Chunk |-> IF c = head THEN used ELSE 0]
    /\ freed_items = [c \in Chunk |-> IF c = head THEN used ELSE 0]
    /\ iter_offset = [x \in Item |-> 1]
    /\ refcount = [x \in Item |-> IF x = <<head, 0>> THEN -1 ELSE 0]
    /\ value = [x \in Item |-> IF x = <<head, 0>> THEN Destroyed ELSE Raw]
    /\ users_mutex = NoUser /\ locked \in BOOLEAN
    /\ pc = [u \in User |-> "idle"]
    /\ at = [u \in User |-> NoItem]
    /\ step = [u \in User |-> 0]
    /\ user_entry = [u \in User |-> NoItem]
    /\ before = [u \in User |-> {}]
    /\ seen = [u \in User |-> {}]
    /\ raced = {}

Goto(u, from, to) == pc[u] = from /\ pc' = [pc EXCEPT ![u] = to]
MoveTo(u, x) == at' = [at EXCEPT ![u] = x]

-----------------------------------------------------------------------------
\* push

Pushed(u) == user_entry[u] # NoItem

Coming == {u \in User : /\ u <= (IF locked THEN LockedUsers ELSE UnlockedUsers)
                        /\ pc[u] = "idle"}

BeginPush(u) ==
  /\ Goto(u, "idle", "head")
  /\ u \in Coming /\ \A v \in Coming : u <= v
  /\ before' = [before EXCEPT ![u] = {v \in User : Pushed(v)}]
  /\ UNCHANGED <<listVars, chunkVars, itemVars, lockVars, at, step, user_entry,
                 seen, raced>>

\* chunks.rbegin()
LoadHead(u) ==
  /\ Goto(u, "head", IF head = NoChunk THEN "first" ELSE "check")
  /\ MoveTo(u, <<head, -1>>)
  /\ UNCHANGED <<listVars, chunkVars, itemVars, lockVars, step, user_entry, history>>

\* Of several threads that find the list empty one succeeds; the others throw
\* their chunk away.
TryAllocateFirst(u) ==
  /\ Goto(u, "first", "head")
  /\ IF head = NoChunk THEN AppendItem ELSE UNCHANGED listVars
  /\ UNCHANGED <<chunkVars, itemVars, lockVars, at, step, user_entry, history>>

\* Is there a chance to get a slot?
CheckSpace(u) ==
  /\ Goto(u, "check", IF next_item[at[u][1]] <= ChunkSize THEN "slot" ELSE "head")
  /\ UNCHANGED <<listVars, chunkVars, itemVars, lockVars, at, step, user_entry, history>>

\* Mutant of TakeSlot: nobody feels responsible for the next chunk.
TakeSlotOrWait(u) ==
  LET c == at[u][1]
      n == next_item[c]
  IN  /\ Goto(u, "slot", IF n < ChunkSize THEN "write" ELSE "head")
      /\ next_item' = [next_item EXCEPT ![c] = n + 1]
      /\ MoveTo(u, IF n < ChunkSize THEN <<c, n>> ELSE <<c, -1>>)
      /\ UNCHANGED <<listVars, freed_items, itemVars, lockVars, step, user_entry, history>>

\* next_item.fetch_add(1): a slot; or the first overflow, which has to allocate;
\* or a later one, which waits for the allocation.
TakeSlot(u) ==
  LET c == at[u][1]
      n == next_item[c]
  IN  /\ Goto(u, "slot", IF n < ChunkSize THEN "write"
                         ELSE IF n = ChunkSize THEN "alloc" ELSE "head")
      /\ next_item' = [next_item EXCEPT ![c] = n + 1]
      /\ MoveTo(u, IF n < ChunkSize THEN <<c, n>> ELSE <<c, -1>>)
      /\ UNCHANGED <<listVars, freed_items, itemVars, lockVars, step, user_entry, history>>

AllocateChunk(u) ==
  /\ Goto(u, "alloc", "head")
  /\ AppendItem
  /\ UNCHANGED <<chunkVars, itemVars, lockVars, at, step, user_entry, history>>

\* Item::operator=
WriteItem(u) ==
  /\ Goto(u, "write", "enter")
  /\ value' = [value EXCEPT ![at[u]] = u]
  /\ iter_offset' = [iter_offset EXCEPT ![at[u]] = 0]
  /\ UNCHANGED <<listVars, chunkVars, refcount, lockVars, at, step, user_entry, history>>

\* user_entry acquires the item, which nobody else can remove.
AcquireEntry(u) ==
  /\ Goto(u, "enter", "pushed")
  /\ refcount' = [refcount EXCEPT ![at[u]] = @ + 1]
  /\ user_entry' = [user_entry EXCEPT ![u] = at[u]]
  /\ UNCHANGED <<listVars, chunkVars, iter_offset, value, lockVars, at, step, history>>

-----------------------------------------------------------------------------
\* Items and iterators.

\* Mutant of ReleaseItem: one reference too early.
ReleaseItemEarly(x) ==
  /\ refcount[x] >= 0
  /\ refcount' = [refcount EXCEPT ![x] = @ - 1]
  /\ value' = [value EXCEPT ![x] = IF refcount[x] = 1 THEN Destroyed ELSE @]

\* Item::release, unless it throws
ReleaseItem(x) ==
  /\ refcount[x] >= 0
  /\ refcount' = [refcount EXCEPT ![x] = @ - 1]
  /\ value' = [value EXCEPT ![x] = IF refcount[x] = 0 THEN Destroyed ELSE @]

\* get_last_item of the previous chunk; an iterator without a chunk is at its end.
LastItem(c) ==
  IF c = NoChunk THEN NoItem
  ELSE <<c, (IF next_item[c] > ChunkSize THEN ChunkSize ELSE next_item[c]) - 1>>

\* The iterator goes n items back from x, to the next chunk if it has to, and
\* tries to acquire what is there; without a valid position it is at its end.
GoBack(u, x, n) ==
  LET c == x[1]
      i == x[2] - n
      p == NotDeleted[prev[c]]
      y == IF i >= 0 THEN <<c, i>> ELSE LastItem(p)
  IN  /\ at' = [at EXCEPT ![u] = IF y \in Item THEN y ELSE NoItem]
      /\ pc' = [pc EXCEPT ![u] = IF y \in Item THEN "load_offset" ELSE "end"]
      /\ prev' = IF i >= 0 THEN prev ELSE [prev EXCEPT ![c] = p]

\* iter_offset_t off = iter_offset.load()
LoadOffset(u) ==
  /\ Goto(u, "load_offset", "load_refcount")
  /\ step' = [step EXCEPT ![u] = iter_offset[at[u]]]
  /\ UNCHANGED <<listVars, chunkVars, itemVars, lockVars, at, user_entry, history>>

\* refcount_t old_refcount = refcount.load(): try it, or return off, which
\* is 0 for success.
LoadRefcount(u) ==
  /\ pc[u] = "load_refcount"
  /\ \/ /\ step[u] = 0 /\ refcount[at[u]] >= 0
        /\ pc' = [pc EXCEPT ![u] = "add"]
        /\ UNCHANGED <<at, prev>>
     \/ /\ step[u] = 0 /\ refcount[at[u]] < 0
        /\ pc' = [pc EXCEPT ![u] = "visit"]
        /\ UNCHANGED <<at, prev>>
     \/ /\ step[u] > 0
        /\ GoBack(u, at[u], step[u])
  /\ UNCHANGED <<head, deleted, chunkVars, itemVars, lockVars, step, user_entry, history>>

\* old_refcount = refcount.fetch_add(1)
AddReference(u) ==
  /\ Goto(u, "add", "reload")
  /\ refcount' = [refcount EXCEPT ![at[u]] = @ + 1]
  /\ UNCHANGED <<listVars, chunkVars, iter_offset, value, lockVars, at, step,
                 user_entry, history>>

\* off = iter_offset.load().  (A count that was negative before the increment
\* belongs to an item whose offset is set.)
ReloadOffset(u) ==
  /\ Goto(u, "reload", IF iter_offset[at[u]] = 0 THEN "visit" ELSE "sub")
  /\ step' = [step EXCEPT ![u] = iter_offset[at[u]]]
  /\ UNCHANGED <<listVars, chunkVars, itemVars, lockVars, at, user_entry, history>>

\* --refcount, and on to the next item
DropReference(u) ==
  /\ pc[u] = "sub"
  /\ refcount' = [refcount EXCEPT ![at[u]] = @ - 1]
  /\ GoBack(u, at[u], step[u])
  /\ UNCHANGED <<head, deleted, chunkVars, iter_offset, value, lockVars, step,
                 user_entry, history>>

-----------------------------------------------------------------------------
\* init_graph: iteration from the own item

Lock(u) ==
  /\ locked => users_mutex = NoUser
  /\ users_mutex' = IF locked THEN u ELSE users_mutex
  /\ UNCHANGED locked

Unlock(u) == users_mutex' = NoUser /\ UNCHANGED locked

\* The iterator starts as a copy of user_entry and goes back by one.
BeginScan(u) ==
  /\ pc[u] = "pushed"
  /\ Lock(u)
  /\ GoBack(u, user_entry[u], 1)
  /\ UNCHANGED <<head, deleted, chunkVars, itemVars, step, user_entry, history>>

\* Mutant of Advance: does not release the item.
AdvanceUnreleased(u) ==
  /\ pc[u] = "visit"
  /\ seen' = [seen EXCEPT ![u] = @ \union ({value[at[u]]} \intersect User)]
  /\ GoBack(u, at[u], 1)
  /\ UNCHANGED <<head, deleted, chunkVars, itemVars, lockVars, step, user_entry,
                 before, raced>>

\* operator++ releases the item and goes back by one.
Advance(u) ==
  /\ pc[u] = "visit"
  /\ seen' = [seen EXCEPT ![u] = @ \union ({value[at[u]]} \intersect User)]
  /\ ReleaseItem(at[u])
  /\ GoBack(u, at[u], 1)
  /\ UNCHANGED <<head, deleted, chunkVars, iter_offset, lockVars, step, user_entry,
                 before, raced>>

EndScan(u) ==
  /\ Goto(u, "end", "scanned")
  /\ Unlock(u)
  /\ UNCHANGED <<listVars, chunkVars, itemVars, at, step, user_entry, history>>

-----------------------------------------------------------------------------
\* delete_from_resources: remove

\* Mutant of OffsetOf: goes on from a position that it has not looked at.
OffsetOfTwo(x) == IF x[2] = 0 THEN 1 ELSE 2

\* The first item of a chunk goes back by one, the others one more than the
\* item before them.
OffsetOf(x) ==
  IF x[2] = 0 THEN 1 ELSE iter_offset[<<x[1], x[2] - 1>>] + 1

\* Users whose push has got one of the n slots before x and not written it.
Pending(x, n) ==
  {v \in User : /\ pc[v] = "write" /\ at[v][1] = x[1]
                /\ at[v][2] \in (x[2] - n + 1)..(x[2] - 1)}

\* The load of the offset before x and the store of the one of x are one step,
\* that of the load: under the mutex nobody reads the offset of x before the
\* store, and without it a removal in between only makes the jump shorter.
MarkRemoved(u) ==
  LET x == user_entry[u]
  IN  /\ Goto(u, "scanned", "drop")
      /\ Lock(u)
      /\ MoveTo(u, x)
      /\ iter_offset' = [iter_offset EXCEPT ![x] = OffsetOf(x)]
      /\ raced' = raced \union Pending(x, OffsetOf(x))
      /\ UNCHANGED <<listVars, chunkVars, refcount, value, step, user_entry,
                     before, seen>>

RemoveReference(u) ==
  /\ Goto(u, "drop", "free")
  /\ ReleaseItem(at[u])
  /\ UNCHANGED <<listVars, chunkVars, iter_offset, lockVars, at, step, user_entry, history>>

\* Mutant of ReleaseChunk: one item too early.
ReleaseChunkEarly(u) ==
  LET c == at[u][1]
  IN  /\ Goto(u, "free", "removed")
      /\ freed_items' = [freed_items EXCEPT ![c] = @ + 1]
      /\ deleted' = [deleted EXCEPT ![c] = @ \/ freed_items[c] + 2 = ChunkSize]
      /\ Unlock(u)
      /\ UNCHANGED <<head, prev, next_item, itemVars, at, step, user_entry, history>>

\* release_chunk flags the chunk of which the last item is freed, also when
\* it is the head.
ReleaseChunk(u) ==
  LET c == at[u][1]
  IN  /\ Goto(u, "free", "removed")
      /\ freed_items' = [freed_items EXCEPT ![c] = @ + 1]
      /\ deleted' = [deleted EXCEPT ![c] = @ \/ freed_items[c] + 1 = ChunkSize]
      /\ Unlock(u)
      /\ UNCHANGED <<head, prev, next_item, itemVars, at, step, user_entry, history>>

\* The task is destroyed and user_entry with it.
ReleaseEntry(u) ==
  /\ Goto(u, "removed", "done")
  /\ ReleaseItem(user_entry[u])
  /\ UNCHANGED <<listVars, chunkVars, iter_offset, lockVars, at, step, user_entry, history>>

-----------------------------------------------------------------------------
\* Item::release of an item that is gone throws, in a destructor or on the
\* way out of a worker: the program is over.
Throw(u) ==
  /\ pc[u] = "visit"
  /\ refcount[at[u]] < 0
  /\ pc' = [pc EXCEPT ![u] = "thrown"]
  /\ UNCHANGED <<listVars, chunkVars, itemVars, lockVars, at, step, user_entry, history>>

Crashed == \E u \in User : pc[u] = "thrown"

UserStep(u) ==
  /\ ~ Crashed
  /\ \/ LoadHead(u) \/ TryAllocateFirst(u) \/ CheckSpace(u) \/ TakeSlot(u)
     \/ AllocateChunk(u) \/ WriteItem(u) \/ AcquireEntry(u)
     \/ LoadOffset(u) \/ LoadRefcount(u) \/ AddReference(u) \/ ReloadOffset(u)
     \/ DropReference(u)
     \/ BeginScan(u) \/ Advance(u) \/ EndScan(u)
     \/ MarkRemoved(u) \/ RemoveReference(u) \/ ReleaseChunk(u)
     \/ ReleaseEntry(u) \/ Throw(u)

Terminated ==
  /\ Crashed \/ (Coming = {} /\ \A u \in User : pc[u] \in {"idle", "done"})
  /\ UNCHANGED vars

Next == (\E u \in User : (~ Crashed /\ BeginPush(u)) \/ UserStep(u)) \/ Terminated

Spec == Init /\ [][Next]_vars

\* Threads are scheduled; a task need not come, but goes on once it is there.
FairSpec == Spec /\ \A u \in User : WF_vars(UserStep(u))

-----------------------------------------------------------------------------
(***************************************************************************)
(* Properties.                                                             *)
(***************************************************************************)

\* Iterators of u that have increased the reference count of x, or think so.
Holders(x) == {u \in User : at[u] = x /\ pc[u] \in {"visit", "reload", "sub"}}
HoldsEntry(u) == Pushed(u) /\ pc[u] # "done"
HasRemoved(u) == pc[u] \in {"free", "removed", "done"}

\* With the mutex the reference count of an item is exactly the number of
\* iterators at it, less the one reference that remove takes away; and the item
\* is destroyed when it is removed and the last iterator leaves it: not later,
\* which would be a leak, and not earlier.
RefcountExact ==
  locked =>
    /\ \A x \in Item : value[x] \in User =>
         refcount[x] = Cardinality(Holders(x))
                       + Cardinality({u \in User : user_entry[u] = x /\ HoldsEntry(u)})
                       - Cardinality({u \in User : user_entry[u] = x /\ HasRemoved(u)})
    /\ \A u \in User : Pushed(u) => (value[user_entry[u]] = Destroyed <=> pc[u] = "done")

\* An item is not destroyed as long as an iterator is at it, and an item has
\* one owner.
IteratorsKeepAlive ==
  \A u \in User :
    /\ pc[u] = "visit" => value[at[u]] \in User
    /\ HoldsEntry(u) => value[user_entry[u]] = u

\* ... which is so for lists that are used under a mutex.
LockedIteratorsKeepAlive == locked => IteratorsKeepAlive

\* However many threads overflow a chunk at once, one of them adds a chunk and
\* none is left behind half empty, where pushes do not find it anymore; and a
\* chunk that is flagged as deleted, which makes all iterators pass it by, has
\* no item left and gets no new one.
ChunksUsedUp ==
  \A c \in Chunk :
    /\ c < head => next_item[c] > ChunkSize
    /\ deleted[c] => next_item[c] >= ChunkSize /\ \A i \in Index : iter_offset[<<c, i>>] # 0

\* A finished iteration has come across every item that was there before the
\* iterating task was pushed and has not been removed.  This does not hold: a
\* removal that computes its offset while the slot before it is taken and not
\* yet written hides the item that is then written there.
ScanComplete ==
  \A u \in User : pc[u] = "end" =>
    \A v \in before[u] : iter_offset[user_entry[v]] = 0 => v \in seen[u]

\* With the mutex an iteration misses an item only if a later item was removed
\* between the two steps of the missed item's push.
LockedScanComplete ==
  locked => \A u \in User : pc[u] = "end" =>
    \A v \in before[u] : iter_offset[user_entry[v]] = 0 => v \in seen[u] \union raced

\* push returns, also when it waits for another thread to allocate a chunk.
PushReturns == \A u \in User : (pc[u] = "head") ~> (Pushed(u) \/ Crashed)
=============================================================================
