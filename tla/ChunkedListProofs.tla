------------------------- MODULE ChunkedListProofs -------------------------
(***************************************************************************)
(* Proofs about ChunkedList: with a mutex around iteration and removal an  *)
(* item's reference count is exact, iterators keep their items alive and   *)
(* an iteration misses an item only in the one way that LockedScanComplete *)
(* names; and, with or without the mutex, chunks are used up before they   *)
(* are left and deleted only when all of their items are gone.             *)
(***************************************************************************)
EXTENDS ChunkedList, FiniteSetTheorems, WellFoundedInduction, TLAPS

(***************************************************************************)
(* The inductive invariant.                                                *)
(***************************************************************************)

Unpushed == {"idle"} \union PushPcs
Critical == AcquirePcs \union ScanPcs \union RemovePcs
Iterating == AcquirePcs \union ScanPcs
Acquired == {"visit", "reload", "sub"}
AtItem == {"write", "enter", "visit"} \union AcquirePcs \union RemovePcs
PcSet == {"idle", "pushed", "scanned", "removed", "done", "thrown"}
           \union PushPcs \union AcquirePcs \union ScanPcs \union RemovePcs

\* The slot that the push of u has got.
HasSlot(u) == pc[u] \in {"write", "enter"} \/ Pushed(u)
SlotOf(u) == IF Pushed(u) THEN user_entry[u] ELSE at[u]

\* How far u is: has written its item, marked it as removed, freed it.
Written(u) == HasSlot(u) /\ pc[u] # "write"
Marked(u) == pc[u] \in {"drop", "free", "removed", "done"}
Released(u) == pc[u] \in {"removed", "done"}

\* The item is taken and counted in freed_items: its owner has freed it, or
\* it is the one that was there initially and has none.
Gone(x) ==
  /\ x[2] < next_item[x[1]]
  /\ \A u \in User : HasSlot(u) /\ SlotOf(u) = x => Released(u)
GoneOf(c) == {i \in Index : Gone(<<c, i>>)}

\* An iterator has a reference to x.
Held(x) == \E u \in User : at[u] = x /\ pc[u] \in Acquired
Bit(b) == IF b THEN 1 ELSE 0

\* y comes before x in the list.
Less(y, x) == y[1] < x[1] \/ (y[1] = x[1] /\ y[2] < x[2])

\* An iterator that goes n items back from x jumps over y.
Over(y, x, n) == y[1] = x[1] /\ x[2] - n < y[2] /\ y[2] < x[2]

\* n is the newest chunk up to c that is not deleted, or NoChunk.
Nearest(c, n) ==
  /\ n \in Chunk \union {NoChunk} /\ n <= c
  /\ n # NoChunk => ~ deleted[n]
  /\ \A d \in Chunk : n < d /\ d <= c => deleted[d]

\* The item of v is there, and the iteration of u has not come across it.
Missed(u, v) ==
  v \in before[u] /\ iter_offset[user_entry[v]] = 0 /\ v \notin seen[u] \union raced

Types ==
  /\ head \in Chunk \union {NoChunk}
  /\ deleted \in [Chunk -> BOOLEAN]
  /\ next_item \in [Chunk -> Nat]
  /\ freed_items \in [Chunk -> Nat]
  /\ iter_offset \in [Item -> Nat]
  /\ refcount \in [Item -> Int]
  /\ value \in [Item -> User \union {Raw, Destroyed}]
  /\ locked \in BOOLEAN
  /\ pc \in [User -> PcSet]
  /\ at \in [User -> Item \union {NoItem} \union (Chunk \X {-1})]
  /\ step \in [User -> Nat]
  /\ user_entry \in [User -> Item \union {NoItem}]
  /\ before \in [User -> SUBSET User] /\ seen \in [User -> SUBSET User]

\* Where a user is in the list when it is at a step.
Phases ==
  \A u \in User :
    /\ Pushed(u) <=> pc[u] \notin Unpushed
    /\ pc[u] \in AtItem => at[u] \in Item /\ at[u][1] <= head
    /\ pc[u] \in {"check", "slot", "alloc"} => at[u] \in Chunk \X {-1} /\ at[u][1] <= head
    /\ pc[u] \in RemovePcs => at[u] = user_entry[u]

\* No two pushes get the same slot.
Slots ==
  /\ \A u \in User : HasSlot(u) =>
       SlotOf(u) \in Item /\ SlotOf(u)[2] < next_item[SlotOf(u)[1]]
  /\ \A u, v \in User : HasSlot(u) /\ HasSlot(v) /\ SlotOf(u) = SlotOf(v) => u = v

\* Only the newest chunk has room, and at most one push is about to add another.
Chunks ==
  /\ \A c \in Chunk : /\ c < head => next_item[c] > ChunkSize
                      /\ c > head => next_item[c] = 0
  /\ \A u \in User : pc[u] = "alloc" => at[u][1] = head /\ next_item[head] > ChunkSize
  /\ \A u, v \in User : pc[u] = "alloc" /\ pc[v] = "alloc" => u = v

\* The offset of an item is 0 from the push to the removal.
Offsets ==
  /\ \A x \in Item : iter_offset[x] = 0 =>
       \E u \in User : Written(u) /\ SlotOf(u) = x /\ ~ Marked(u)
  /\ \A u \in User : Written(u) /\ ~ Marked(u) => iter_offset[SlotOf(u)] = 0
  /\ \A x \in Item : x[2] >= next_item[x[1]] => iter_offset[x] = 1

\* freed_items counts the items that are gone; a deleted chunk has no other.
Freed ==
  \A c \in Chunk :
    /\ freed_items[c] = Cardinality(GoneOf(c))
    /\ deleted[c] => GoneOf(c) = Index

\* A chunk is linked to an older one, and only deleted ones are left out.
Links ==
  /\ prev \in [Chunk -> Chunk \union {NoChunk}]
  /\ \A c \in Chunk : prev[c] < c
  /\ \A c, d \in Chunk : c <= head /\ prev[c] < d /\ d < c => deleted[d]
  /\ \A c \in Chunk : c > head => prev[c] = NoChunk

\* The offset of a removed item leads over items that are removed, too, or
\* raced with its removal.
Covers ==
  \A x \in Item, u \in User :
    HasSlot(u) /\ ~ Marked(u) /\ Over(SlotOf(u), x, iter_offset[x]) => u \in raced

\* What was pushed before comes before it in the list.
Order ==
  \A u \in User : \A v \in before[u] :
    /\ Pushed(v)
    /\ pc[u] \in {"check", "slot"} => user_entry[v][1] <= at[u][1]
    /\ HasSlot(u) => Less(user_entry[v], SlotOf(u))

\* With the mutex: iteration and removal are inside of it, ...
Mutex == \A u \in User : pc[u] \in Critical => users_mutex = u

\* ... what an iterator has found is not removed under its hands, ...
Reads ==
  \A u \in User :
    /\ pc[u] \notin {"sub", "thrown"}
    /\ pc[u] \in {"add", "reload", "visit"} \/ (pc[u] = "load_refcount" /\ step[u] = 0)
         => iter_offset[at[u]] = 0

\* ... references are counted, ...
Counts ==
  /\ \A u \in User : Written(u) =>
       refcount[SlotOf(u)] = Bit(Held(SlotOf(u))) + Bit(HoldsEntry(u)) - Bit(HasRemoved(u))
  /\ \A u \in User : pc[u] = "write" => refcount[at[u]] = 0
  /\ \A x \in Item : x[2] >= next_item[x[1]] => refcount[x] = 0

\* ... an item keeps its value until its owner is done, ...
Values ==
  /\ \A u \in User : Written(u) =>
       value[SlotOf(u)] = IF pc[u] = "done" THEN Destroyed ELSE u
  /\ \A x \in Item : value[x] \in User => \E u \in User : Written(u) /\ SlotOf(u) = x

\* ... and an iteration still has what it has missed before it.
Scans ==
  \A u \in User : pc[u] \in Iterating => \A v \in User : Missed(u, v) =>
    /\ pc[u] # "end"
    /\ Less(user_entry[v], at[u]) \/ user_entry[v] = at[u]
    /\ pc[u] = "load_refcount" /\ step[u] > 0 =>
         user_entry[v] # at[u] /\ ~ Over(user_entry[v], at[u], step[u])

BaseInv == Types /\ Phases /\ Slots /\ Chunks /\ Offsets /\ Freed /\ Links /\ Covers /\ Order
LockedInv == Mutex /\ Reads /\ Counts /\ Values /\ Scans
IInv == BaseInv /\ (locked => LockedInv)

\* What a user does in a step.
Step(u) ==
  \/ BeginPush(u) \/ LoadHead(u) \/ TryAllocateFirst(u) \/ CheckSpace(u) \/ TakeSlot(u)
  \/ AllocateChunk(u) \/ WriteItem(u) \/ AcquireEntry(u)
  \/ LoadOffset(u) \/ LoadRefcount(u) \/ AddReference(u) \/ ReloadOffset(u)
  \/ DropReference(u)
  \/ BeginScan(u) \/ Advance(u) \/ EndScan(u)
  \/ MarkRemoved(u) \/ RemoveReference(u) \/ ReleaseChunk(u)
  \/ ReleaseEntry(u) \/ Throw(u)

\* A set of numbers that is not empty has a least one.
LEMMA LeastNat ==
  ASSUME NEW T, T \subseteq Nat, T # {}
  PROVE  \E m \in T : \A k \in T : m <= k
<1> DEFINE R == OpToRel(<, Nat)
<1>1. IsWellFoundedOn(R, Nat)
  BY Zenon, NatLessThanWellFounded
<1>2. PICK m \in T : \A k \in T : ~ (<<k, m>> \in R)
  <2> HIDE DEF R
  <2> QED
    BY Zenon, <1>1, WFMin
<1>3. ASSUME NEW k \in T PROVE m <= k
  <2>1. <<k, m>> \in Nat \X Nat /\ k \in Nat /\ m \in Nat
    OBVIOUS
  <2>2. ~ (k < m)
    BY <1>2, <2>1 DEF OpToRel
  <2> QED
    BY <2>1, <2>2
<1> QED
  BY <1>3

\* Chunks are the numbers 1 to MaxChunk.
LEMMA ChunkIs ==
  /\ MaxChunk \in Nat /\ MaxChunk > 0
  /\ \A c : c \in Chunk <=> c \in Nat /\ 1 <= c /\ c <= MaxChunk
  BY AtomicListAssumption DEF Chunk

\* From every chunk back there is a nearest one that is not deleted, or none.
LEMMA NearestExists ==
  ASSUME NEW c \in Chunk \union {NoChunk}
  PROVE  \E n : Nearest(c, n)
<1> DEFINE T == {n \in 0..c : \A d \in Chunk : n < d /\ d <= c => deleted[d]}
<1>1. c \in Nat /\ c <= MaxChunk
  BY ChunkIs DEF NoChunk
<1>2. c \in T
  BY <1>1, ChunkIs
<1>3. T \subseteq Nat
  OBVIOUS
<1>4. PICK n \in T : \A k \in T : n <= k
  <2> HIDE DEF T
  <2> QED
    BY Zenon, <1>2, <1>3, LeastNat
<1>5. n \in Nat /\ n <= c /\ n \in Chunk \union {NoChunk}
  BY <1>1, ChunkIs DEF NoChunk
<1>6. ASSUME n # NoChunk, deleted[n] PROVE FALSE
  <2>1. n - 1 \in 0..c
    BY <1>1, <1>5, <1>6 DEF NoChunk
  <2>2. ASSUME NEW d \in Chunk, n - 1 < d, d <= c PROVE deleted[d]
    <3>1. d = n \/ n < d
      BY <1>5, <2>2, ChunkIs
    <3> QED
      BY <1>6, <2>2, <3>1
  <2>3. n - 1 \in T
    BY <2>1, <2>2
  <2> QED
    BY <1>4, <1>5, <2>3
<1> QED
  BY <1>4, <1>5, <1>6 DEF Nearest

\* There is only one.
LEMMA NearestUnique ==
  ASSUME NEW c \in Chunk \union {NoChunk}, NEW m, NEW n, Nearest(c, m), Nearest(c, n)
  PROVE  m = n
<1>1. c \in Nat /\ m \in Nat /\ n \in Nat /\ (m # NoChunk => m \in Chunk) /\ (n # NoChunk => n \in Chunk)
  BY ChunkIs DEF Nearest, NoChunk
<1>2. ~ (m < n)
  BY <1>1 DEF Nearest, NoChunk
<1>3. ~ (n < m)
  BY <1>1 DEF Nearest, NoChunk
<1> QED
  BY <1>1, <1>2, <1>3

\* One step of skip_deleted_prev does not change what is nearest.
LEMMA NearestStep ==
  ASSUME Links, head \in Chunk \union {NoChunk}, NEW c \in Chunk, c <= head, deleted[c], NEW n,
         Nearest(prev[c], n)
  PROVE  Nearest(c, n)
<1>1. prev[c] \in Chunk \union {NoChunk} /\ prev[c] < c /\ c \in Nat /\ prev[c] \in Nat /\ n \in Nat
  BY ChunkIs DEF Links, NoChunk, Nearest
<1>2. ASSUME NEW d \in Chunk, n < d, d <= c PROVE deleted[d]
  <2>1. d = c \/ d <= prev[c] \/ (prev[c] < d /\ d < c)
    BY <1>1, <1>2, ChunkIs
  <2> QED
    BY <1>2, <2>1 DEF Links, Nearest
<1> QED
  BY <1>1, <1>2 DEF Nearest

\* The function that the recursion of NotDeleted defines.
SkipDeleted ==
  [c \in Chunk \union {NoChunk} |->
     IF c <= head THEN CHOOSE n : Nearest(c, n) ELSE IF deleted[c] THEN NoChunk ELSE c]

\* A chunk that is not deleted is the nearest itself.
LEMMA NearestSelf ==
  ASSUME NEW c \in Chunk \union {NoChunk}, c # NoChunk => ~ deleted[c]
  PROVE  Nearest(c, c)
  BY ChunkIs DEF Nearest, NoChunk

\* The function to the nearest chunk satisfies the equation that defines NotDeleted.
LEMMA SkipDeletedSolves ==
  ASSUME Links, head \in Chunk \union {NoChunk}
  PROVE  SkipDeleted = [c \in Chunk \union {NoChunk} |->
                          IF c = NoChunk \/ ~ deleted[c] THEN c ELSE SkipDeleted[prev[c]]]
<1>1. ASSUME NEW c \in Chunk \union {NoChunk}
      PROVE  SkipDeleted[c] = IF c = NoChunk \/ ~ deleted[c] THEN c ELSE SkipDeleted[prev[c]]
  <2>1. c \in Nat /\ head \in Nat /\ 0 \in Chunk \union {NoChunk} /\ 0 <= head
    BY ChunkIs DEF NoChunk
  <2>2. CASE c <= head /\ (c = NoChunk \/ ~ deleted[c])
    <3>1. Nearest(c, c)
      BY <2>2, NearestSelf
    <3>2. c = CHOOSE n : Nearest(c, n)
      BY Zenon, <3>1, NearestUnique
    <3> QED
      BY Zenon, <2>2, <3>2 DEF SkipDeleted
  <2>3. CASE c <= head /\ c # NoChunk /\ deleted[c]
    <3>1. c \in Chunk /\ prev[c] \in Chunk \union {NoChunk} /\ prev[c] <= head
      BY <2>1, <2>3, ChunkIs DEF Links, NoChunk
    <3>2. Nearest(prev[c], CHOOSE n : Nearest(prev[c], n))
      BY Zenon, <3>1, NearestExists
    <3>3. Nearest(c, CHOOSE n : Nearest(prev[c], n))
      BY Zenon, <2>3, <3>1, <3>2, NearestStep
    <3>4. (CHOOSE n : Nearest(c, n)) = (CHOOSE n : Nearest(prev[c], n))
      BY Zenon, <3>3, NearestUnique
    <3>5. SkipDeleted[c] = CHOOSE n : Nearest(c, n)
      BY Zenon, <2>3 DEF SkipDeleted
    <3>6. SkipDeleted[prev[c]] = CHOOSE n : Nearest(prev[c], n)
      BY Zenon, <3>1 DEF SkipDeleted
    <3> QED
      BY Zenon, <2>3, <3>4, <3>5, <3>6
  <2>4. CASE ~ (c <= head)
    <3>1. c # NoChunk /\ c \in Chunk
      BY <2>1, <2>4 DEF NoChunk
    <3>2. prev[c] = NoChunk
      BY <2>1, <2>4, <3>1, ChunkIs DEF Links
    <3>3. Nearest(NoChunk, NoChunk)
      BY NearestSelf
    <3>4. NoChunk = CHOOSE n : Nearest(NoChunk, n)
      BY Zenon, <3>3, NearestUnique
    <3>5. SkipDeleted[NoChunk] = NoChunk
      BY Zenon, <2>1, <3>4 DEF SkipDeleted, NoChunk
    <3>6. SkipDeleted[c] = IF deleted[c] THEN NoChunk ELSE c
      BY Zenon, <2>4 DEF SkipDeleted
    <3> QED
      BY Zenon, <3>1, <3>2, <3>5, <3>6
  <2> QED
    BY Zenon, <2>2, <2>3, <2>4
<1>2. SkipDeleted = [c \in Chunk \union {NoChunk} |-> SkipDeleted[c]]
  BY SMT DEF SkipDeleted
<1> QED
  BY Zenon, <1>1, <1>2

\* NotDeleted solves its own equation.
LEMMA NotDeletedSolves ==
  ASSUME Links, head \in Chunk \union {NoChunk}
  PROVE  /\ NotDeleted = [c \in Chunk \union {NoChunk} |->
                          IF c = NoChunk \/ ~ deleted[c] THEN c ELSE NotDeleted[prev[c]]]
<1> DEFINE Solves(f) == f = [c \in Chunk \union {NoChunk} |->
                               IF c = NoChunk \/ ~ deleted[c] THEN c ELSE f[prev[c]]]
<1>1. Solves(SkipDeleted)
  BY Zenon, SkipDeletedSolves
<1>2. Solves(CHOOSE f : Solves(f))
  <2> HIDE DEF Solves
  <2> QED
    BY Zenon, <1>1
<1>3. NotDeleted = CHOOSE f : Solves(f)
  BY Zenon DEF NotDeleted
<1> QED
  BY Zenon, <1>2, <1>3

\* ... and so NotDeleted is that function: a least chunk at which they differ would not
\* be one.
LEMMA NotDeletedIs ==
  ASSUME Links, head \in Chunk \union {NoChunk}, NEW c \in Chunk \union {NoChunk}, c <= head
  PROVE  Nearest(c, NotDeleted[c])
<1> DEFINE T == {d \in Chunk \union {NoChunk} : d <= head /\ ~ Nearest(d, NotDeleted[d])}
<1>1. SUFFICES ASSUME T # {} PROVE FALSE
  OBVIOUS
<1>2. T \subseteq Nat
  BY ChunkIs DEF NoChunk
<1>3. PICK m \in T : \A k \in T : m <= k
  <2> HIDE DEF T
  <2> QED
    BY Zenon, <1>1, <1>2, LeastNat
<1>4. m \in Chunk \union {NoChunk} /\ m <= head /\ ~ Nearest(m, NotDeleted[m]) /\ m \in Nat /\ head \in Nat
  BY <1>3, ChunkIs DEF NoChunk
<1>5. NotDeleted[m] = IF m = NoChunk \/ ~ deleted[m] THEN m ELSE NotDeleted[prev[m]]
  BY Zenon, <1>4, NotDeletedSolves
<1>6. CASE m = NoChunk \/ ~ deleted[m]
  BY <1>4, <1>5, <1>6, NearestSelf
<1>7. CASE m # NoChunk /\ deleted[m]
  <2>1. m \in Chunk /\ prev[m] \in Chunk \union {NoChunk} /\ prev[m] < m /\ prev[m] <= head /\ prev[m] \in Nat
    BY <1>4, <1>7, ChunkIs DEF Links, NoChunk
  <2>2. prev[m] \notin T
    BY <1>3, <1>4, <2>1
  <2>3. Nearest(prev[m], NotDeleted[prev[m]])
    BY Zenon, <2>1, <2>2
  <2> QED
    BY Zenon, <1>4, <1>5, <1>7, <2>1, <2>3, NearestStep
<1> QED
  BY Zenon, <1>6, <1>7
-----------------------------------------------------------------------------
(***************************************************************************)
(* Items, and what an iterator does with them.                             *)
(***************************************************************************)

\* Indices are the numbers below ChunkSize.
LEMMA IndexIs ==
  /\ ChunkSize \in Nat /\ ChunkSize > 0
  /\ \A i : i \in Index <=> i \in Nat /\ i < ChunkSize
  BY ListAssumption DEF Index

\* Items are pairs of a chunk and an index, and rend() is not one of them.
LEMMA ItemIs ==
  /\ \A c \in Chunk, i \in Index : <<c, i>> \in Item /\ <<c, i>>[1] = c /\ <<c, i>>[2] = i
  /\ \A x \in Item : x[1] \in Chunk /\ x[2] \in Index /\ x = <<x[1], x[2]>>
  /\ \A x, y \in Item : x[1] = y[1] /\ x[2] = y[2] => x = y
  /\ NoItem \notin Item
<1>1. NoItem \notin Item
  BY ChunkIs DEF Item, NoItem, NoChunk
<1> QED
  BY <1>1 DEF Item

\* Users are positive numbers.
LEMMA UserIs ==
  /\ MaxUser \in Nat
  /\ \A u : u \in User <=> u \in Nat /\ 1 <= u /\ u <= MaxUser
  /\ NoUser \notin User /\ Raw \notin User /\ Destroyed \notin User
  /\ IsFiniteSet(User)
<1>1. MaxUser \in Nat
  BY ListAssumption DEF MaxUser
<1>2. IsFiniteSet(User)
  BY <1>1, FS_Interval DEF User
<1> QED
  BY <1>1, <1>2 DEF User, NoUser, Raw, Destroyed

\* get_last_item of a chunk with items.
LEMMA LastItemIs ==
  ASSUME Types, NEW c \in Chunk, next_item[c] > 0
  PROVE  /\ LastItem(c) \in Item /\ LastItem(c)[1] = c
         /\ \A i \in Index : i < next_item[c] => i <= LastItem(c)[2]
<1> DEFINE m == (IF next_item[c] > ChunkSize THEN ChunkSize ELSE next_item[c]) - 1
<1>1. next_item[c] \in Nat
  BY DEF Types
<1>2. m \in Index /\ \A i \in Index : i < next_item[c] => i <= m
  BY <1>1, IndexIs
<1>3. LastItem(c) = <<c, m>>
  BY ChunkIs DEF LastItem, NoChunk
<1> HIDE DEF m
<1> QED
  BY <1>2, <1>3, ItemIs

\* The next position of an iterator: nothing that is there lies between.
LEMMA GoBackIs ==
  ASSUME Types, Links, Chunks, NEW u \in User, NEW x \in Item, x[1] <= head, NEW n \in Nat,
         GoBack(u, x, n)
  PROVE  /\ \A v \in User : v # u => at'[v] = at[v] /\ pc'[v] = pc[v]
         /\ \/ pc'[u] = "load_offset" /\ at'[u] \in Item /\ at'[u][1] <= head
            \/ pc'[u] = "end" /\ at'[u] = NoItem
         /\ \A e \in Item :
              /\ e[2] < next_item[e[1]] /\ ~ deleted[e[1]]
              /\ Less(e, x) /\ ~ Over(e, x, n)
              => pc'[u] = "load_offset" /\ (Less(e, at'[u]) \/ e = at'[u])
         /\ UNCHANGED <<head, deleted>> => Links'
<1> DEFINE c == x[1]
           i == x[2] - n
           p == NotDeleted[prev[c]]
           y == IF i >= 0 THEN <<c, i>> ELSE LastItem(p)
<1>1. /\ c \in Chunk /\ c \in Nat /\ x[2] \in Nat /\ x[2] < ChunkSize /\ head \in Nat
      /\ head \in Chunk \union {NoChunk}
  BY ItemIs, IndexIs, ChunkIs DEF Types, NoChunk
<1>2. /\ prev[c] \in Chunk \union {NoChunk} /\ prev[c] \in Nat /\ prev[c] < c /\ prev[c] <= head
  BY <1>1, ChunkIs DEF Links, NoChunk
<1>3. Nearest(prev[c], p)
  BY Zenon, <1>1, <1>2, NotDeletedIs
<1>4. p \in Chunk \union {NoChunk} /\ p \in Nat /\ p <= prev[c] /\ p < c /\ p < head
  BY <1>1, <1>2, <1>3, ChunkIs DEF Nearest, NoChunk
<1>5. /\ at' = [at EXCEPT ![u] = IF y \in Item THEN y ELSE NoItem]
      /\ pc' = [pc EXCEPT ![u] = IF y \in Item THEN "load_offset" ELSE "end"]
      /\ prev' = IF i >= 0 THEN prev ELSE [prev EXCEPT ![c] = p]
  BY Zenon DEF GoBack
<1>6. i >= 0 => y \in Item /\ y[1] = c /\ y[2] = i
  BY <1>1, ItemIs, IndexIs
<1>7. i < 0 /\ p # NoChunk =>
        y \in Item /\ y[1] = p /\ \A j \in Index : j < next_item[p] => j <= y[2]
  <2> SUFFICES ASSUME i < 0, p # NoChunk
               PROVE  y \in Item /\ y[1] = p /\ \A j \in Index : j < next_item[p] => j <= y[2]
    OBVIOUS
  <2>1. p \in Chunk /\ y = LastItem(p)
    BY <1>1, <1>4
  <2>2. next_item[p] > 0
    BY <1>4, <2>1, IndexIs DEF Chunks, Types
  <2> QED
    BY <2>1, <2>2, LastItemIs
<1>8. i < 0 /\ p = NoChunk => y \notin Item
  BY <1>1, ItemIs DEF LastItem
<1> HIDE DEF p, y
<1>9. \A v \in User : v # u => at'[v] = at[v] /\ pc'[v] = pc[v]
  BY <1>5 DEF Types
<1>10. /\ at'[u] = IF y \in Item THEN y ELSE NoItem
       /\ pc'[u] = IF y \in Item THEN "load_offset" ELSE "end"
  BY <1>5 DEF Types
<1>11. \/ pc'[u] = "load_offset" /\ at'[u] \in Item /\ at'[u][1] <= head
       \/ pc'[u] = "end" /\ at'[u] = NoItem
  <2>1. y \in Item => y[1] <= head
    BY <1>1, <1>4, <1>6, <1>7, <1>8
  <2> QED
    BY <1>10, <2>1
<1>12. ASSUME NEW e \in Item, e[2] < next_item[e[1]], ~ deleted[e[1]], Less(e, x), ~ Over(e, x, n)
       PROVE  y \in Item /\ (Less(e, y) \/ e = y)
  <2>1. e[1] \in Chunk /\ e[1] \in Nat /\ e[2] \in Index /\ e[2] \in Nat
    BY ItemIs, IndexIs, ChunkIs
  <2>2. CASE i >= 0
    <3>1. e[1] < c \/ (e[1] = c /\ e[2] <= i)
      BY <1>1, <1>12, <2>1, <2>2 DEF Less, Over
    <3>2. y \in Item /\ y[1] = c /\ y[2] = i
      BY <1>6, <2>2
    <3> HIDE DEF i
    <3>3. i \in Nat
      BY <3>2, ItemIs, IndexIs
    <3> QED
      BY <2>1, <3>1, <3>2, <3>3, ItemIs DEF Less
  <2>3. CASE i < 0
    <3>1. e[1] < c
      BY <1>1, <1>12, <2>1, <2>3 DEF Less, Over
    <3>2. e[1] <= p
      <4>1. ~ (prev[c] < e[1])
        BY <1>1, <1>12, <2>1, <3>1 DEF Links
      <4>2. ~ (p < e[1] /\ e[1] <= prev[c])
        BY <1>3, <1>12, <2>1 DEF Nearest
      <4> QED
        BY <1>2, <1>4, <2>1, <4>1, <4>2
    <3>3. p # NoChunk
      BY <1>4, <2>1, <3>2, ChunkIs DEF NoChunk
    <3>4. y \in Item /\ y[1] = p /\ \A j \in Index : j < next_item[p] => j <= y[2]
      BY <1>7, <2>3, <3>3
    <3>5. y[2] \in Nat /\ (e[1] = p => e[2] <= y[2])
      BY <1>12, <2>1, <3>4, ItemIs, IndexIs
    <3> QED
      BY <1>4, <2>1, <3>2, <3>4, <3>5, ItemIs DEF Less
  <2> QED
    BY <1>1, <2>2, <2>3
<1>13. ASSUME UNCHANGED <<head, deleted>> PROVE Links'
  <2>1. CASE i >= 0
    BY <1>5, <1>13, <2>1 DEF Links
  <2>2. CASE i < 0
    <3>1. prev' = [prev EXCEPT ![c] = p]
      BY <1>1, <1>5, <2>2
    <3>2. prev'[c] = p /\ \A d \in Chunk : d # c => prev'[d] = prev[d]
      BY <1>1, <3>1 DEF Links
    <3>3. prev' \in [Chunk -> Chunk \union {NoChunk}]
      BY <1>1, <1>4, <3>1 DEF Links
    <3>4. \A d \in Chunk : prev'[d] < d
      BY <1>4, <3>2 DEF Links
    <3>5. ASSUME NEW b \in Chunk, NEW d \in Chunk, b <= head, prev'[b] < d, d < b PROVE deleted[d]
      <4>1. CASE b # c
        BY <3>2, <3>5, <4>1 DEF Links
      <4>2. CASE b = c
        <5>1. p < d /\ d \in Nat
          BY <3>2, <3>5, <4>2, ChunkIs
        <5>2. d <= prev[c] \/ prev[c] < d
          BY <1>2, <5>1
        <5> QED
          BY <1>3, <3>5, <4>2, <5>1, <5>2 DEF Links, Nearest
      <4> QED
        BY <4>1, <4>2
    <3>6. \A d \in Chunk : d > head => prev'[d] = NoChunk
      BY <1>1, <3>2, ChunkIs DEF Links
    <3> QED
      BY <1>13, <3>3, <3>4, <3>5, <3>6 DEF Links
  <2> QED
    BY <1>1, <2>1, <2>2
<1> QED
  BY <1>9, <1>10, <1>11, <1>12, <1>13

-----------------------------------------------------------------------------
(***************************************************************************)
(* What a step does to slots.                                              *)
(***************************************************************************)

\* A step of u concerns no other user.
LEMMA StepKeeps ==
  ASSUME Types, NEW u \in User, Step(u)
  PROVE  /\ \A v \in User : v # u =>
              /\ pc'[v] = pc[v] /\ at'[v] = at[v] /\ step'[v] = step[v]
              /\ user_entry'[v] = user_entry[v] /\ before'[v] = before[v] /\ seen'[v] = seen[v]
         /\ locked' = locked
<1> USE DEF Types, Goto, MoveTo, lockVars, history
<1>1. CASE BeginPush(u)
  BY <1>1 DEF BeginPush
<1>2. CASE LoadHead(u)
  BY <1>2 DEF LoadHead
<1>3. CASE TryAllocateFirst(u)
  BY <1>3 DEF TryAllocateFirst
<1>4. CASE CheckSpace(u)
  BY <1>4 DEF CheckSpace
<1>5. CASE TakeSlot(u)
  BY <1>5 DEF TakeSlot
<1>6. CASE AllocateChunk(u)
  BY <1>6 DEF AllocateChunk
<1>7. CASE WriteItem(u)
  BY <1>7 DEF WriteItem
<1>8. CASE AcquireEntry(u)
  BY <1>8 DEF AcquireEntry
<1>9. CASE LoadOffset(u)
  BY <1>9 DEF LoadOffset
<1>10. CASE LoadRefcount(u)
  BY <1>10 DEF LoadRefcount, GoBack
<1>11. CASE AddReference(u)
  BY <1>11 DEF AddReference
<1>12. CASE ReloadOffset(u)
  BY <1>12 DEF ReloadOffset
<1>13. CASE DropReference(u)
  BY <1>13 DEF DropReference, GoBack
<1>14. CASE BeginScan(u)
  BY <1>14 DEF BeginScan, GoBack, Lock
<1>15. CASE Advance(u)
  BY <1>15 DEF Advance, GoBack
<1>16. CASE EndScan(u)
  BY <1>16 DEF EndScan, Unlock
<1>17. CASE MarkRemoved(u)
  BY <1>17 DEF MarkRemoved, Lock
<1>18. CASE RemoveReference(u)
  BY <1>18 DEF RemoveReference
<1>19. CASE ReleaseChunk(u)
  BY <1>19 DEF ReleaseChunk, Unlock
<1>20. CASE ReleaseEntry(u)
  BY <1>20 DEF ReleaseEntry
<1>21. CASE Throw(u)
  BY <1>21 DEF Throw
<1> QED
  BY <1>1, <1>2, <1>3, <1>4, <1>5, <1>6, <1>7, <1>8, <1>9, <1>10, <1>11, <1>12, <1>13, <1>14, <1>15,
     <1>16, <1>17, <1>18, <1>19, <1>20, <1>21 DEF Step

\* Where u is when it takes a step.
LEMMA StepAt ==
  ASSUME NEW u \in User
  PROVE  /\ BeginPush(u) => pc[u] = "idle"
         /\ LoadHead(u) => pc[u] = "head"
         /\ TryAllocateFirst(u) => pc[u] = "first"
         /\ CheckSpace(u) => pc[u] = "check"
         /\ TakeSlot(u) => pc[u] = "slot"
         /\ AllocateChunk(u) => pc[u] = "alloc"
         /\ WriteItem(u) => pc[u] = "write"
         /\ AcquireEntry(u) => pc[u] = "enter"
         /\ LoadOffset(u) => pc[u] = "load_offset"
         /\ LoadRefcount(u) => pc[u] = "load_refcount"
         /\ AddReference(u) => pc[u] = "add"
         /\ ReloadOffset(u) => pc[u] = "reload"
         /\ DropReference(u) => pc[u] = "sub"
         /\ BeginScan(u) => pc[u] = "pushed"
         /\ Advance(u) => pc[u] = "visit"
         /\ EndScan(u) => pc[u] = "end"
         /\ MarkRemoved(u) => pc[u] = "scanned"
         /\ RemoveReference(u) => pc[u] = "drop"
         /\ ReleaseChunk(u) => pc[u] = "free"
         /\ ReleaseEntry(u) => pc[u] = "removed"
         /\ Throw(u) => pc[u] = "visit"
  BY Zenon DEF Goto, BeginPush, LoadHead, TryAllocateFirst, CheckSpace, TakeSlot, AllocateChunk,
     WriteItem, AcquireEntry, LoadOffset, LoadRefcount, AddReference, ReloadOffset, DropReference,
     BeginScan, Advance, EndScan, MarkRemoved, RemoveReference, ReleaseChunk, ReleaseEntry, Throw

\* ... and which step that is.
LEMMA StepIs ==
  ASSUME NEW u \in User, Step(u)
  PROVE  /\ pc[u] = "idle" => BeginPush(u)
         /\ pc[u] = "head" => LoadHead(u)
         /\ pc[u] = "first" => TryAllocateFirst(u)
         /\ pc[u] = "check" => CheckSpace(u)
         /\ pc[u] = "slot" => TakeSlot(u)
         /\ pc[u] = "alloc" => AllocateChunk(u)
         /\ pc[u] = "write" => WriteItem(u)
         /\ pc[u] = "enter" => AcquireEntry(u)
         /\ pc[u] = "load_offset" => LoadOffset(u)
         /\ pc[u] = "load_refcount" => LoadRefcount(u)
         /\ pc[u] = "add" => AddReference(u)
         /\ pc[u] = "reload" => ReloadOffset(u)
         /\ pc[u] = "sub" => DropReference(u)
         /\ pc[u] = "pushed" => BeginScan(u)
         /\ pc[u] = "end" => EndScan(u)
         /\ pc[u] = "scanned" => MarkRemoved(u)
         /\ pc[u] = "drop" => RemoveReference(u)
         /\ pc[u] = "free" => ReleaseChunk(u)
         /\ pc[u] = "removed" => ReleaseEntry(u)
         /\ pc[u] = "visit" => Advance(u) \/ Throw(u)
  BY StepAt DEF Step

\* A slot is for ever, and what happens to it happens in this order.
LEMMA SlotStep ==
  ASSUME BaseInv, NEW u \in User, Step(u)
  PROVE  /\ \A v \in User : HasSlot(v) => HasSlot(v)' /\ SlotOf(v)' = SlotOf(v)
         /\ \A v \in User : HasSlot(v)' => HasSlot(v) \/ (v = u /\ pc[u] = "slot" /\ pc'[u] = "write")
         /\ \A v \in User : Written(v)' <=> Written(v) \/ (v = u /\ pc[u] = "write")
         /\ \A v \in User : Marked(v)' <=> Marked(v) \/ (v = u /\ pc[u] = "scanned")
         /\ \A v \in User : Released(v)' <=> Released(v) \/ (v = u /\ pc[u] = "free")
         /\ \A v \in User : Pushed(v)' <=> Pushed(v) \/ (v = u /\ pc[u] = "enter")
         /\ \A v \in User : Pushed(v) => user_entry'[v] = user_entry[v]
<1>1. Types /\ Phases
  BY DEF BaseInv
<1>2. ASSUME NEW v \in User, v # u
      PROVE  /\ HasSlot(v)' <=> HasSlot(v)
             /\ SlotOf(v)' = SlotOf(v) /\ user_entry'[v] = user_entry[v]
             /\ Written(v)' <=> Written(v)
             /\ Marked(v)' <=> Marked(v)
             /\ Released(v)' <=> Released(v)
             /\ Pushed(v)' <=> Pushed(v)
  BY <1>1, <1>2, StepKeeps DEF HasSlot, SlotOf, Written, Marked, Released, Pushed
<1>3. /\ HasSlot(u) => HasSlot(u)' /\ SlotOf(u)' = SlotOf(u)
      /\ HasSlot(u)' => HasSlot(u) \/ (pc[u] = "slot" /\ pc'[u] = "write")
      /\ Written(u)' <=> Written(u) \/ pc[u] = "write"
      /\ Marked(u)' <=> Marked(u) \/ pc[u] = "scanned"
      /\ Released(u)' <=> Released(u) \/ pc[u] = "free"
      /\ Pushed(u)' <=> Pushed(u) \/ pc[u] = "enter"
      /\ Pushed(u) => user_entry'[u] = user_entry[u]
  <2>1. /\ Pushed(u) <=> pc[u] \notin {"idle", "head", "first", "check", "slot", "alloc", "write", "enter"}
        /\ pc[u] = "enter" => at[u] \in Item
        /\ pc \in [User -> PcSet] /\ at \in [User -> Item \union {NoItem} \union (Chunk \X {-1})]
        /\ user_entry \in [User -> Item \union {NoItem}]
    BY <1>1 DEF Types, Phases, Unpushed, PushPcs, AtItem
  <2> USE DEF Goto, MoveTo, Pushed, HasSlot, SlotOf, Written, Marked, Released
  <2>2. CASE BeginPush(u)
    BY <2>1, <2>2 DEF BeginPush
  <2>3. CASE LoadHead(u)
    BY <2>1, <2>3 DEF LoadHead
  <2>4. CASE TryAllocateFirst(u)
    BY <2>1, <2>4 DEF TryAllocateFirst
  <2>5. CASE CheckSpace(u)
    BY <2>1, <2>5 DEF CheckSpace
  <2>6. CASE TakeSlot(u)
    BY <2>1, <2>6 DEF TakeSlot
  <2>7. CASE AllocateChunk(u)
    BY <2>1, <2>7 DEF AllocateChunk
  <2>8. CASE WriteItem(u)
    BY <2>1, <2>8 DEF WriteItem
  <2>9. CASE AcquireEntry(u)
    BY <2>1, <2>9, ItemIs DEF AcquireEntry
  <2>10. CASE LoadOffset(u)
    BY <2>1, <2>10 DEF LoadOffset
  <2>11. CASE LoadRefcount(u)
    BY <2>1, <2>11 DEF LoadRefcount, GoBack
  <2>12. CASE AddReference(u)
    BY <2>1, <2>12 DEF AddReference
  <2>13. CASE ReloadOffset(u)
    BY <2>1, <2>13 DEF ReloadOffset
  <2>14. CASE DropReference(u)
    BY <2>1, <2>14 DEF DropReference, GoBack
  <2>15. CASE BeginScan(u)
    BY <2>1, <2>15 DEF BeginScan, GoBack
  <2>16. CASE Advance(u)
    BY <2>1, <2>16 DEF Advance, GoBack
  <2>17. CASE EndScan(u)
    BY <2>1, <2>17 DEF EndScan
  <2>18. CASE MarkRemoved(u)
    BY <2>1, <2>18 DEF MarkRemoved
  <2>19. CASE RemoveReference(u)
    BY <2>1, <2>19 DEF RemoveReference
  <2>20. CASE ReleaseChunk(u)
    BY <2>1, <2>20 DEF ReleaseChunk
  <2>21. CASE ReleaseEntry(u)
    BY <2>1, <2>21 DEF ReleaseEntry
  <2>22. CASE Throw(u)
    BY <2>1, <2>22 DEF Throw
  <2> QED
    BY Zenon, <2>2, <2>3, <2>4, <2>5, <2>6, <2>7, <2>8, <2>9, <2>10, <2>11, <2>12, <2>13, <2>14,
       <2>15, <2>16, <2>17, <2>18, <2>19, <2>20, <2>21, <2>22 DEF Step
<1> QED
  BY Zenon, <1>2, <1>3
-----------------------------------------------------------------------------
(***************************************************************************)
(* A step preserves the part of the invariant that needs no mutex.         *)
(***************************************************************************)

\* Where the user that takes a step is.
LEMMA PlaceIs ==
  ASSUME BaseInv, NEW u \in User
  PROVE  /\ pc[u] \in {"write", "enter", "visit", "load_offset", "load_refcount", "add", "reload",
                       "sub", "drop", "free"}
              => at[u] \in Item /\ at[u][1] <= head
         /\ pc[u] \in {"check", "slot", "alloc"} => at[u] \in Chunk \X {-1} /\ at[u][1] \in Chunk
                                                    /\ at[u][1] <= head
         /\ Pushed(u) <=> pc[u] \notin {"idle", "head", "first", "check", "slot", "alloc", "write", "enter"}
         /\ Pushed(u) => user_entry[u] \in Item /\ user_entry[u][1] <= head
         /\ pc[u] \in {"drop", "free"} => at[u] = user_entry[u]
<1>1. Types /\ Phases /\ Slots /\ Chunks
  BY DEF BaseInv
<1>2. Pushed(u) => user_entry[u] \in Item
  BY <1>1 DEF Types, Pushed
<1>3. ASSUME Pushed(u) PROVE user_entry[u][1] <= head
  <2>1. user_entry[u][2] < next_item[user_entry[u][1]]
    BY <1>1, <1>3 DEF Slots, HasSlot, SlotOf
  <2>2. user_entry[u][1] \in Chunk /\ user_entry[u][1] \in Nat /\ user_entry[u][2] \in Nat
    BY <1>2, <1>3, ItemIs, IndexIs, ChunkIs
  <2>3. head \in Nat
    BY <1>1, ChunkIs DEF Types, NoChunk
  <2> QED
    BY <1>1, <2>1, <2>2, <2>3 DEF Chunks
<1>4. /\ pc[u] \in AtItem => at[u] \in Item /\ at[u][1] <= head
      /\ pc[u] \in {"check", "slot", "alloc"} => at[u] \in Chunk \X {-1} /\ at[u][1] <= head
      /\ pc[u] \in RemovePcs => at[u] = user_entry[u]
      /\ Pushed(u) <=> pc[u] \notin Unpushed
  BY <1>1 DEF Phases
<1> QED
  BY <1>2, <1>3, <1>4 DEF AtItem, AcquirePcs, RemovePcs, Unpushed, PushPcs

\* The offset of a removed item leads somewhere else.
LEMMA OffsetPositive ==
  ASSUME Types, NEW x \in Item
  PROVE  OffsetOf(x) \in Nat /\ OffsetOf(x) > 0
<1>1. x[1] \in Chunk /\ x[2] \in Nat /\ x[2] < ChunkSize /\ ChunkSize \in Nat
  BY ItemIs, IndexIs
<1>2. x[2] # 0 => x[2] - 1 \in Index
  BY <1>1, IndexIs
<1>3. x[2] # 0 => <<x[1], x[2] - 1>> \in Item
  BY <1>1, <1>2, ItemIs
<1>4. x[2] # 0 => iter_offset[<<x[1], x[2] - 1>>] \in Nat
  BY <1>3 DEF Types
<1> QED
  BY <1>1, <1>4 DEF OffsetOf

\* An iterator that goes back stays at an item or gets to its end.
LEMMA GoBackTypes ==
  ASSUME Types, NEW u \in User, NEW x, NEW n, GoBack(u, x, n)
  PROVE  /\ at' \in [User -> Item \union {NoItem} \union (Chunk \X {-1})]
         /\ pc' \in [User -> PcSet]
  BY DEF Types, GoBack, PcSet, AcquirePcs, ScanPcs

\* Every step keeps the types.
LEMMA TypesStep ==
  ASSUME BaseInv, NEW u \in User, Step(u)
  PROVE  Types'
<1>1. Types
  BY DEF BaseInv
<1>2. /\ pc[u] \in {"write", "enter", "visit", "load_offset", "load_refcount", "add", "reload",
                    "sub", "drop", "free"} => at[u] \in Item
      /\ pc[u] \in {"check", "slot", "alloc"} => at[u] \in Chunk \X {-1} /\ at[u][1] \in Chunk
      /\ pc[u] \in {"removed", "scanned"} => user_entry[u] \in Item
  BY PlaceIs
<1> USE DEF Types, Goto, MoveTo, listVars, chunkVars, itemVars, lockVars, history,
            PcSet, PushPcs, AcquirePcs, ScanPcs, RemovePcs
<1>3. CASE BeginPush(u)
  BY <1>1, <1>2, <1>3 DEF BeginPush
<1>4. CASE LoadHead(u)
  BY <1>1, <1>2, <1>4, ChunkIs DEF LoadHead, NoItem, NoChunk
<1>5. CASE TryAllocateFirst(u)
  BY <1>1, <1>2, <1>5, ChunkIs DEF TryAllocateFirst, AppendItem, NewChunk
<1>6. CASE CheckSpace(u)
  BY <1>1, <1>2, <1>6 DEF CheckSpace
<1>7. CASE TakeSlot(u)
  <2> DEFINE c == at[u][1]
             n == next_item[c]
  <2>1. c \in Chunk /\ n \in Nat
    BY <1>1, <1>2, <1>7 DEF TakeSlot
  <2>2. n < ChunkSize => <<c, n>> \in Item
    BY <2>1, IndexIs, ItemIs
  <2>3. <<c, -1>> \in Chunk \X {-1}
    BY <2>1
  <2> HIDE DEF c
  <2>4. at' = [at EXCEPT ![u] = IF n < ChunkSize THEN <<c, n>> ELSE <<c, -1>>]
    BY <1>7 DEF TakeSlot, c
  <2>5. /\ next_item' = [next_item EXCEPT ![c] = n + 1]
        /\ pc' = [pc EXCEPT ![u] = IF n < ChunkSize THEN "write"
                                   ELSE IF n = ChunkSize THEN "alloc" ELSE "head"]
    BY <1>7 DEF TakeSlot, c
  <2>6. at' \in [User -> Item \union {NoItem} \union (Chunk \X {-1})]
    BY <1>1, <2>2, <2>3, <2>4
  <2>7. next_item' \in [Chunk -> Nat] /\ pc' \in [User -> PcSet]
    BY <1>1, <2>1, <2>5
  <2> QED
    BY <1>1, <1>7, <2>6, <2>7 DEF TakeSlot
<1>8. CASE AllocateChunk(u)
  BY <1>1, <1>2, <1>8, ChunkIs DEF AllocateChunk, AppendItem, NewChunk
<1>9. CASE WriteItem(u)
  BY <1>1, <1>2, <1>9 DEF WriteItem
<1>10. CASE AcquireEntry(u)
  BY <1>1, <1>2, <1>10 DEF AcquireEntry
<1>11. CASE LoadOffset(u)
  BY <1>1, <1>2, <1>11 DEF LoadOffset
<1>12. CASE LoadRefcount(u)
  <2>1. CASE GoBack(u, at[u], step[u])
    BY <1>1, <1>12, <2>1, GoBackTypes DEF LoadRefcount
  <2>2. CASE ~ GoBack(u, at[u], step[u])
    BY <1>1, <1>12, <2>2 DEF LoadRefcount
  <2> QED
    BY <2>1, <2>2
<1>13. CASE AddReference(u)
  BY <1>1, <1>2, <1>13 DEF AddReference
<1>14. CASE ReloadOffset(u)
  BY <1>1, <1>2, <1>14 DEF ReloadOffset
<1>15. CASE DropReference(u)
  BY <1>1, <1>2, <1>15, GoBackTypes DEF DropReference
<1>16. CASE BeginScan(u)
  BY <1>1, <1>2, <1>16, GoBackTypes DEF BeginScan, Lock
<1>17. CASE Advance(u)
  BY <1>1, <1>2, <1>17, GoBackTypes DEF Advance, ReleaseItem
<1>18. CASE EndScan(u)
  BY <1>1, <1>2, <1>18 DEF EndScan, Unlock
<1>19. CASE MarkRemoved(u)
  <2>1. user_entry[u] \in Item
    BY <1>2, <1>19 DEF MarkRemoved
  <2>2. OffsetOf(user_entry[u]) \in Nat
    BY <1>1, <2>1, OffsetPositive
  <2> QED
    BY <1>1, <1>19, <2>1, <2>2 DEF MarkRemoved, Lock
<1>20. CASE RemoveReference(u)
  BY <1>1, <1>2, <1>20 DEF RemoveReference, ReleaseItem
<1>21. CASE ReleaseChunk(u)
  <2>1. at[u][1] \in Chunk
    BY <1>2, <1>21, ItemIs DEF ReleaseChunk
  <2>2. deleted' \in [Chunk -> BOOLEAN]
    BY <1>1, <1>21, <2>1 DEF ReleaseChunk
  <2>3. freed_items' \in [Chunk -> Nat]
    BY <1>1, <1>21, <2>1 DEF ReleaseChunk
  <2> QED
    BY <1>1, <1>21, <2>2, <2>3 DEF ReleaseChunk, Unlock
<1>22. CASE ReleaseEntry(u)
  BY <1>1, <1>2, <1>22 DEF ReleaseEntry, ReleaseItem
<1>23. CASE Throw(u)
  BY <1>1, <1>2, <1>23 DEF Throw
<1> QED
  BY Zenon, <1>3, <1>4, <1>5, <1>6, <1>7, <1>8, <1>9, <1>10, <1>11, <1>12, <1>13, <1>14, <1>15,
     <1>16, <1>17, <1>18, <1>19, <1>20, <1>21, <1>22, <1>23 DEF Step
\* The steps of u, one for each place.
LEMMA PcStep ==
  ASSUME BaseInv, NEW u \in User, Step(u)
  PROVE  /\ pc[u] = "idle" => pc'[u] = "head"
         /\ pc[u] = "head" => /\ at'[u] = <<head, -1>>
                              /\ pc'[u] = IF head = NoChunk THEN "first" ELSE "check"
         /\ pc[u] = "first" => pc'[u] = "head"
         /\ pc[u] = "check" => pc'[u] \in {"slot", "head"} /\ at'[u] = at[u]
         /\ pc[u] = "slot" => pc'[u] = IF next_item[at[u][1]] < ChunkSize THEN "write"
                                       ELSE IF next_item[at[u][1]] = ChunkSize THEN "alloc" ELSE "head"
         /\ pc[u] = "slot" => at'[u] = IF next_item[at[u][1]] < ChunkSize
                                       THEN <<at[u][1], next_item[at[u][1]]>> ELSE <<at[u][1], -1>>
         /\ pc[u] = "alloc" => pc'[u] = "head"
         /\ pc[u] = "write" => pc'[u] = "enter" /\ at'[u] = at[u]
         /\ pc[u] = "enter" => pc'[u] = "pushed" /\ at'[u] = at[u] /\ user_entry'[u] = at[u]
         /\ pc[u] = "load_offset" =>
              pc'[u] = "load_refcount" /\ at'[u] = at[u] /\ step'[u] = iter_offset[at[u]]
         /\ pc[u] = "load_refcount" /\ step[u] = 0 =>
              /\ pc'[u] = IF refcount[at[u]] >= 0 THEN "add" ELSE "visit"
              /\ at'[u] = at[u]
         /\ pc[u] = "load_refcount" /\ step[u] > 0 => GoBack(u, at[u], step[u])
         /\ pc[u] = "add" => pc'[u] = "reload" /\ at'[u] = at[u]
         /\ pc[u] = "reload" => /\ pc'[u] = IF iter_offset[at[u]] = 0 THEN "visit" ELSE "sub"
                                /\ at'[u] = at[u]
         /\ pc[u] = "sub" => GoBack(u, at[u], step[u])
         /\ pc[u] = "pushed" => GoBack(u, user_entry[u], 1)
         /\ pc[u] = "visit" => (pc'[u] = "thrown" /\ refcount[at[u]] < 0) \/ GoBack(u, at[u], 1)
         /\ pc[u] = "end" => pc'[u] = "scanned"
         /\ pc[u] = "scanned" => pc'[u] = "drop" /\ at'[u] = user_entry[u]
         /\ pc[u] = "drop" => pc'[u] = "free" /\ at'[u] = at[u]
         /\ pc[u] = "free" => pc'[u] = "removed"
         /\ pc[u] = "removed" => pc'[u] = "done"
<1>1. /\ pc \in [User -> PcSet] /\ at \in [User -> Item \union {NoItem} \union (Chunk \X {-1})]
      /\ user_entry \in [User -> Item \union {NoItem}] /\ step \in [User -> Nat]
      /\ refcount \in [Item -> Int]
  BY DEF BaseInv, Types
<1>2. pc[u] = "load_refcount" => refcount[at[u]] \in Int
  BY <1>1, PlaceIs
<1> USE DEF Goto, MoveTo
<1>3. pc[u] = "idle" => pc'[u] = "head"
  BY <1>1, StepIs DEF BeginPush
<1>4. pc[u] = "head" => /\ at'[u] = <<head, -1>>
                        /\ pc'[u] = IF head = NoChunk THEN "first" ELSE "check"
  BY <1>1, StepIs DEF LoadHead
<1>5. pc[u] = "first" => pc'[u] = "head"
  BY <1>1, StepIs DEF TryAllocateFirst
<1>6. pc[u] = "check" => pc'[u] \in {"slot", "head"} /\ at'[u] = at[u]
  BY <1>1, StepIs DEF CheckSpace
<1>7. /\ pc[u] = "slot" => pc'[u] = IF next_item[at[u][1]] < ChunkSize THEN "write"
                                    ELSE IF next_item[at[u][1]] = ChunkSize THEN "alloc" ELSE "head"
      /\ pc[u] = "slot" => at'[u] = IF next_item[at[u][1]] < ChunkSize
                                    THEN <<at[u][1], next_item[at[u][1]]>> ELSE <<at[u][1], -1>>
  BY <1>1, StepIs DEF TakeSlot
<1>8. pc[u] = "alloc" => pc'[u] = "head"
  BY <1>1, StepIs DEF AllocateChunk
<1>9. pc[u] = "write" => pc'[u] = "enter" /\ at'[u] = at[u]
  BY <1>1, StepIs DEF WriteItem
<1>10. pc[u] = "enter" => pc'[u] = "pushed" /\ at'[u] = at[u] /\ user_entry'[u] = at[u]
  BY <1>1, StepIs DEF AcquireEntry
<1>11. pc[u] = "load_offset" =>
         pc'[u] = "load_refcount" /\ at'[u] = at[u] /\ step'[u] = iter_offset[at[u]]
  BY <1>1, StepIs DEF LoadOffset
<1>12. /\ pc[u] = "load_refcount" /\ step[u] = 0 =>
            /\ pc'[u] = IF refcount[at[u]] >= 0 THEN "add" ELSE "visit"
            /\ at'[u] = at[u]
       /\ pc[u] = "load_refcount" /\ step[u] > 0 => GoBack(u, at[u], step[u])
  BY <1>1, <1>2, StepIs DEF LoadRefcount
<1>13. pc[u] = "add" => pc'[u] = "reload" /\ at'[u] = at[u]
  BY <1>1, StepIs DEF AddReference
<1>14. pc[u] = "reload" => /\ pc'[u] = IF iter_offset[at[u]] = 0 THEN "visit" ELSE "sub"
                           /\ at'[u] = at[u]
  BY <1>1, StepIs DEF ReloadOffset
<1>15. /\ pc[u] = "sub" => GoBack(u, at[u], step[u])
       /\ pc[u] = "pushed" => GoBack(u, user_entry[u], 1)
  BY StepIs DEF DropReference, BeginScan
<1>16. pc[u] = "visit" => (pc'[u] = "thrown" /\ refcount[at[u]] < 0) \/ GoBack(u, at[u], 1)
  BY <1>1, StepIs DEF Advance, Throw
<1>17. pc[u] = "end" => pc'[u] = "scanned"
  BY <1>1, StepIs DEF EndScan
<1>18. pc[u] = "scanned" => pc'[u] = "drop" /\ at'[u] = user_entry[u]
  BY <1>1, StepIs DEF MarkRemoved
<1>19. pc[u] = "drop" => pc'[u] = "free" /\ at'[u] = at[u]
  BY <1>1, StepIs DEF RemoveReference
<1>20. pc[u] = "free" => pc'[u] = "removed"
  BY <1>1, StepIs DEF ReleaseChunk
<1>21. pc[u] = "removed" => pc'[u] = "done"
  BY <1>1, StepIs DEF ReleaseEntry
<1> QED
  BY Zenon, <1>3, <1>4, <1>5, <1>6, <1>7, <1>8, <1>9, <1>10, <1>11, <1>12, <1>13, <1>14, <1>15,
     <1>16, <1>17, <1>18, <1>19, <1>20, <1>21

\* u is at one of these places when it takes a step.
LEMMA StepFrom ==
  ASSUME NEW u \in User, Step(u)
  PROVE  pc[u] \in {"idle", "head", "first", "check", "slot", "alloc", "write", "enter",
                    "load_offset", "load_refcount", "add", "reload", "sub", "pushed", "visit", "end",
                    "scanned", "drop", "free", "removed"}
  BY StepAt DEF Step

\* The steps that go back, and from where.
From(u) == IF pc[u] = "pushed" THEN user_entry[u] ELSE at[u]
By(u) == IF pc[u] \in {"load_refcount", "sub"} THEN step[u] ELSE 1
GoesBack(u) ==
  \/ pc[u] \in {"sub", "pushed"} \/ (pc[u] = "load_refcount" /\ step[u] > 0)
  \/ pc[u] = "visit" /\ pc'[u] # "thrown"

\* The steps that make an iterator go back, and where it comes from.
LEMMA GoBackStep ==
  ASSUME BaseInv, NEW u \in User, Step(u), GoesBack(u)
  PROVE  /\ \/ pc'[u] = "load_offset" /\ at'[u] \in Item /\ at'[u][1] <= head
            \/ pc'[u] = "end" /\ at'[u] = NoItem
         /\ \A e \in Item :
              /\ e[2] < next_item[e[1]] /\ ~ deleted[e[1]]
              /\ Less(e, From(u)) /\ ~ Over(e, From(u), By(u))
              => pc'[u] = "load_offset" /\ (Less(e, at'[u]) \/ e = at'[u])
         /\ UNCHANGED <<head, deleted>>
         /\ Links'
<1>1. Types /\ Links /\ Chunks
  BY DEF BaseInv
<1>2. From(u) \in Item /\ From(u)[1] <= head
  BY PlaceIs DEF From, GoesBack
<1>3. By(u) \in Nat
  BY <1>1 DEF By, Types
<1>4. GoBack(u, From(u), By(u))
  BY PcStep DEF From, By, GoesBack
<1>5. LoadRefcount(u) \/ DropReference(u) \/ BeginScan(u) \/ Advance(u) \/ Throw(u)
  BY StepIs DEF GoesBack
<1>6. UNCHANGED <<head, deleted>>
  BY <1>5 DEF LoadRefcount, DropReference, BeginScan, Advance, Throw, listVars
<1> QED
  BY Zenon, <1>1, <1>2, <1>3, <1>4, <1>6, GoBackIs

\* What becomes of the chunks: only a push at "first" or "alloc" adds one.
LEMMA HeadStep ==
  ASSUME BaseInv, NEW u \in User, Step(u)
  PROVE  /\ head \in Nat /\ head' \in Nat
         /\ \/ head' = head /\ (GoesBack(u) \/ prev' = prev)
            \/ /\ head' = head + 1 /\ head' \in Chunk
               /\ pc[u] = "alloc" \/ (pc[u] = "first" /\ head = NoChunk)
               /\ prev' = [prev EXCEPT ![head'] = head] /\ deleted' = deleted
<1>1. head \in Chunk \union {NoChunk} /\ head \in Nat
  BY ChunkIs DEF BaseInv, Types, NoChunk
<1>2. CASE TryAllocateFirst(u) /\ head = NoChunk
  BY <1>1, <1>2, ChunkIs DEF TryAllocateFirst, AppendItem, NewChunk, Goto
<1>3. CASE AllocateChunk(u)
  BY <1>1, <1>3, ChunkIs DEF AllocateChunk, AppendItem, NewChunk, Goto
<1>4. CASE LoadRefcount(u) \/ DropReference(u) \/ BeginScan(u) \/ Advance(u)
  <2>1. head' = head
    BY <1>4 DEF LoadRefcount, DropReference, BeginScan, Advance
  <2>2. GoesBack(u) \/ prev' = prev
    <3>1. CASE LoadRefcount(u)
      BY <3>1 DEF LoadRefcount, GoesBack
    <3>2. CASE DropReference(u) \/ BeginScan(u)
      BY <3>2 DEF DropReference, BeginScan, GoesBack
    <3>3. CASE Advance(u)
      <4>1. pc[u] = "visit" /\ GoBack(u, at[u], 1)
        BY <3>3 DEF Advance
      <4>2. pc'[u] # "thrown"
        BY <4>1 DEF GoBack, BaseInv, Types
      <4> QED
        BY <4>1, <4>2 DEF GoesBack
    <3> QED
      BY <1>4, <3>1, <3>2, <3>3
  <2> QED
    BY <1>1, <2>1, <2>2
<1>5. CASE ~ (\/ TryAllocateFirst(u) /\ head = NoChunk
              \/ AllocateChunk(u)
              \/ LoadRefcount(u) \/ DropReference(u) \/ BeginScan(u) \/ Advance(u))
  <2>1. UNCHANGED <<head, prev>>
    BY <1>5 DEF Step, BeginPush, LoadHead, TryAllocateFirst, CheckSpace, TakeSlot, WriteItem,
       AcquireEntry, LoadOffset, AddReference, ReloadOffset, EndScan, MarkRemoved, RemoveReference,
       ReleaseChunk, ReleaseEntry, Throw, listVars
  <2> QED
    BY <1>1, <2>1
<1> QED
  BY <1>2, <1>3, <1>4, <1>5

\* What becomes of the other variables.
LEMMA VarStep ==
  ASSUME NEW u \in User, Step(u)
  PROVE  /\ IF pc[u] = "slot"
            THEN next_item' = [next_item EXCEPT ![at[u][1]] = next_item[at[u][1]] + 1]
            ELSE next_item' = next_item
         /\ IF pc[u] = "write" THEN iter_offset' = [iter_offset EXCEPT ![at[u]] = 0]
            ELSE IF pc[u] = "scanned"
            THEN iter_offset' = [iter_offset EXCEPT ![user_entry[u]] = OffsetOf(user_entry[u])]
            ELSE iter_offset' = iter_offset
         /\ IF pc[u] = "free"
            THEN /\ freed_items' = [freed_items EXCEPT ![at[u][1]] = freed_items[at[u][1]] + 1]
                 /\ deleted' = [deleted EXCEPT ![at[u][1]] =
                                  @ \/ freed_items[at[u][1]] + 1 = ChunkSize]
            ELSE freed_items' = freed_items /\ deleted' = deleted
         /\ IF pc[u] = "scanned"
            THEN raced' = raced \union Pending(user_entry[u], OffsetOf(user_entry[u]))
            ELSE raced' = raced
         /\ IF pc[u] = "idle" THEN before' = [before EXCEPT ![u] = {v \in User : Pushed(v)}]
            ELSE before' = before
         /\ \/ seen' = seen
            \/ /\ pc[u] = "visit"
               /\ seen' = [seen EXCEPT ![u] = @ \union ({value[at[u]]} \intersect User)]
<1> USE DEF Goto, MoveTo, listVars, chunkVars, itemVars, lockVars, history
<1>1. CASE BeginPush(u)
  BY <1>1 DEF BeginPush
<1>2. CASE LoadHead(u)
  BY <1>2 DEF LoadHead
<1>3. CASE TryAllocateFirst(u)
  BY <1>3 DEF TryAllocateFirst, AppendItem
<1>4. CASE CheckSpace(u)
  BY <1>4 DEF CheckSpace
<1>5. CASE TakeSlot(u)
  BY <1>5 DEF TakeSlot
<1>6. CASE AllocateChunk(u)
  BY <1>6 DEF AllocateChunk, AppendItem
<1>7. CASE WriteItem(u)
  BY <1>7 DEF WriteItem
<1>8. CASE AcquireEntry(u)
  BY <1>8 DEF AcquireEntry
<1>9. CASE LoadOffset(u)
  BY <1>9 DEF LoadOffset
<1>10. CASE LoadRefcount(u)
  BY <1>10 DEF LoadRefcount
<1>11. CASE AddReference(u)
  BY <1>11 DEF AddReference
<1>12. CASE ReloadOffset(u)
  BY <1>12 DEF ReloadOffset
<1>13. CASE DropReference(u)
  BY <1>13 DEF DropReference
<1>14. CASE BeginScan(u)
  BY <1>14 DEF BeginScan
<1>15. CASE Advance(u)
  BY <1>15 DEF Advance
<1>16. CASE EndScan(u)
  BY <1>16 DEF EndScan
<1>17. CASE MarkRemoved(u)
  BY <1>17 DEF MarkRemoved
<1>18. CASE RemoveReference(u)
  BY <1>18 DEF RemoveReference
<1>19. CASE ReleaseChunk(u)
  BY <1>19 DEF ReleaseChunk
<1>20. CASE ReleaseEntry(u)
  BY <1>20 DEF ReleaseEntry
<1>21. CASE Throw(u)
  BY <1>21 DEF Throw
<1> QED
  BY Zenon, <1>1, <1>2, <1>3, <1>4, <1>5, <1>6, <1>7, <1>8, <1>9, <1>10, <1>11, <1>12, <1>13, <1>14,
     <1>15, <1>16, <1>17, <1>18, <1>19, <1>20, <1>21 DEF Step

\* Every step keeps users where they belong.
LEMMA PhasesStep ==
  ASSUME BaseInv, NEW u \in User, Step(u)
  PROVE  Phases'
<1>1. Types /\ Phases
  BY DEF BaseInv
<1>2. head \in Nat /\ head' \in Nat /\ head <= head'
  BY HeadStep
<1>3. ASSUME NEW v \in User, v # u
      PROVE  /\ Pushed(v)' <=> pc'[v] \notin Unpushed
             /\ pc'[v] \in AtItem => at'[v] \in Item /\ at'[v][1] <= head'
             /\ pc'[v] \in {"check", "slot", "alloc"} => at'[v] \in Chunk \X {-1} /\ at'[v][1] <= head'
             /\ pc'[v] \in RemovePcs => at'[v] = user_entry'[v]
  <2>1. pc'[v] = pc[v] /\ at'[v] = at[v] /\ user_entry'[v] = user_entry[v]
    BY <1>1, <1>3, StepKeeps
  <2>2. at[v] \in Item \union (Chunk \X {-1}) => at[v][1] \in Nat
    BY ItemIs, ChunkIs
  <2> QED
    BY <1>1, <1>2, <2>1, <2>2 DEF Phases, Pushed
<1>4. /\ Pushed(u)' <=> pc'[u] \notin Unpushed
      /\ pc'[u] \in AtItem => at'[u] \in Item /\ at'[u][1] <= head'
      /\ pc'[u] \in {"check", "slot", "alloc"} => at'[u] \in Chunk \X {-1} /\ at'[u][1] <= head'
      /\ pc'[u] \in RemovePcs => at'[u] = user_entry'[u]
  <2>1. Pushed(u)' <=> pc[u] \notin {"idle", "head", "first", "check", "slot", "alloc", "write"}
    BY PlaceIs, SlotStep
  <2>2. CASE GoesBack(u)
    <3>1. /\ \/ pc'[u] = "load_offset" /\ at'[u] \in Item /\ at'[u][1] <= head
             \/ pc'[u] = "end" /\ at'[u] = NoItem
    BY <2>2, GoBackStep
    <3>2. at'[u] \in Item => at'[u][1] \in Nat
      BY ItemIs, ChunkIs
    <3>3. Pushed(u)'
      BY <2>1, <2>2 DEF GoesBack
    <3> QED
      BY <1>2, <3>1, <3>2, <3>3
         DEF Unpushed, PushPcs, AtItem, AcquirePcs, RemovePcs
  <2>3. CASE pc[u] \in {"idle", "first", "alloc", "end", "free", "removed"}
             \/ (pc[u] = "visit" /\ pc'[u] = "thrown")
    BY ZenonT(60), <2>1, <2>3, PcStep DEF Unpushed, PushPcs, AtItem, AcquirePcs, RemovePcs
  <2>4. CASE pc[u] \in {"write", "enter", "load_offset", "add", "reload", "drop"}
             \/ (pc[u] = "load_refcount" /\ step[u] = 0)
    <3>1. at[u] \in Item /\ at[u][1] <= head /\ at'[u] = at[u] /\ at[u][1] \in Nat
      BY <2>4, PlaceIs, PcStep, ItemIs, ChunkIs
    <3>2. pc[u] = "drop" => at'[u] = user_entry'[u]
      BY <1>1, <3>1, PlaceIs, SlotStep
    <3>3. at'[u][1] <= head'
      BY <1>2, <3>1
    <3> QED
      BY ZenonT(60), <2>1, <2>4, <3>1, <3>2, <3>3, PcStep DEF Unpushed, PushPcs, AtItem, AcquirePcs,
         RemovePcs
  <2>5. CASE pc[u] = "head"
    <3>1. head # NoChunk => head \in Chunk
      BY <1>1 DEF Types
    <3>2. head # NoChunk => <<head, -1>> \in Chunk \X {-1} /\ <<head, -1>>[1] = head
      BY <3>1
    <3> QED
      BY <1>2, <2>1, <2>5, <3>2, PcStep DEF Unpushed, PushPcs, AtItem, AcquirePcs, RemovePcs
  <2>6. CASE pc[u] = "check"
    <3>1. at[u] \in Chunk \X {-1} /\ at[u][1] <= head /\ at'[u] = at[u] /\ at[u][1] \in Nat
      BY <2>6, PlaceIs, PcStep, ChunkIs
    <3>2. at'[u][1] <= head'
      BY <1>2, <3>1
    <3> QED
      BY <2>1, <2>6, <3>1, <3>2, PcStep DEF Unpushed, PushPcs, AtItem, AcquirePcs, RemovePcs
  <2>7. CASE pc[u] = "slot"
    <3> DEFINE c == at[u][1]
               n == next_item[at[u][1]]
    <3>1. c \in Chunk /\ c <= head /\ c \in Nat /\ n \in Nat
      BY <1>1, <2>7, PlaceIs, ChunkIs DEF Types
    <3>2. n < ChunkSize => <<c, n>> \in Item /\ <<c, n>>[1] = c
      BY <3>1, ItemIs, IndexIs
    <3>3. <<c, -1>> \in Chunk \X {-1} /\ <<c, -1>>[1] = c
      BY <3>1
    <3>4. /\ at'[u] = IF n < ChunkSize THEN <<c, n>> ELSE <<c, -1>>
          /\ pc'[u] = IF n < ChunkSize THEN "write" ELSE IF n = ChunkSize THEN "alloc" ELSE "head"
      BY <2>7, PcStep
    <3>5. c <= head'
      BY <1>2, <3>1
    <3> HIDE DEF c, n
    <3> QED
      BY <2>1, <2>7, <3>2, <3>3, <3>4, <3>5 DEF Unpushed, PushPcs, AtItem, AcquirePcs, RemovePcs
  <2>8. CASE pc[u] = "scanned"
    <3>1. at'[u] = user_entry[u] /\ pc'[u] = "drop" /\ user_entry'[u] = user_entry[u]
      BY <2>8, PcStep, PlaceIs, SlotStep
    <3>2. user_entry[u] \in Item /\ user_entry[u][1] <= head /\ user_entry[u][1] \in Nat
      BY <2>8, PlaceIs, ItemIs, ChunkIs
    <3>3. user_entry[u][1] <= head'
      BY <1>2, <3>2
    <3> QED
      BY <2>1, <2>8, <3>1, <3>2, <3>3 DEF Unpushed, PushPcs, AtItem, AcquirePcs, RemovePcs
  <2>9. step[u] \in Nat
    BY <1>1 DEF Types
  <2> QED
    BY <2>2, <2>3, <2>4, <2>5, <2>6, <2>7, <2>8, <2>9, StepFrom DEF GoesBack
<1> QED
  BY <1>3, <1>4 DEF Phases

\* No two pushes get the same slot: fetch_add gives each number once.
LEMMA SlotsStep ==
  ASSUME BaseInv, NEW u \in User, Step(u)
  PROVE  Slots'
<1>1. Types /\ Slots /\ Phases
  BY DEF BaseInv
<1>2. CASE ~ (pc[u] = "slot" /\ pc'[u] = "write")
  <2>1. \A v \in User : HasSlot(v)' => HasSlot(v) /\ SlotOf(v)' = SlotOf(v)
    BY <1>2, SlotStep
  <2>2. \A c \in Chunk : next_item[c] \in Nat /\ next_item'[c] \in Nat /\ next_item[c] <= next_item'[c]
    <3>1. pc[u] = "slot" => at[u][1] \in Chunk
      BY PlaceIs
    <3> QED
      BY <1>1, <3>1, VarStep DEF Types
  <2>3. ASSUME NEW v \in User, HasSlot(v)'
        PROVE  SlotOf(v)' \in Item /\ SlotOf(v)'[2] < next_item'[SlotOf(v)'[1]]
    <3>1. SlotOf(v) \in Item /\ SlotOf(v)[2] < next_item[SlotOf(v)[1]] /\ SlotOf(v)' = SlotOf(v)
      BY <1>1, <2>1, <2>3 DEF Slots
    <3>2. SlotOf(v)[1] \in Chunk /\ SlotOf(v)[2] \in Nat
      BY <3>1, ItemIs, IndexIs
    <3>3. SlotOf(v)[2] < next_item'[SlotOf(v)[1]]
      BY <2>2, <3>1, <3>2
    <3> QED
      BY <3>1, <3>3
  <2>4. ASSUME NEW v \in User, NEW w \in User, HasSlot(v)', HasSlot(w)', SlotOf(v)' = SlotOf(w)'
        PROVE  v = w
    BY <1>1, <2>1, <2>4 DEF Slots
  <2> QED
    BY <2>3, <2>4 DEF Slots
<1>3. CASE pc[u] = "slot" /\ pc'[u] = "write"
  <2> DEFINE c == at[u][1]
             n == next_item[at[u][1]]
  <2>1. c \in Chunk /\ n \in Nat /\ n < ChunkSize /\ at'[u] = <<c, n>>
    BY <1>1, <1>3, PlaceIs, PcStep DEF Types
  <2>2. <<c, n>> \in Item /\ <<c, n>>[1] = c /\ <<c, n>>[2] = n
    BY <2>1, IndexIs, ItemIs
  <2>3. next_item' = [next_item EXCEPT ![c] = n + 1]
    BY <1>3, VarStep
  <2>4. ~ HasSlot(u) /\ ~ Pushed(u)'
    BY <1>3, PlaceIs, SlotStep DEF HasSlot
  <2>5. SlotOf(u)' = <<c, n>>
    BY <2>1, <2>4 DEF SlotOf
  <2> HIDE DEF c, n
  <2>6. next_item'[c] = n + 1 /\ \A d \in Chunk : d # c => next_item'[d] = next_item[d]
    BY <1>1, <2>1, <2>3 DEF Types
  <2>7. \A v \in User : v # u /\ HasSlot(v)' => HasSlot(v) /\ SlotOf(v)' = SlotOf(v)
    BY SlotStep
  <2>8. ASSUME NEW v \in User, v # u, HasSlot(v)'
        PROVE  /\ SlotOf(v)' \in Item /\ SlotOf(v)'[2] < next_item'[SlotOf(v)'[1]]
               /\ SlotOf(v)' # <<c, n>>
    <3>1. SlotOf(v) \in Item /\ SlotOf(v)[2] < next_item[SlotOf(v)[1]] /\ SlotOf(v)' = SlotOf(v)
      BY <1>1, <2>7, <2>8 DEF Slots
    <3>2. SlotOf(v)[1] \in Chunk /\ SlotOf(v)[2] \in Nat /\ next_item[SlotOf(v)[1]] \in Nat
      BY <1>1, <3>1, ItemIs, IndexIs DEF Types
    <3>3. n = next_item[c]
      BY DEF n, c
    <3>4. SlotOf(v)[2] < next_item'[SlotOf(v)[1]]
      BY <2>1, <2>6, <3>1, <3>2, <3>3
    <3>5. SlotOf(v) # <<c, n>>
      BY <2>1, <2>2, <3>1, <3>2, <3>3
    <3> QED
      BY <3>1, <3>4, <3>5
  <2>9. SlotOf(u)' \in Item /\ SlotOf(u)'[2] < next_item'[SlotOf(u)'[1]]
    BY <2>1, <2>2, <2>5, <2>6
  <2>10. ASSUME NEW v \in User, NEW w \in User, HasSlot(v)', HasSlot(w)', SlotOf(v)' = SlotOf(w)'
         PROVE  v = w
    BY <1>1, <2>5, <2>7, <2>8, <2>10 DEF Slots
  <2> QED
    BY <2>8, <2>9, <2>10 DEF Slots
<1> QED
  BY <1>2, <1>3

\* One push per chunk gets the number ChunkSize, and it alone adds a chunk.
LEMMA ChunksStep ==
  ASSUME BaseInv, NEW u \in User, Step(u)
  PROVE  Chunks'
<1>1. Types /\ Chunks /\ Phases
  BY DEF BaseInv
<1>2. head \in Nat /\ head' \in Nat /\ ChunkSize \in Nat /\ head \in Chunk \union {NoChunk}
  BY <1>1, HeadStep, IndexIs DEF Types
<1>3. \A v \in User : v # u => pc'[v] = pc[v] /\ at'[v] = at[v]
  BY <1>1, StepKeeps
<1>4. CASE head' # head
  <2>1. /\ head' = head + 1 /\ head' \in Chunk
        /\ pc[u] = "alloc" \/ (pc[u] = "first" /\ head = NoChunk)
    BY <1>4, HeadStep
  <2>2. next_item' = next_item /\ pc'[u] = "head"
    BY <2>1, VarStep, PcStep
  <2>3. \A v \in User : pc'[v] # "alloc"
    <3> SUFFICES ASSUME NEW v \in User, pc'[v] = "alloc" PROVE FALSE
      OBVIOUS
    <3>1. v # u /\ pc[v] = "alloc"
      BY <1>3, <2>2
    <3>2. head # NoChunk
      BY <1>1, <3>1, PlaceIs, ChunkIs DEF Chunks, NoChunk
    <3> QED
      BY <1>1, <2>1, <3>1, <3>2 DEF Chunks
  <2>4. head # NoChunk => next_item[head] > ChunkSize
    BY <1>1, <2>1 DEF Chunks
  <2>5. \A c \in Chunk : /\ c < head' => next_item'[c] > ChunkSize
                         /\ c > head' => next_item'[c] = 0
    BY <1>1, <1>2, <2>1, <2>2, <2>4, ChunkIs DEF Chunks, NoChunk
  <2> QED
    BY <2>3, <2>5 DEF Chunks
<1>5. CASE head' = head /\ pc[u] = "slot"
  <2> DEFINE c == at[u][1]
             n == next_item[at[u][1]]
  <2>1. c \in Chunk /\ c \in Nat /\ c <= head /\ n \in Nat
    BY <1>1, <1>5, PlaceIs, ChunkIs DEF Types
  <2>2. next_item' = [next_item EXCEPT ![c] = n + 1]
    BY <1>5, VarStep
  <2>3. pc'[u] = IF n < ChunkSize THEN "write" ELSE IF n = ChunkSize THEN "alloc" ELSE "head"
    BY <1>5, PcStep
  <2>4. pc'[u] = "alloc" => at'[u] = <<c, -1>>
    BY <1>2, <1>5, <2>1, <2>3, PcStep
  <2>5. n = next_item[c]
    OBVIOUS
  <2> HIDE DEF c, n
  <2>6. next_item'[c] = n + 1 /\ \A d \in Chunk : d # c => next_item'[d] = next_item[d]
    BY <1>1, <2>1, <2>2 DEF Types
  <2>7. \A d \in Chunk : d < head => next_item'[d] > ChunkSize
    <3> SUFFICES ASSUME NEW d \in Chunk, d < head PROVE next_item'[d] > ChunkSize
      OBVIOUS
    <3>1. next_item[d] > ChunkSize /\ next_item[d] \in Nat
      BY <1>1 DEF Chunks, Types
    <3> QED
      BY <1>2, <2>1, <2>5, <2>6, <3>1
  <2>8. \A d \in Chunk : d > head => next_item'[d] = 0
    BY <1>1, <1>2, <2>1, <2>6, ChunkIs DEF Chunks
  <2>9. pc'[u] = "alloc" => n = ChunkSize /\ c = head /\ at'[u][1] = head
    BY <1>1, <1>2, <2>1, <2>3, <2>4, <2>5 DEF Chunks
  <2>10. ASSUME NEW v \in User, v # u, pc'[v] = "alloc"
         PROVE  at'[v][1] = head /\ next_item'[head] > ChunkSize /\ pc'[u] # "alloc"
    <3>1. at'[v][1] = head /\ next_item[head] > ChunkSize /\ head \in Chunk
      BY <1>1, <1>3, <2>10, PlaceIs DEF Chunks
    <3>2. next_item[head] \in Nat
      BY <1>1, <3>1 DEF Types
    <3> QED
      BY <1>2, <2>1, <2>5, <2>6, <2>9, <3>1, <3>2
  <2>11. pc'[u] = "alloc" => next_item'[head] > ChunkSize
    BY <1>2, <2>6, <2>9
  <2>12. \A v, w \in User : pc'[v] = "alloc" /\ pc'[w] = "alloc" => v = w
    BY <1>1, <1>3, <2>10 DEF Chunks
  <2> QED
    BY <1>5, <2>7, <2>8, <2>9, <2>10, <2>11, <2>12 DEF Chunks
<1>6. CASE head' = head /\ pc[u] # "slot"
  <2>1. next_item' = next_item
    BY <1>6, VarStep
  <2>2. pc'[u] # "alloc"
    <3>1. CASE GoesBack(u)
      BY <3>1, GoBackStep
    <3>2. CASE ~ GoesBack(u)
      <4>1. pc[u] = "load_refcount" => step[u] = 0
        BY <1>1, <3>2 DEF GoesBack, Types
      <4>2. pc[u] = "visit" => pc'[u] = "thrown"
        BY <3>2 DEF GoesBack
      <4>3. pc[u] \notin {"sub", "pushed"}
        BY <3>2 DEF GoesBack
      <4> QED
        BY <1>6, <4>1, <4>2, <4>3, StepFrom, PcStep
    <3> QED
      BY <3>1, <3>2
  <2> QED
    BY <1>1, <1>3, <1>6, <2>1, <2>2 DEF Chunks
<1> QED
  BY <1>4, <1>5, <1>6

\* Appending links to the old head, and going back shortens a link by deleted chunks only.
LEMMA LinksStep ==
  ASSUME BaseInv, NEW u \in User, Step(u)
  PROVE  Links'
<1>1. Types /\ Links
  BY DEF BaseInv
<1>2. CASE GoesBack(u)
  BY <1>2, GoBackStep
<1>3. CASE head' = head /\ prev' = prev
  <2>1. \A c \in Chunk : deleted[c] => deleted'[c]
    BY ZenonT(60), <1>1, VarStep DEF Types
  <2> QED
    BY <1>1, <1>3, <2>1 DEF Links
<1>4. CASE head' = head + 1 /\ head' \in Chunk /\ prev' = [prev EXCEPT ![head'] = head] /\ deleted' = deleted
  <2>1. head \in Nat /\ head' \in Nat /\ head \in Chunk \union {NoChunk}
    BY <1>1, HeadStep DEF Types
  <2>2. prev'[head'] = head /\ \A c \in Chunk : c # head' => prev'[c] = prev[c]
    BY <1>1, <1>4 DEF Links
  <2>3. prev' \in [Chunk -> Chunk \union {NoChunk}]
    BY <1>1, <1>4, <2>1 DEF Links
  <2>4. \A c \in Chunk : prev'[c] < c
    BY <1>1, <1>4, <2>1, <2>2 DEF Links
  <2>5. ASSUME NEW c \in Chunk, NEW d \in Chunk, c <= head', prev'[c] < d, d < c PROVE deleted'[d]
    <3>1. c \in Nat /\ d \in Nat
      BY ChunkIs
    <3>2. c # head'
      BY <1>4, <2>1, <2>2, <2>5, <3>1
    <3>3. c <= head /\ prev[c] < d
      BY <1>4, <2>1, <2>2, <2>5, <3>1, <3>2
    <3> QED
      BY <1>1, <1>4, <2>5, <3>3 DEF Links
  <2>6. \A c \in Chunk : c > head' => prev'[c] = NoChunk
    BY <1>1, <1>4, <2>1, <2>2, ChunkIs DEF Links
  <2> QED
    BY <2>3, <2>4, <2>5, <2>6 DEF Links
<1> QED
  BY <1>2, <1>3, <1>4, HeadStep

\* A user with a slot, and its item.
LEMMA SlotIs ==
  ASSUME BaseInv, NEW u \in User
  PROVE  /\ HasSlot(u) => /\ SlotOf(u) \in Item /\ SlotOf(u)[1] \in Chunk /\ SlotOf(u)[2] \in Nat
                          /\ SlotOf(u)[2] < next_item[SlotOf(u)[1]]
         /\ pc[u] \in {"write", "enter"} => HasSlot(u) /\ SlotOf(u) = at[u]
         /\ Pushed(u) => HasSlot(u) /\ SlotOf(u) = user_entry[u] /\ Written(u)
         /\ Written(u) => HasSlot(u)
         /\ HasSlot(u) /\ ~ Written(u) => pc[u] = "write" /\ SlotOf(u) = at[u]
         /\ \A v \in User : HasSlot(u) /\ HasSlot(v) /\ SlotOf(u) = SlotOf(v) => u = v
<1>1. Slots
  BY DEF BaseInv
<1>2. HasSlot(u) => /\ SlotOf(u) \in Item /\ SlotOf(u)[1] \in Chunk /\ SlotOf(u)[2] \in Nat
                    /\ SlotOf(u)[2] < next_item[SlotOf(u)[1]]
  BY <1>1, ItemIs, IndexIs DEF Slots
<1>3. \A v \in User : HasSlot(u) /\ HasSlot(v) /\ SlotOf(u) = SlotOf(v) => u = v
  BY <1>1 DEF Slots
<1> QED
  BY <1>2, <1>3, PlaceIs DEF HasSlot, SlotOf, Written

\* next_item never decreases.
LEMMA NextItemStep ==
  ASSUME BaseInv, NEW u \in User, Step(u), NEW c \in Chunk
  PROVE  next_item[c] \in Nat /\ next_item'[c] \in Nat /\ next_item[c] <= next_item'[c]
<1>1. pc[u] = "slot" => at[u][1] \in Chunk
  BY PlaceIs
<1> QED
  BY <1>1, VarStep DEF BaseInv, Types

\* Writing an item sets its offset to 0 and removing it to something else.
LEMMA OffsetsStep ==
  ASSUME BaseInv, NEW u \in User, Step(u)
  PROVE  Offsets'
<1>1. Types /\ Offsets
  BY DEF BaseInv
<1>2. iter_offset \in [Item -> Nat]
  BY <1>1 DEF Types
<1>3. ASSUME NEW x \in Item, iter_offset'[x] = 0
      PROVE  \E v \in User : Written(v)' /\ SlotOf(v)' = x /\ ~ Marked(v)'
  <2>1. CASE pc[u] = "write" /\ x = at[u]
    <3>1. Written(u)' /\ SlotOf(u)' = x
      BY <2>1, SlotIs, SlotStep
    <3>2. ~ Marked(u)'
      BY <2>1, SlotStep DEF Marked
    <3> QED
      BY <3>1, <3>2
  <2>2. CASE pc[u] = "scanned" /\ x = user_entry[u]
    BY <1>1, <1>2, <1>3, <2>2, VarStep, OffsetPositive
  <2>3. CASE ~ (pc[u] = "write" /\ x = at[u]) /\ ~ (pc[u] = "scanned" /\ x = user_entry[u])
    <3>1. iter_offset[x] = 0
      BY <1>2, <1>3, <2>3, VarStep
    <3>2. PICK v \in User : Written(v) /\ SlotOf(v) = x /\ ~ Marked(v)
      BY <1>1, <3>1 DEF Offsets
    <3>3. Written(v)' /\ SlotOf(v)' = x
      BY <3>2, SlotIs, SlotStep
    <3>4. ~ (v = u /\ pc[u] = "scanned")
      BY <2>3, <3>2, PlaceIs, SlotIs
    <3> QED
      BY <3>2, <3>3, <3>4, SlotStep
  <2> QED
    BY <2>1, <2>2, <2>3
<1>4. ASSUME NEW v \in User, Written(v)', ~ Marked(v)'
      PROVE  iter_offset'[SlotOf(v)'] = 0
  <2>1. CASE v = u /\ pc[u] = "write"
    <3>1. SlotOf(u)' = at[u] /\ at[u] \in Item
      BY <2>1, SlotIs, SlotStep
    <3> QED
      BY <1>2, <2>1, <3>1, VarStep
  <2>2. CASE ~ (v = u /\ pc[u] = "write")
    <3>1. Written(v) /\ ~ Marked(v) /\ SlotOf(v)' = SlotOf(v) /\ SlotOf(v) \in Item
      BY <1>4, <2>2, SlotStep, SlotIs
    <3>2. iter_offset[SlotOf(v)] = 0
      BY <1>1, <3>1 DEF Offsets
    <3>3. ~ (pc[u] = "scanned" /\ SlotOf(v) = user_entry[u])
      <4> SUFFICES ASSUME pc[u] = "scanned", SlotOf(v) = user_entry[u] PROVE FALSE
        OBVIOUS
      <4>1. v = u
        BY <3>1, PlaceIs, SlotIs
      <4> QED
        BY <1>4, <4>1, SlotStep
    <3> QED
      BY <1>2, <3>1, <3>2, <3>3, VarStep
  <2> QED
    BY <2>1, <2>2
<1>5. ASSUME NEW x \in Item, x[2] >= next_item'[x[1]]
      PROVE  iter_offset'[x] = 1
  <2>1. x[1] \in Chunk /\ x[2] \in Nat
    BY ItemIs, IndexIs
  <2>2. x[2] >= next_item[x[1]]
    BY <1>5, <2>1, NextItemStep
  <2>3. iter_offset[x] = 1
    BY <1>1, <2>2 DEF Offsets
  <2>4. next_item[x[1]] \in Nat
    BY <1>1, <2>1 DEF Types
  <2>5. ~ (pc[u] = "write" /\ x = at[u])
    BY <2>1, <2>2, <2>4, SlotIs
  <2>6. ~ (pc[u] = "scanned" /\ x = user_entry[u])
    BY <2>1, <2>2, <2>4, PlaceIs, SlotIs
  <2> QED
    BY <1>2, <2>3, <2>5, <2>6, VarStep
<1> QED
  BY <1>3, <1>4, <1>5 DEF Offsets

\* Only ReleaseChunk makes an item gone, and only its own.
LEMMA GoneStep ==
  ASSUME BaseInv, NEW u \in User, Step(u), NEW x \in Item
  PROVE  Gone(x)' <=> Gone(x) \/ (pc[u] = "free" /\ x = at[u])
<1>1. x[1] \in Chunk /\ x[2] \in Nat /\ x[2] < ChunkSize /\ ChunkSize \in Nat
  BY ItemIs, IndexIs
<1>2. next_item[x[1]] \in Nat
  BY <1>1 DEF BaseInv, Types
<1>3. CASE pc[u] = "slot" /\ pc'[u] = "write" /\ x = at'[u]
  <2>1. x[1] = at[u][1] /\ x[2] = next_item[at[u][1]]
    <3>1. next_item[at[u][1]] < ChunkSize
      BY <1>3, PcStep
    <3>2. x = <<at[u][1], next_item[at[u][1]]>>
      BY <1>3, <3>1, PcStep
    <3> QED
      BY <3>2
  <2>2. ~ Gone(x)
    BY <1>2, <2>1 DEF Gone
  <2>3. ~ Pushed(u)' /\ ~ Released(u)'
    BY <1>3, PlaceIs, SlotStep DEF Released
  <2>4. HasSlot(u)' /\ SlotOf(u)' = x
    BY <1>3, <2>3 DEF HasSlot, SlotOf
  <2>5. ~ Gone(x)'
    BY <2>3, <2>4 DEF Gone
  <2> QED
    BY <1>3, <2>2, <2>5
<1>4. CASE pc[u] = "free"
  <2>1. next_item' = next_item
    BY <1>4, VarStep
  <2>2. at[u] = user_entry[u] /\ Pushed(u)
    BY <1>4, PlaceIs
  <2>3. HasSlot(u) /\ SlotOf(u) = at[u] /\ at[u][2] < next_item[at[u][1]]
    BY <2>2, SlotIs
  <2>4. /\ \A v \in User : HasSlot(v)' <=> HasSlot(v)
        /\ \A v \in User : HasSlot(v) => SlotOf(v)' = SlotOf(v)
        /\ \A v \in User : Released(v)' <=> Released(v) \/ v = u
    BY <1>4, SlotStep
  <2>5. CASE x = at[u]
    <3>1. \A v \in User : HasSlot(v)' /\ SlotOf(v)' = x => v = u
      BY <2>3, <2>4, <2>5, SlotIs
    <3> QED
      BY <1>4, <2>1, <2>3, <2>4, <2>5, <3>1 DEF Gone
  <2>6. CASE x # at[u]
    <3>1. \A v \in User : HasSlot(v)' /\ SlotOf(v)' = x <=> HasSlot(v) /\ SlotOf(v) = x
      BY <2>4
    <3>2. ~ (HasSlot(u) /\ SlotOf(u) = x)
      BY <2>3, <2>6
    <3> QED
      BY <2>1, <2>4, <2>6, <3>1, <3>2 DEF Gone
  <2> QED
    BY <2>5, <2>6
<1>5. CASE pc[u] # "free" /\ ~ (pc[u] = "slot" /\ pc'[u] = "write" /\ x = at'[u])
  <2>1. \A v \in User : Released(v)' <=> Released(v)
    BY <1>5, SlotStep
  <2>2. \A v \in User : HasSlot(v)' /\ SlotOf(v)' = x <=> HasSlot(v) /\ SlotOf(v) = x
    <3> SUFFICES ASSUME NEW v \in User, HasSlot(v)', SlotOf(v)' = x, ~ HasSlot(v) PROVE FALSE
      BY SlotStep
    <3>1. v = u /\ pc[u] = "slot" /\ pc'[u] = "write"
      BY SlotStep
    <3>2. ~ Pushed(u)'
      BY <3>1, PlaceIs, SlotStep
    <3> QED
      BY <1>5, <3>1, <3>2 DEF SlotOf
  <2>3. x[2] < next_item'[x[1]] <=> x[2] < next_item[x[1]]
    <3>1. CASE pc[u] = "slot"
      <4>1. at[u][1] \in Chunk /\ next_item' = [next_item EXCEPT ![at[u][1]] = next_item[at[u][1]] + 1]
        BY <3>1, PlaceIs, VarStep
      <4>2. CASE x[1] # at[u][1]
        BY <1>1, <4>1, <4>2 DEF BaseInv, Types
      <4>3. CASE x[1] = at[u][1]
        <5>1. next_item'[x[1]] = next_item[x[1]] + 1
          BY <1>1, <4>1, <4>3 DEF BaseInv, Types
        <5>2. x[2] # next_item[x[1]]
          <6> SUFFICES ASSUME x[2] = next_item[x[1]] PROVE FALSE
            OBVIOUS
          <6>1. next_item[at[u][1]] < ChunkSize
            BY <1>1, <4>3
          <6>2. pc'[u] = "write" /\ at'[u] = <<at[u][1], next_item[at[u][1]]>>
            BY <3>1, <6>1, PcStep
          <6>3. at'[u] = <<x[1], x[2]>>
            BY <4>3, <6>2
          <6> QED
            BY <1>5, <3>1, <6>2, <6>3, ItemIs
        <5> QED
          BY <1>1, <1>2, <5>1, <5>2
      <4> QED
        BY <4>2, <4>3
    <3>2. CASE pc[u] # "slot"
      BY <3>2, VarStep
    <3> QED
      BY <3>1, <3>2
  <2> QED
    BY <1>5, <2>1, <2>2, <2>3 DEF Gone
<1> QED
  BY <1>3, <1>4, <1>5

\* The set of items of a chunk that are gone is finite.
LEMMA GoneFinite ==
  ASSUME NEW c \in Chunk
  PROVE  /\ GoneOf(c) \subseteq Index /\ IsFiniteSet(GoneOf(c)) /\ Cardinality(GoneOf(c)) \in Nat
         /\ Cardinality(GoneOf(c)) = ChunkSize => GoneOf(c) = Index
<1>1. IsFiniteSet(Index) /\ Cardinality(Index) = ChunkSize
  BY IndexIs, FS_Interval DEF Index
<1>2. GoneOf(c) \subseteq Index
  BY DEF GoneOf
<1> QED
  BY <1>1, <1>2, FS_Subset, FS_CardinalityType

\* freed_items counts along; the count gets to ChunkSize when all items are gone.
LEMMA FreedStep ==
  ASSUME BaseInv, NEW u \in User, Step(u)
  PROVE  Freed'
<1>1. Types /\ Freed
  BY DEF BaseInv
<1>2. SUFFICES ASSUME NEW c \in Chunk
               PROVE  /\ freed_items'[c] = Cardinality(GoneOf(c)')
                      /\ deleted'[c] => GoneOf(c)' = Index
  BY DEF Freed
<1>3. \A i \in Index : Gone(<<c, i>>)' <=> Gone(<<c, i>>) \/ (pc[u] = "free" /\ <<c, i>> = at[u])
  BY ItemIs, GoneStep
<1>4. CASE pc[u] = "free" /\ c = at[u][1]
  <2>1. at[u] \in Item /\ at[u][2] \in Index /\ at[u] = <<c, at[u][2]>>
    BY <1>4, PlaceIs, ItemIs
  <2>2. \A i \in Index : <<c, i>> = at[u] <=> i = at[u][2]
    BY <2>1, ItemIs
  <2>3. GoneOf(c)' = GoneOf(c) \union {at[u][2]}
    BY <1>3, <1>4, <2>1, <2>2 DEF GoneOf
  <2>4. at[u][2] \notin GoneOf(c)
    <3>1. at[u] = user_entry[u] /\ Pushed(u) /\ ~ Released(u)
      BY <1>4, PlaceIs DEF Released
    <3>2. ~ Gone(at[u])
      BY <3>1, SlotIs DEF Gone
    <3> QED
      BY <2>1, <3>2 DEF GoneOf
  <2>5. Cardinality(GoneOf(c)') = Cardinality(GoneOf(c)) + 1
    BY <2>3, <2>4, GoneFinite, FS_AddElement
  <2>6. /\ freed_items'[c] = freed_items[c] + 1
        /\ deleted'[c] = (deleted[c] \/ freed_items[c] + 1 = ChunkSize)
    BY <1>1, <1>4, VarStep DEF Types
  <2>7. freed_items[c] = Cardinality(GoneOf(c)) /\ ~ deleted[c]
    BY <1>1, <2>1, <2>4 DEF Freed
  <2>8. ASSUME freed_items[c] + 1 = ChunkSize PROVE GoneOf(c)' = Index
    <3>1. Cardinality(GoneOf(c)') = ChunkSize
      BY <2>5, <2>7, <2>8
    <3>2. IsFiniteSet(Index) /\ Cardinality(Index) = ChunkSize
      BY IndexIs, FS_Interval DEF Index
    <3>3. GoneOf(c)' \subseteq Index
      BY <2>1, <2>3, GoneFinite
    <3> QED
      BY <3>1, <3>2, <3>3, FS_Subset
  <2> QED
    BY <2>5, <2>6, <2>7, <2>8
<1>5. CASE ~ (pc[u] = "free" /\ c = at[u][1])
  <2>1. freed_items'[c] = freed_items[c] /\ deleted'[c] = deleted[c]
    BY <1>1, <1>5, VarStep DEF Types
  <2>2. \A i \in Index : Gone(<<c, i>>)' <=> Gone(<<c, i>>)
    BY <1>3, <1>5
  <2>3. GoneOf(c)' = GoneOf(c)
    BY <2>2 DEF GoneOf
  <2> QED
    BY <1>1, <2>1, <2>3 DEF Freed
<1> QED
  BY <1>4, <1>5

\* The offset of a removal is one more than that of the item before it, so it jumps over
\* that item, if that is removed, and over what that one jumped over.
LEMMA CoversStep ==
  ASSUME BaseInv, NEW u \in User, Step(u)
  PROVE  Covers'
<1>1. Types /\ Covers /\ Offsets
  BY DEF BaseInv
<1>2. SUFFICES ASSUME NEW x \in Item, NEW v \in User, HasSlot(v)', ~ Marked(v)',
                      Over(SlotOf(v)', x, iter_offset'[x])
               PROVE  v \in raced'
  BY DEF Covers
<1>3. x[1] \in Chunk /\ x[2] \in Nat /\ iter_offset[x] \in Nat /\ iter_offset \in [Item -> Nat]
  BY <1>1, ItemIs, IndexIs DEF Types
<1>4. raced \subseteq raced'
  BY VarStep
<1>5. ~ Marked(v)
  BY <1>2, SlotStep
<1>6. CASE ~ HasSlot(v)
  <2>1. v = u /\ pc[u] = "slot" /\ pc'[u] = "write"
    BY <1>2, <1>6, SlotStep
  <2>2. next_item[at[u][1]] < ChunkSize /\ ~ Pushed(u)'
    BY <2>1, PcStep, PlaceIs, SlotStep
  <2>3. SlotOf(u)' = <<at[u][1], next_item[at[u][1]]>>
    BY <2>1, <2>2, PcStep DEF SlotOf
  <2>4. iter_offset' = iter_offset
    BY <2>1, VarStep
  <2>5. x[1] = at[u][1] /\ x[2] - iter_offset[x] < next_item[x[1]] /\ next_item[x[1]] < x[2]
    BY <1>2, <2>1, <2>3, <2>4 DEF Over
  <2>6. next_item[x[1]] \in Nat
    BY <1>1, <1>3 DEF Types
  <2>7. iter_offset[x] = 1
    BY <1>1, <1>3, <2>5, <2>6 DEF Offsets
  <2> QED
    BY <1>3, <2>5, <2>6, <2>7
<1>7. CASE HasSlot(v) /\ iter_offset'[x] = iter_offset[x]
  BY <1>1, <1>2, <1>4, <1>5, <1>7, SlotStep DEF Covers
<1>8. CASE HasSlot(v) /\ pc[u] = "write" /\ x = at[u]
  <2>1. iter_offset'[x] = 0
    BY <1>3, <1>8, VarStep
  <2>2. SlotOf(v)' = SlotOf(v) /\ SlotOf(v)[2] \in Nat
    BY <1>8, SlotStep, SlotIs
  <2> QED
    BY <1>2, <1>3, <2>1, <2>2 DEF Over
<1>9. CASE HasSlot(v) /\ pc[u] = "scanned" /\ x = user_entry[u]
  <2> DEFINE y == SlotOf(v)
             z == <<x[1], x[2] - 1>>
  <2>1. iter_offset'[x] = OffsetOf(x) /\ raced' = raced \union Pending(x, OffsetOf(x))
    BY <1>3, <1>9, VarStep
  <2>2. y \in Item /\ y[1] \in Chunk /\ y[2] \in Nat /\ SlotOf(v)' = y
    BY <1>9, SlotStep, SlotIs
  <2>3. y[1] = x[1] /\ x[2] - OffsetOf(x) < y[2] /\ y[2] < x[2]
    BY <1>2, <2>1, <2>2 DEF Over
  <2>4. x[2] # 0
    BY <1>3, <2>2, <2>3
  <2>5. x[2] - 1 \in Index
    BY <1>3, <2>4, ItemIs, IndexIs
  <2>6. z \in Item /\ z[1] = x[1] /\ z[2] = x[2] - 1
    BY <1>3, <2>5, ItemIs
  <2>7. iter_offset[z] \in Nat /\ OffsetOf(x) = iter_offset[z] + 1
    BY <1>1, <2>4, <2>6 DEF OffsetOf, Types
  <2> HIDE DEF y, z
  <2>8. CASE y[2] < x[2] - 1
    <3>1. Over(y, z, iter_offset[z])
      BY <1>3, <2>2, <2>3, <2>6, <2>7, <2>8 DEF Over
    <3> QED
      BY <1>1, <1>4, <1>5, <1>9, <2>6, <3>1 DEF Covers, y
  <2>9. CASE ~ (y[2] < x[2] - 1)
    <3>1. y[2] = x[2] - 1 /\ iter_offset[z] > 0
      BY <1>3, <2>2, <2>3, <2>7, <2>9
    <3>2. y = z
      BY <2>2, <2>3, <2>6, <3>1, ItemIs
    <3>3. ~ Written(v)
      BY <1>1, <1>5, <3>1, <3>2 DEF Offsets, y
    <3>4. pc[v] = "write" /\ at[v] = y
      BY <1>9, <3>3, SlotIs DEF y
    <3>5. y[2] \in (x[2] - OffsetOf(x) + 1)..(x[2] - 1)
      BY <1>3, <2>2, <2>3, <2>7
    <3>6. v \in Pending(x, OffsetOf(x))
      BY <2>3, <3>4, <3>5 DEF Pending
    <3> QED
      BY <2>1, <3>6
  <2> QED
    BY <2>8, <2>9
<1>10. \/ iter_offset'[x] = iter_offset[x]
       \/ pc[u] = "write" /\ x = at[u]
       \/ pc[u] = "scanned" /\ x = user_entry[u]
  BY <1>3, VarStep
<1> QED
  BY <1>6, <1>7, <1>8, <1>9, <1>10

\* A push gets a slot behind those of the pushes that had returned before it began.
LEMMA OrderStep ==
  ASSUME BaseInv, NEW u \in User, Step(u)
  PROVE  Order'
<1>1. Types /\ Order
  BY DEF BaseInv
<1>2. SUFFICES ASSUME NEW v \in User, NEW w \in before'[v]
               PROVE  /\ Pushed(w)'
                      /\ pc'[v] \in {"check", "slot"} => user_entry'[w][1] <= at'[v][1]
                      /\ HasSlot(v)' => Less(user_entry'[w], SlotOf(v)')
  BY DEF Order
<1>3. CASE v = u /\ pc[u] = "idle"
  <2>1. before'[u] = {t \in User : Pushed(t)}
    BY <1>1, <1>3, VarStep DEF Types
  <2>2. w \in User /\ Pushed(w)
    BY <1>2, <1>3, <2>1
  <2>3. pc'[u] = "head" /\ ~ Pushed(u)'
    BY <1>3, PcStep, PlaceIs, SlotStep
  <2>4. ~ HasSlot(u)'
    BY <2>3 DEF HasSlot
  <2> QED
    BY <1>3, <2>2, <2>3, <2>4, SlotStep
<1>4. CASE ~ (v = u /\ pc[u] = "idle")
  <2>1. before'[v] = before[v]
    BY <1>1, <1>4, VarStep DEF Types
  <2>2. /\ w \in User /\ Pushed(w)
        /\ pc[v] \in {"check", "slot"} => user_entry[w][1] <= at[v][1]
        /\ HasSlot(v) => Less(user_entry[w], SlotOf(v))
    BY <1>1, <1>2, <2>1 DEF Order, Types
  <2>3. Pushed(w)' /\ user_entry'[w] = user_entry[w]
    BY <2>2, SlotStep
  <2>4. /\ user_entry[w] \in Item /\ user_entry[w][1] \in Nat /\ user_entry[w][2] \in Nat
        /\ user_entry[w][1] \in Chunk /\ user_entry[w][1] <= head
        /\ user_entry[w][2] < next_item[user_entry[w][1]]
    BY <2>2, PlaceIs, SlotIs, ChunkIs
  <2>5. CASE v # u
    <3>1. pc'[v] = pc[v] /\ at'[v] = at[v]
      BY <1>1, <2>5, StepKeeps
    <3>2. HasSlot(v)' => HasSlot(v) /\ SlotOf(v)' = SlotOf(v)
      BY <2>5, SlotStep
    <3> QED
      BY <2>2, <2>3, <3>1, <3>2
  <2>6. CASE v = u /\ HasSlot(u)
    <3>1. pc'[u] \notin {"check", "slot"}
      <4>1. Phases'
        BY PhasesStep
      <4>2. HasSlot(u)'
        BY <2>6, SlotStep
      <4> QED
        BY <4>1, <4>2 DEF Phases, HasSlot, Unpushed, PushPcs
    <3> QED
      BY <2>2, <2>3, <2>6, <3>1, SlotStep
  <2>7. CASE v = u /\ ~ HasSlot(u) /\ HasSlot(u)'
    <3>1. pc[u] = "slot" /\ pc'[u] = "write"
      BY <2>7, SlotStep
    <3>2. next_item[at[u][1]] < ChunkSize /\ ~ Pushed(u)'
      BY <3>1, PcStep, PlaceIs, SlotStep
    <3>3. SlotOf(u)' = <<at[u][1], next_item[at[u][1]]>>
      BY <3>1, <3>2, PcStep DEF SlotOf
    <3>4. user_entry[w][1] <= at[u][1] /\ at[u][1] \in Nat
      BY <2>2, <2>7, <3>1, PlaceIs, ChunkIs
    <3>5. Less(user_entry[w], <<at[u][1], next_item[at[u][1]]>>)
      BY <2>4, <3>4 DEF Less
    <3> QED
      BY <2>3, <2>7, <3>1, <3>3, <3>5
  <2>8. CASE v = u /\ ~ HasSlot(u)'
    <3>1. ~ Pushed(u)' /\ ~ HasSlot(u)
      BY <2>8, SlotStep DEF HasSlot
    <3>2. pc[u] \in {"idle", "head", "first", "check", "slot", "alloc"}
      BY <3>1, PlaceIs DEF HasSlot
    <3>3. pc[u] = "head" /\ pc'[u] \in {"check", "slot"} => user_entry[w][1] <= at'[u][1]
      <4>1. pc[u] = "head" => at'[u] = <<head, -1>>
        BY PcStep
      <4> QED
        BY <2>4, <4>1
    <3>4. pc[u] = "check" => user_entry[w][1] <= at'[u][1]
      BY <2>2, <2>8, PcStep
    <3>5. pc'[u] \in {"check", "slot"} => pc[u] \in {"head", "check"}
      BY <3>2, PcStep
    <3> QED
      BY <2>3, <2>8, <3>3, <3>4, <3>5
  <2> QED
    BY <2>5, <2>6, <2>7, <2>8
<1> QED
  BY <1>3, <1>4

\* The part of the invariant that needs no mutex.
LEMMA BaseStep ==
  ASSUME BaseInv, NEW u \in User, Step(u)
  PROVE  BaseInv'
  BY TypesStep, PhasesStep, SlotsStep, ChunksStep, OffsetsStep, FreedStep, LinksStep, CoversStep,
     OrderStep DEF BaseInv

-----------------------------------------------------------------------------
(***************************************************************************)
(* A step preserves what the mutex makes true.                             *)
(***************************************************************************)

\* What a step does to reference counts, values and the mutex.
LEMMA RefStep ==
  ASSUME NEW u \in User, Step(u)
  PROVE  /\ pc[u] \in {"enter", "add"} =>
              refcount' = [refcount EXCEPT ![at[u]] = refcount[at[u]] + 1] /\ value' = value
         /\ pc[u] = "write" => value' = [value EXCEPT ![at[u]] = u] /\ refcount' = refcount
         /\ pc[u] = "drop" => ReleaseItem(at[u])
         /\ pc[u] = "removed" => ReleaseItem(user_entry[u])
         /\ pc[u] = "visit" =>
              \/ /\ ReleaseItem(at[u])
                 /\ seen' = [seen EXCEPT ![u] = @ \union ({value[at[u]]} \intersect User)]
              \/ refcount[at[u]] < 0 /\ UNCHANGED <<refcount, value>>
         /\ pc[u] \notin {"enter", "add", "sub", "write", "drop", "removed", "visit"} =>
              UNCHANGED <<refcount, value>>
         /\ locked /\ pc[u] \in {"pushed", "scanned"} => users_mutex = NoUser /\ users_mutex' = u
         /\ pc[u] \in {"end", "free"} => users_mutex' = NoUser
         /\ pc[u] \notin {"end", "free", "pushed", "scanned"} => users_mutex' = users_mutex
<1> USE DEF Goto, MoveTo, itemVars, lockVars
<1>1. CASE BeginPush(u)
  BY <1>1 DEF BeginPush
<1>2. CASE LoadHead(u)
  BY <1>2 DEF LoadHead
<1>3. CASE TryAllocateFirst(u)
  BY <1>3 DEF TryAllocateFirst
<1>4. CASE CheckSpace(u)
  BY <1>4 DEF CheckSpace
<1>5. CASE TakeSlot(u)
  BY <1>5 DEF TakeSlot
<1>6. CASE AllocateChunk(u)
  BY <1>6 DEF AllocateChunk
<1>7. CASE WriteItem(u)
  BY <1>7 DEF WriteItem
<1>8. CASE AcquireEntry(u)
  BY <1>8 DEF AcquireEntry
<1>9. CASE LoadOffset(u)
  BY <1>9 DEF LoadOffset
<1>10. CASE LoadRefcount(u)
  BY <1>10 DEF LoadRefcount
<1>11. CASE AddReference(u)
  BY <1>11 DEF AddReference
<1>12. CASE ReloadOffset(u)
  BY <1>12 DEF ReloadOffset
<1>13. CASE DropReference(u)
  BY <1>13 DEF DropReference
<1>14. CASE BeginScan(u)
  BY <1>14 DEF BeginScan, Lock
<1>15. CASE Advance(u)
  BY <1>15 DEF Advance
<1>16. CASE EndScan(u)
  BY <1>16 DEF EndScan, Unlock
<1>17. CASE MarkRemoved(u)
  BY <1>17 DEF MarkRemoved, Lock
<1>18. CASE RemoveReference(u)
  BY <1>18 DEF RemoveReference
<1>19. CASE ReleaseChunk(u)
  BY <1>19 DEF ReleaseChunk, Unlock
<1>20. CASE ReleaseEntry(u)
  BY <1>20 DEF ReleaseEntry
<1>21. CASE Throw(u)
  BY <1>21 DEF Throw
<1> QED
  BY Zenon, <1>1, <1>2, <1>3, <1>4, <1>5, <1>6, <1>7, <1>8, <1>9, <1>10, <1>11, <1>12, <1>13, <1>14,
     <1>15, <1>16, <1>17, <1>18, <1>19, <1>20, <1>21 DEF Step

\* Iteration and removal begin with the lock and end with its release.
LEMMA MutexStep ==
  ASSUME BaseInv, locked, LockedInv, NEW u \in User, Step(u)
  PROVE  Mutex'
<1>1. Types /\ Mutex
  BY DEF BaseInv, LockedInv
<1>2. ASSUME NEW v \in User, v # u, pc'[v] \in Critical PROVE users_mutex' = v
  <2>1. users_mutex = v
    BY <1>1, <1>2, StepKeeps DEF Mutex
  <2>2. pc[u] \notin {"end", "free"}
    BY <1>1, <1>2, <2>1 DEF Mutex, Critical, ScanPcs, RemovePcs
  <2>3. pc[u] \notin {"pushed", "scanned"}
    BY <2>1, UserIs, RefStep
  <2> QED
    BY <2>1, <2>2, <2>3, RefStep
<1>3. ASSUME pc'[u] \in Critical PROVE users_mutex' = u
  <2>1. CASE pc[u] \in {"pushed", "scanned"}
    BY <2>1, RefStep
  <2>2. CASE pc[u] \notin {"pushed", "scanned"}
    <3>1. pc[u] \in Critical /\ pc[u] \notin {"end", "free"}
      BY ZenonT(60), <1>3, <2>2, StepFrom, PcStep DEF Critical, AcquirePcs, ScanPcs, RemovePcs
    <3> QED
      BY <1>1, <2>2, <3>1, RefStep DEF Mutex
  <2> QED
    BY <2>1, <2>2
<1> QED
  BY <1>2, <1>3 DEF Mutex

\* An item with offset 0 has an owner that holds it.
LEMMA OwnerOf ==
  ASSUME BaseInv, NEW x \in Item, iter_offset[x] = 0
  PROVE  \E v \in User : Written(v) /\ HasSlot(v) /\ SlotOf(v) = x /\ ~ Marked(v) /\ pc[v] # "done"
                         /\ ~ HasRemoved(v)
<1>1. PICK v \in User : Written(v) /\ SlotOf(v) = x /\ ~ Marked(v)
  BY DEF BaseInv, Offsets
<1> QED
  BY <1>1, SlotIs DEF Marked, HasRemoved

\* Whoever holds a reference in its iterator holds the mutex.
LEMMA HeldIs ==
  ASSUME BaseInv, locked, LockedInv, NEW x \in Item, Held(x)
  PROVE  /\ iter_offset[x] = 0
         /\ \E w \in User : users_mutex = w /\ at[w] = x /\ pc[w] \in {"visit", "reload"}
<1>1. PICK w \in User : at[w] = x /\ pc[w] \in {"visit", "reload", "sub"}
  BY DEF Held, Acquired
<1>2. pc[w] # "sub" /\ iter_offset[x] = 0
  BY <1>1 DEF LockedInv, Reads
<1>3. users_mutex = w
  BY <1>1 DEF LockedInv, Mutex, Critical, AcquirePcs, ScanPcs
<1> QED
  BY <1>1, <1>2, <1>3

\* With the mutex, nobody else is at work when an item is held.
LEMMA Alone ==
  ASSUME BaseInv, locked, LockedInv, NEW u \in User, NEW x \in Item, Held(x),
         pc[u] \in {"load_offset", "load_refcount", "add", "reload", "sub", "visit", "end", "drop", "free"}
  PROVE  at[u] = x /\ pc[u] \in {"visit", "reload"}
<1>1. users_mutex = u
  BY DEF LockedInv, Mutex, Critical, AcquirePcs, ScanPcs, RemovePcs
<1> QED
  BY <1>1, HeldIs

\* The count of an item that an iterator has found and not acquired, or has.
LEMMA FoundCount ==
  ASSUME BaseInv, locked, LockedInv, NEW x \in Item, iter_offset[x] = 0
  PROVE  refcount[x] >= 0 /\ (Held(x) => refcount[x] >= 1)
<1>1. PICK v \in User : Written(v) /\ SlotOf(v) = x /\ ~ HasRemoved(v)
  BY OwnerOf
<1>2. refcount[x] = Bit(Held(x)) + Bit(HoldsEntry(v)) - Bit(HasRemoved(v))
  BY <1>1 DEF LockedInv, Counts
<1> QED
  BY <1>1, <1>2 DEF Bit

\* With the mutex, an offset that an iterator has read does not change.
LEMMA ReadsStep ==
  ASSUME BaseInv, locked, LockedInv, NEW u \in User, Step(u)
  PROVE  Reads'
<1>1. Types /\ Reads /\ Mutex /\ iter_offset \in [Item -> Nat] /\ step \in [User -> Nat]
  BY DEF BaseInv, LockedInv, Types
<1>2. ASSUME NEW v \in User, v # u
      PROVE  /\ pc'[v] \notin {"sub", "thrown"}
             /\ pc'[v] \in {"add", "reload", "visit"} \/ (pc'[v] = "load_refcount" /\ step'[v] = 0)
                  => iter_offset'[at'[v]] = 0
  <2>1. pc'[v] = pc[v] /\ at'[v] = at[v] /\ step'[v] = step[v]
    BY <1>1, <1>2, StepKeeps
  <2>2. pc[v] \notin {"sub", "thrown"}
    BY <1>1 DEF Reads
  <2>3. ASSUME pc[v] \in {"add", "reload", "visit"} \/ (pc[v] = "load_refcount" /\ step[v] = 0)
        PROVE  iter_offset'[at[v]] = 0
    <3>1. iter_offset[at[v]] = 0 /\ at[v] \in Item
      BY <1>1, <2>3, PlaceIs DEF Reads
    <3>2. users_mutex = v
      BY <1>1, <2>3 DEF Mutex, Critical, AcquirePcs, ScanPcs
    <3>3. pc[u] # "scanned"
      BY <3>2, UserIs, RefStep
    <3> QED
      BY <1>1, <3>1, <3>3, VarStep
  <2> QED
    BY <2>1, <2>2, <2>3
<1>3. pc[u] \in {"add", "reload", "visit"} \/ (pc[u] = "load_refcount" /\ step[u] = 0)
        => iter_offset[at[u]] = 0 /\ at[u] \in Item /\ refcount[at[u]] >= 0
  BY <1>1, PlaceIs, FoundCount DEF Reads
<1>4. pc[u] \in {"add", "reload", "visit", "load_refcount", "load_offset"} => iter_offset' = iter_offset
  BY VarStep
<1>5. pc[u] \notin {"sub", "thrown"}
  BY <1>1 DEF Reads
<1>6. CASE GoesBack(u)
  BY <1>2, <1>6, GoBackStep DEF Reads
<1>7. CASE ~ GoesBack(u)
  <2>1. pc[u] = "load_refcount" => step[u] = 0
    BY <1>1, <1>7 DEF GoesBack
  <2>2. pc[u] \notin {"pushed", "sub"}
    BY <1>7 DEF GoesBack
  <2>3. refcount[at[u]] >= 0 => ~ (refcount[at[u]] < 0) \/ pc[u] # "visit"
    <3>1. pc[u] = "visit" => at[u] \in Item
      BY PlaceIs
    <3> QED
      BY <3>1 DEF BaseInv, Types
  <2>4. pc[u] # "visit"
    <3> SUFFICES ASSUME pc[u] = "visit" PROVE FALSE
      OBVIOUS
    <3>1. pc'[u] = "thrown"
      BY <1>7 DEF GoesBack
    <3>2. ~ (refcount[at[u]] < 0)
      BY <1>3, <2>3
    <3>3. GoBack(u, at[u], 1)
      BY <3>2, PcStep
    <3> QED
      BY <1>1, <3>1, <3>3 DEF GoBack, Types
  <2>5. /\ pc'[u] \notin {"sub", "thrown"}
        /\ pc'[u] \in {"add", "reload", "visit"} => iter_offset'[at'[u]] = 0
    BY ZenonT(60), <1>3, <1>4, <2>1, <2>2, <2>4, StepFrom, PcStep
  <2>6. pc'[u] = "load_refcount" => pc[u] = "load_offset"
    BY <2>1, <2>2, <2>4, StepFrom, PcStep
  <2>7. pc[u] = "load_offset" => at'[u] = at[u] /\ step'[u] = iter_offset[at[u]]
    BY PcStep
  <2> QED
    BY <1>2, <1>4, <2>5, <2>6, <2>7 DEF Reads
<1> QED
  BY <1>6, <1>7

\* With the mutex no release throws, and an iteration does not give up an item.
LEMMA NoThrow ==
  ASSUME BaseInv, locked, LockedInv, NEW u \in User, Step(u)
  PROVE  /\ pc'[u] # "thrown" /\ pc[u] # "sub"
         /\ pc[u] = "visit" =>
              /\ ReleaseItem(at[u])
              /\ seen' = [seen EXCEPT ![u] = @ \union ({value[at[u]]} \intersect User)]
         /\ pc[u] \in {"add", "visit"} => iter_offset[at[u]] = 0 /\ at[u] \in Item
         /\ pc[u] = "load_refcount" /\ step[u] = 0 => pc'[u] = "add"
         /\ pc[u] = "reload" => pc'[u] = "visit"
<1>1. Reads /\ Reads'
  BY ReadsStep DEF LockedInv
<1>2. /\ pc'[u] # "thrown" /\ pc[u] # "sub"
      /\ pc[u] \in {"add", "reload", "visit"} \/ (pc[u] = "load_refcount" /\ step[u] = 0)
           => iter_offset[at[u]] = 0
  BY <1>1 DEF Reads
<1>3. pc[u] \in {"add", "reload", "visit", "load_refcount"} => at[u] \in Item
  BY PlaceIs
<1>4. pc[u] \in {"visit", "load_refcount"} => refcount[at[u]] \in Int
  BY <1>3 DEF BaseInv, Types
<1>5. pc[u] = "visit" \/ (pc[u] = "load_refcount" /\ step[u] = 0) => ~ (refcount[at[u]] < 0)
  BY <1>2, <1>3, <1>4, FoundCount
<1>6. pc[u] = "visit" => /\ ReleaseItem(at[u])
                         /\ seen' = [seen EXCEPT ![u] = @ \union ({value[at[u]]} \intersect User)]
  BY <1>5, RefStep
<1>7. pc[u] = "load_refcount" /\ step[u] = 0 => pc'[u] = "add"
  <2>1. pc[u] = "load_refcount" /\ step[u] = 0 => refcount[at[u]] >= 0
    BY <1>4, <1>5
  <2> QED
    BY <2>1, PcStep
<1> QED
  BY <1>2, <1>3, <1>6, <1>7, PcStep

\* Which references a step makes and drops.
LEMMA HoldStep ==
  ASSUME BaseInv, locked, LockedInv, NEW u \in User, Step(u)
  PROVE  /\ \A x \in Item : Held(x)' <=> \/ Held(x) /\ ~ (pc[u] = "visit" /\ x = at[u])
                                         \/ pc[u] = "add" /\ x = at[u]
         /\ \A v \in User : HoldsEntry(v)' <=> \/ HoldsEntry(v) /\ ~ (v = u /\ pc[u] = "removed")
                                               \/ v = u /\ pc[u] = "enter"
         /\ \A v \in User : HasRemoved(v)' <=> HasRemoved(v) \/ (v = u /\ pc[u] = "drop")
         /\ \A v \in User : pc'[v] = "done" <=> pc[v] = "done" \/ (v = u /\ pc[u] = "removed")
<1>1. Types
  BY DEF BaseInv
<1>2. \A v \in User : v # u => pc'[v] = pc[v] /\ at'[v] = at[v]
  BY <1>1, StepKeeps
<1>3. /\ pc'[u] \in {"visit", "reload", "sub"} <=> pc[u] \in {"add", "reload"}
      /\ pc[u] \in {"add", "reload"} => at'[u] = at[u]
  <2>1. CASE GoesBack(u)
    BY <2>1, GoBackStep DEF GoesBack
  <2>2. CASE ~ GoesBack(u)
    <3>1. pc[u] = "load_refcount" => step[u] = 0
      BY <1>1, <2>2 DEF GoesBack, Types
    <3>2. pc[u] \notin {"pushed", "sub", "visit"}
      BY <2>2, NoThrow DEF GoesBack
    <3> QED
      BY ZenonT(60), <3>1, <3>2, NoThrow, StepFrom, PcStep
  <2> QED
    BY <2>1, <2>2
<1>4. ASSUME NEW x \in Item
      PROVE  Held(x)' <=> \/ Held(x) /\ ~ (pc[u] = "visit" /\ x = at[u])
                          \/ pc[u] = "add" /\ x = at[u]
  <2>1. ASSUME Held(x)', ~ (pc[u] = "add" /\ x = at[u])
        PROVE  Held(x) /\ ~ (pc[u] = "visit" /\ x = at[u])
    <3>1. PICK w \in User : at'[w] = x /\ pc'[w] \in {"visit", "reload", "sub"}
      BY <2>1 DEF Held, Acquired
    <3>2. Held(x) /\ (w = u => pc[u] = "reload")
      BY <1>2, <1>3, <2>1, <3>1 DEF Held, Acquired
    <3>3. ASSUME pc[u] = "visit" PROVE FALSE
      <4>1. w # u /\ pc[w] \in {"visit", "reload", "sub"} /\ pc[u] \in Critical /\ pc[w] \in Critical
        BY <1>2, <3>1, <3>2, <3>3 DEF Critical, AcquirePcs, ScanPcs
      <4> QED
        BY <4>1 DEF LockedInv, Mutex
    <3> QED
      BY <3>2, <3>3
  <2>2. ASSUME Held(x), ~ (pc[u] = "visit" /\ x = at[u]) PROVE Held(x)'
    <3>1. PICK w \in User : at[w] = x /\ pc[w] \in {"visit", "reload", "sub"}
      BY <2>2 DEF Held, Acquired
    <3>2. at'[w] = x /\ pc'[w] \in {"visit", "reload", "sub"}
      BY <1>2, <1>3, <2>2, <3>1, NoThrow
    <3> QED
      BY <3>2 DEF Held, Acquired
  <2>3. ASSUME pc[u] = "add", x = at[u] PROVE Held(x)'
    BY <1>3, <2>3 DEF Held, Acquired
  <2> QED
    BY <2>1, <2>2, <2>3
<1>5. /\ pc'[u] = "done" <=> pc[u] = "removed"
      /\ pc'[u] \in {"free", "removed", "done"} <=> pc[u] \in {"drop", "free", "removed"}
  <2>1. CASE GoesBack(u)
    BY <2>1, GoBackStep DEF GoesBack
  <2>2. CASE ~ GoesBack(u)
    <3>1. pc[u] = "load_refcount" => step[u] = 0
      BY <1>1, <2>2 DEF GoesBack, Types
    <3>2. pc[u] \notin {"pushed", "sub", "visit"}
      BY <2>2, NoThrow DEF GoesBack
    <3> QED
      BY <3>1, <3>2, StepFrom, PcStep
  <2> QED
    BY <2>1, <2>2
<1>6. pc[u] # "done"
  BY StepFrom
<1>7. \A v \in User : Pushed(v)' <=> Pushed(v) \/ (v = u /\ pc[u] = "enter")
  BY SlotStep
<1>8. \A v \in User : pc'[v] = "done" <=> pc[v] = "done" \/ (v = u /\ pc[u] = "removed")
  BY <1>2, <1>5, <1>6
<1>9. \A v \in User : HasRemoved(v)' <=> HasRemoved(v) \/ (v = u /\ pc[u] = "drop")
  BY <1>2, <1>5, <1>6 DEF HasRemoved
<1>10. \A v \in User : HoldsEntry(v)' <=> \/ HoldsEntry(v) /\ ~ (v = u /\ pc[u] = "removed")
                                          \/ v = u /\ pc[u] = "enter"
  BY <1>6, <1>7, <1>8 DEF HoldsEntry
<1> QED
  BY <1>4, <1>8, <1>9, <1>10

\* The item of which a step changes the reference count, and by how much.
Touched(u) == IF pc[u] = "removed" THEN user_entry[u] ELSE at[u]
Touches(u) == pc[u] \in {"enter", "add", "visit", "drop", "removed"}
Delta(u) == IF pc[u] \in {"enter", "add"} THEN 1 ELSE -1

\* Which step changes a reference count, and of which item.
LEMMA TouchStep ==
  ASSUME BaseInv, locked, LockedInv, NEW u \in User, Step(u)
  PROVE  /\ Touches(u) =>
              /\ Touched(u) \in Item /\ refcount[Touched(u)] \in Int
              /\ refcount'[Touched(u)] = refcount[Touched(u)] + Delta(u)
              /\ \E w \in User : Written(w) /\ HasSlot(w) /\ SlotOf(w) = Touched(u)
              /\ pc[u] \notin {"add", "visit"} => Written(u) /\ SlotOf(u) = Touched(u)
         /\ \A x \in Item : ~ (Touches(u) /\ x = Touched(u)) => refcount'[x] = refcount[x]
<1>1. refcount \in [Item -> Int]
  BY DEF BaseInv, Types
<1>2. pc[u] # "sub"
  BY NoThrow
<1>3. ASSUME Touches(u)
      PROVE  /\ Touched(u) \in Item
             /\ \E w \in User : Written(w) /\ HasSlot(w) /\ SlotOf(w) = Touched(u)
             /\ pc[u] \notin {"add", "visit"} => Written(u) /\ SlotOf(u) = Touched(u)
  <2>1. CASE pc[u] \in {"add", "visit"}
    <3>1. iter_offset[at[u]] = 0 /\ at[u] \in Item
      BY <2>1, NoThrow
    <3> QED
      BY <2>1, <3>1, OwnerOf DEF Touched
  <2>2. CASE pc[u] = "enter"
    <3>1. HasSlot(u) /\ SlotOf(u) = at[u] /\ at[u] \in Item /\ Written(u)
      BY <2>2, SlotIs, PlaceIs DEF Written
    <3> QED
      BY <2>2, <3>1 DEF Touched
  <2>3. CASE pc[u] \in {"drop", "removed"}
    <3>1. Pushed(u) /\ user_entry[u] \in Item /\ (pc[u] = "drop" => at[u] = user_entry[u])
      BY <2>3, PlaceIs
    <3> QED
      BY <2>3, <3>1, SlotIs DEF Touched
  <2> QED
    BY <1>3, <2>1, <2>2, <2>3 DEF Touches
<1>4. Touches(u) => refcount' = [refcount EXCEPT ![Touched(u)] = refcount[Touched(u)] + Delta(u)]
  <2>1. CASE pc[u] \in {"enter", "add"}
    BY <2>1, RefStep DEF Touched, Delta
  <2>2. CASE pc[u] \in {"visit", "drop", "removed"}
    <3>1. ReleaseItem(Touched(u))
      BY <2>2, RefStep, NoThrow DEF Touched
    <3>2. refcount' = [refcount EXCEPT ![Touched(u)] = refcount[Touched(u)] - 1]
      BY <3>1 DEF ReleaseItem
    <3>3. Touches(u) => refcount[Touched(u)] \in Int
      BY <1>1, <1>3
    <3> QED
      BY <2>2, <3>2, <3>3 DEF Delta
  <2> QED
    BY <2>1, <2>2 DEF Touches
<1>5. ~ Touches(u) => refcount' = refcount
  BY <1>2, RefStep DEF Touches
<1>6. ASSUME Touches(u)
      PROVE  /\ refcount[Touched(u)] \in Int /\ refcount'[Touched(u)] = refcount[Touched(u)] + Delta(u)
             /\ \A x \in Item : x # Touched(u) => refcount'[x] = refcount[x]
  BY <1>1, <1>3, <1>4, <1>6
<1> QED
  BY <1>3, <1>5, <1>6

\* Every step keeps the reference counts exact.
LEMMA CountsStep ==
  ASSUME BaseInv, locked, LockedInv, NEW u \in User, Step(u)
  PROVE  Counts'
<1>1. Types /\ Counts
  BY DEF BaseInv, LockedInv
<1>2. ASSUME NEW v \in User, Written(v)'
      PROVE  (refcount[SlotOf(v)] =
                Bit(Held(SlotOf(v))) + Bit(HoldsEntry(v)) - Bit(HasRemoved(v)))'
  <2>0. PICK x : x = SlotOf(v)
    OBVIOUS
  <2>1. HasSlot(v) /\ SlotOf(v)' = x /\ x \in Item
    <3>1. Written(v) \/ pc[v] = "write"
      BY <1>2, SlotStep
    <3>2. HasSlot(v)
      BY <3>1, SlotIs
    <3> QED
      BY <2>0, <3>2, SlotIs, SlotStep
  <2>2. /\ Held(x)' <=> \/ Held(x) /\ ~ (pc[u] = "visit" /\ x = at[u])
                        \/ pc[u] = "add" /\ x = at[u]
        /\ HoldsEntry(v)' <=> \/ HoldsEntry(v) /\ ~ (v = u /\ pc[u] = "removed")
                              \/ v = u /\ pc[u] = "enter"
        /\ HasRemoved(v)' <=> HasRemoved(v) \/ (v = u /\ pc[u] = "drop")
    BY <2>1, HoldStep
  <2>3. Written(v) => refcount[x] = Bit(Held(x)) + Bit(HoldsEntry(v)) - Bit(HasRemoved(v))
    BY <1>1, <2>0 DEF Counts
  <2>4. SUFFICES refcount'[x] = Bit(Held(x)') + Bit(HoldsEntry(v)') - Bit(HasRemoved(v)')
    BY <2>1 DEF Bit
  <2>5. CASE ~ Written(v)
    <3>1. v = u /\ pc[u] = "write" /\ x = at[u]
      BY <1>2, <2>0, <2>5, SlotStep, SlotIs
    <3>2. refcount'[x] = 0
      BY <1>1, <3>1, RefStep DEF Counts
    <3>3. ~ HoldsEntry(v) /\ ~ HasRemoved(v)
      BY <3>1, PlaceIs DEF HoldsEntry, HasRemoved
    <3>4. ~ Held(x)
      <4> SUFFICES ASSUME Held(x) PROVE FALSE
        OBVIOUS
      <4>1. iter_offset[x] = 0
        BY <2>1, HeldIs
      <4>2. PICK w \in User : Written(w) /\ HasSlot(w) /\ SlotOf(w) = x
        BY <2>1, <4>1, OwnerOf
      <4> QED
        BY <2>0, <2>1, <2>5, <4>2, SlotIs
    <3> QED
      BY <2>2, <3>1, <3>2, <3>3, <3>4 DEF Bit
  <2>6. CASE Written(v) /\ ~ (Touches(u) /\ x = Touched(u))
    <3>1. refcount'[x] = refcount[x]
      BY <2>1, <2>6, TouchStep
    <3>2. Held(x)' <=> Held(x)
      BY <2>2, <2>6 DEF Touches, Touched
    <3>3. v = u => pc[u] \notin {"enter", "drop", "removed"}
      BY <2>0, <2>6, TouchStep DEF Touches
    <3>4. (HoldsEntry(v)' <=> HoldsEntry(v)) /\ (HasRemoved(v)' <=> HasRemoved(v))
      BY <2>2, <3>3
    <3> QED
      BY <2>3, <2>6, <3>1, <3>2, <3>4 DEF Bit
  <2>7. CASE Written(v) /\ Touches(u) /\ x = Touched(u)
    <3>1. refcount[x] \in Int /\ refcount'[x] = refcount[x] + Delta(u)
      BY <2>7, TouchStep
    <3>2. pc[u] \notin {"add", "visit"} => v = u
      BY ZenonT(60), <2>0, <2>1, <2>7, TouchStep, SlotIs
    <3>3. refcount[x] = Bit(Held(x)) + Bit(HoldsEntry(v)) - Bit(HasRemoved(v))
      BY <2>3, <2>7
    <3>4. CASE pc[u] = "add"
      <4>1. ~ Held(x) /\ Held(x)' /\ Delta(u) = 1
        BY <2>1, <2>2, <2>7, <3>4, Alone DEF Touched, Delta
      <4>2. (HoldsEntry(v)' <=> HoldsEntry(v)) /\ (HasRemoved(v)' <=> HasRemoved(v))
        BY <2>2, <3>4
      <4> QED
        BY <3>1, <3>3, <4>1, <4>2 DEF Bit
    <3>5. CASE pc[u] = "visit"
      <4>1. Held(x) /\ ~ Held(x)' /\ Delta(u) = -1
        BY <2>1, <2>2, <2>7, <3>5 DEF Touched, Delta, Held, Acquired
      <4>2. (HoldsEntry(v)' <=> HoldsEntry(v)) /\ (HasRemoved(v)' <=> HasRemoved(v))
        BY <2>2, <3>5
      <4> QED
        BY <3>1, <3>3, <4>1, <4>2 DEF Bit
    <3>6. CASE pc[u] = "enter"
      <4>1. v = u /\ Delta(u) = 1 /\ (Held(x)' <=> Held(x))
        BY <2>2, <3>2, <3>6 DEF Delta
      <4>2. ~ HoldsEntry(v) /\ HoldsEntry(v)' /\ (HasRemoved(v)' <=> HasRemoved(v))
        BY <2>2, <3>6, <4>1, PlaceIs DEF HoldsEntry
      <4> QED
        BY <3>1, <3>3, <4>1, <4>2 DEF Bit
    <3>7. CASE pc[u] = "drop"
      <4>1. v = u /\ Delta(u) = -1 /\ (Held(x)' <=> Held(x))
        BY <2>2, <3>2, <3>7 DEF Delta
      <4>2. (HoldsEntry(v)' <=> HoldsEntry(v)) /\ ~ HasRemoved(v) /\ HasRemoved(v)'
        BY <2>2, <3>7, <4>1 DEF HasRemoved
      <4> QED
        BY <3>1, <3>3, <4>1, <4>2 DEF Bit
    <3>8. CASE pc[u] = "removed"
      <4>1. v = u /\ Delta(u) = -1 /\ (Held(x)' <=> Held(x))
        BY <2>2, <3>2, <3>8 DEF Delta
      <4>2. HoldsEntry(v) /\ ~ HoldsEntry(v)' /\ (HasRemoved(v)' <=> HasRemoved(v))
        BY <2>2, <3>8, <4>1, PlaceIs DEF HoldsEntry
      <4> QED
        BY <3>1, <3>3, <4>1, <4>2 DEF Bit
    <3> QED
      BY <2>7, <3>4, <3>5, <3>6, <3>7, <3>8 DEF Touches
  <2> QED
    BY <2>5, <2>6, <2>7
<1>3. ASSUME NEW v \in User, pc'[v] = "write" PROVE refcount'[at'[v]] = 0
  <2>1. CASE v = u
    <3>1. pc[u] = "slot"
      <4>1. CASE GoesBack(u)
        BY <1>3, <2>1, <4>1, GoBackStep
      <4>2. CASE ~ GoesBack(u)
        <5>1. pc[u] = "load_refcount" => step[u] = 0
          BY <1>1, <4>2 DEF GoesBack, Types
        <5>2. pc[u] \notin {"pushed", "sub", "visit"}
          BY <4>2, NoThrow DEF GoesBack
        <5> QED
          BY <1>3, <2>1, <5>1, <5>2, StepFrom, PcStep
      <4> QED
        BY <4>1, <4>2
    <3>2. next_item[at[u][1]] < ChunkSize
      BY <1>3, <2>1, <3>1, PcStep
    <3>3. at'[u] = <<at[u][1], next_item[at[u][1]]>>
      BY <3>1, <3>2, PcStep
    <3>4. at[u][1] \in Chunk /\ next_item[at[u][1]] \in Nat
      BY <1>1, <3>1, PlaceIs DEF Types
    <3>5. next_item[at[u][1]] \in Index
      BY <3>2, <3>4, IndexIs
    <3>6. at'[u] \in Item /\ at'[u][1] = at[u][1] /\ at'[u][2] = next_item[at[u][1]]
      BY <3>3, <3>4, <3>5, ItemIs
    <3>7. refcount[at'[u]] = 0
      BY <1>1, <3>4, <3>6 DEF Counts
    <3> QED
      BY <2>1, <3>1, <3>7, RefStep
  <2>2. CASE v # u
    <3>1. pc[v] = "write" /\ at'[v] = at[v]
      BY <1>1, <1>3, <2>2, StepKeeps
    <3>2. refcount[at[v]] = 0 /\ at[v] \in Item
      BY <1>1, <3>1, PlaceIs DEF Counts
    <3>3. HasSlot(v) /\ SlotOf(v) = at[v] /\ ~ Written(v)
      BY <3>1, SlotIs DEF Written
    <3>4. ~ (Touches(u) /\ at[v] = Touched(u))
      BY <3>3, TouchStep, SlotIs
    <3> QED
      BY <3>1, <3>2, <3>4, TouchStep
  <2> QED
    BY <2>1, <2>2
<1>4. ASSUME NEW x \in Item, x[2] >= next_item'[x[1]] PROVE refcount'[x] = 0
  <2>1. x[1] \in Chunk /\ x[2] \in Nat
    BY ItemIs, IndexIs
  <2>2. x[2] >= next_item[x[1]] /\ next_item[x[1]] \in Nat
    BY <1>4, <2>1, NextItemStep
  <2>3. refcount[x] = 0
    BY <1>1, <2>2 DEF Counts
  <2>4. ~ (Touches(u) /\ x = Touched(u))
    BY <2>1, <2>2, TouchStep, SlotIs
  <2> QED
    BY <2>3, <2>4, TouchStep
<1> QED
  BY <1>2, <1>3, <1>4 DEF Counts

\* An item gets its value from its push and loses it with the last release.
LEMMA ValuesStep ==
  ASSUME BaseInv, locked, LockedInv, NEW u \in User, Step(u)
  PROVE  Values'
<1>1. Types /\ Values /\ value \in [Item -> User \union {Raw, Destroyed}]
  BY DEF BaseInv, LockedInv, Types
<1>2. pc[u] = "write" => at[u] \in Item /\ HasSlot(u) /\ SlotOf(u) = at[u]
  BY PlaceIs, SlotIs
<1>3. pc[u] = "removed" => /\ user_entry[u] \in Item /\ SlotOf(u) = user_entry[u] /\ HasSlot(u)
                           /\ refcount[user_entry[u]] = 0
  <2> SUFFICES ASSUME pc[u] = "removed"
               PROVE  /\ user_entry[u] \in Item /\ SlotOf(u) = user_entry[u] /\ HasSlot(u)
                      /\ refcount[user_entry[u]] = 0
    OBVIOUS
  <2>1. Pushed(u) /\ user_entry[u] \in Item /\ SlotOf(u) = user_entry[u] /\ HasSlot(u) /\ Written(u)
    BY PlaceIs, SlotIs
  <2>2. ~ Held(user_entry[u])
    <3> SUFFICES ASSUME Held(user_entry[u]) PROVE FALSE
      OBVIOUS
    <3>1. PICK w \in User : HasSlot(w) /\ SlotOf(w) = user_entry[u] /\ ~ Marked(w)
      BY <2>1, HeldIs, OwnerOf
    <3>2. w = u
      BY <2>1, <3>1, SlotIs
    <3> QED
      BY <3>1, <3>2 DEF Marked
  <2>3. HoldsEntry(u) /\ HasRemoved(u)
    BY <2>1 DEF HoldsEntry, HasRemoved
  <2>4. refcount[SlotOf(u)] = Bit(Held(SlotOf(u))) + Bit(HoldsEntry(u)) - Bit(HasRemoved(u))
    BY <2>1 DEF LockedInv, Counts
  <2> QED
    BY <2>1, <2>2, <2>3, <2>4 DEF Bit
<1>4. ASSUME pc[u] \in {"visit", "drop"} PROVE value' = value
  <2>1. ReleaseItem(at[u]) /\ at[u] \in Item
    BY <1>4, RefStep, NoThrow, PlaceIs
  <2>2. refcount[at[u]] # 0
    <3>1. CASE pc[u] = "visit"
      <4>1. Held(at[u]) /\ iter_offset[at[u]] = 0
        BY <3>1, NoThrow DEF Held, Acquired
      <4>2. refcount[at[u]] >= 1
        BY <2>1, <4>1, FoundCount
      <4> QED
        BY <4>2
    <3>2. CASE pc[u] = "drop"
      <4>1. Pushed(u) /\ at[u] = user_entry[u] /\ SlotOf(u) = user_entry[u] /\ Written(u)
        BY <3>2, PlaceIs, SlotIs
      <4>2. ~ Held(at[u])
        BY <2>1, <3>2, Alone
      <4>3. HoldsEntry(u) /\ ~ HasRemoved(u)
        BY <3>2, <4>1 DEF HoldsEntry, HasRemoved
      <4>4. refcount[SlotOf(u)] = Bit(Held(SlotOf(u))) + Bit(HoldsEntry(u)) - Bit(HasRemoved(u))
        BY <4>1 DEF LockedInv, Counts
      <4> QED
        BY <4>1, <4>2, <4>3, <4>4 DEF Bit
    <3> QED
      BY <1>4, <3>1, <3>2
  <2>3. value' = [value EXCEPT ![at[u]] = value[at[u]]]
    BY <2>1, <2>2 DEF ReleaseItem
  <2> QED
    BY <1>1, <2>3
<1>5. ASSUME pc[u] = "removed"
      PROVE  /\ value'[user_entry[u]] = Destroyed
             /\ \A x \in Item : x # user_entry[u] => value'[x] = value[x]
  <2>1. ReleaseItem(user_entry[u])
    BY <1>5, RefStep
  <2>2. value' = [value EXCEPT ![user_entry[u]] = Destroyed]
    BY <1>3, <1>5, <2>1 DEF ReleaseItem
  <2> QED
    BY <1>1, <1>3, <1>5, <2>2
<1>6. ASSUME pc[u] = "write"
      PROVE  value'[at[u]] = u /\ \A x \in Item : x # at[u] => value'[x] = value[x]
  <2>1. value' = [value EXCEPT ![at[u]] = u]
    BY <1>6, RefStep
  <2> QED
    BY <1>1, <1>2, <1>6, <2>1
<1>7. pc[u] \notin {"write", "removed"} => value' = value
  BY <1>4, RefStep, NoThrow
<1>8. ASSUME NEW v \in User, Written(v)'
      PROVE  (value[SlotOf(v)] = IF pc[v] = "done" THEN Destroyed ELSE v)'
  <2>1. PICK x : x = SlotOf(v)
    OBVIOUS
  <2>2. HasSlot(v) /\ SlotOf(v)' = x /\ x \in Item /\ (~ Written(v) => v = u /\ pc[u] = "write")
    <3>1. Written(v) \/ (v = u /\ pc[u] = "write")
      BY <1>8, SlotStep
    <3>2. HasSlot(v)
      BY <3>1, SlotIs
    <3> QED
      BY <2>1, <3>1, <3>2, SlotIs, SlotStep
  <2>3. pc'[v] = "done" <=> pc[v] = "done" \/ (v = u /\ pc[u] = "removed")
    BY HoldStep
  <2>4. Written(v) => value[x] = IF pc[v] = "done" THEN Destroyed ELSE v
    BY <1>1, <2>1 DEF Values
  <2>5. value'[x] = IF pc'[v] = "done" THEN Destroyed ELSE v
    <3>1. CASE v = u /\ pc[u] = "write"
      BY <1>2, <1>6, <2>1, <2>3, <3>1
    <3>2. CASE v # u /\ pc[u] = "write"
      <4>1. x # at[u]
        BY <1>2, <2>1, <2>2, <3>2, SlotIs
      <4> QED
        BY <1>6, <2>2, <2>3, <2>4, <3>2, <4>1
    <3>3. CASE v = u /\ pc[u] = "removed"
      BY <1>3, <1>5, <2>1, <2>3, <3>3
    <3>4. CASE v # u /\ pc[u] = "removed"
      <4>1. x # user_entry[u]
        BY <1>3, <2>1, <2>2, <3>4, SlotIs
      <4> QED
        BY <1>5, <2>2, <2>3, <2>4, <3>4, <4>1
    <3>5. CASE pc[u] \notin {"write", "removed"}
      BY <1>7, <2>2, <2>3, <2>4, <3>5
    <3> QED
      BY <3>1, <3>2, <3>3, <3>4, <3>5
  <2> QED
    BY <2>2, <2>5
<1>9. ASSUME NEW x \in Item, value'[x] \in User
      PROVE  \E v \in User : Written(v)' /\ SlotOf(v)' = x
  <2>1. CASE pc[u] = "write" /\ x = at[u]
    BY <1>2, <2>1, SlotStep
  <2>2. CASE ~ (pc[u] = "write" /\ x = at[u])
    <3>1. value[x] \in User
      BY <1>5, <1>6, <1>7, <1>9, <2>2, UserIs
    <3>2. PICK v \in User : Written(v) /\ SlotOf(v) = x
      BY <1>1, <3>1 DEF Values
    <3> QED
      BY <3>2, SlotIs, SlotStep
  <2> QED
    BY <2>1, <2>2
<1> QED
  BY <1>8, <1>9 DEF Values

\* An item that is there is not in a deleted chunk.
LEMMA ThereIs ==
  ASSUME BaseInv, NEW w \in User, Pushed(w), iter_offset[user_entry[w]] = 0
  PROVE  /\ user_entry[w] \in Item /\ user_entry[w][2] < next_item[user_entry[w][1]]
         /\ user_entry[w][1] \in Nat /\ user_entry[w][2] \in Nat
         /\ ~ deleted[user_entry[w][1]]
         /\ HasSlot(w) /\ Written(w) /\ SlotOf(w) = user_entry[w] /\ ~ Marked(w)
<1>1. /\ user_entry[w] \in Item /\ HasSlot(w) /\ Written(w) /\ SlotOf(w) = user_entry[w]
      /\ user_entry[w][2] < next_item[user_entry[w][1]]
  BY PlaceIs, SlotIs
<1>2. /\ user_entry[w][1] \in Nat /\ user_entry[w][2] \in Nat
      /\ user_entry[w][1] \in Chunk /\ user_entry[w][2] \in Index
      /\ user_entry[w] = <<user_entry[w][1], user_entry[w][2]>>
  BY <1>1, ItemIs, IndexIs, ChunkIs
<1>3. ~ Marked(w)
  <2>1. PICK v \in User : HasSlot(v) /\ SlotOf(v) = user_entry[w] /\ ~ Marked(v)
    BY <1>1, OwnerOf
  <2> QED
    BY <1>1, <2>1, SlotIs
<1>4. ASSUME deleted[user_entry[w][1]] PROVE FALSE
  <2>1. Gone(user_entry[w])
    BY <1>2, <1>4 DEF BaseInv, Freed, GoneOf
  <2> QED
    BY <1>1, <1>3, <2>1 DEF Gone, Released, Marked
<1> QED
  BY <1>1, <1>2, <1>3, <1>4

\* An iterator goes back to the next item that is there, so that what it has missed
\* stays before it.
LEMMA ScansStep ==
  ASSUME BaseInv, locked, LockedInv, NEW u \in User, Step(u)
  PROVE  Scans'
<1>1. Types /\ Order /\ Scans
  BY DEF BaseInv, LockedInv
<1>2. SUFFICES ASSUME NEW v \in User, pc'[v] \in Iterating, NEW w \in User, Missed(v, w)'
               PROVE  /\ pc'[v] # "end"
                      /\ Less(user_entry'[w], at'[v]) \/ user_entry'[w] = at'[v]
                      /\ pc'[v] = "load_refcount" /\ step'[v] > 0 =>
                           user_entry'[w] # at'[v] /\ ~ Over(user_entry'[w], at'[v], step'[v])
  BY DEF Scans
<1>3. ~ (v = u /\ pc[u] = "idle")
  BY <1>2, PcStep DEF Iterating, AcquirePcs, ScanPcs
<1>4. w \in before[v] /\ w \notin seen[v] /\ w \notin raced
  <2>1. before'[v] = before[v]
    BY <1>1, <1>3, VarStep DEF Types
  <2>2. raced \subseteq raced'
    <3>1. CASE pc[u] = "scanned"
      BY <3>1, VarStep
    <3>2. CASE pc[u] # "scanned"
      BY <3>2, VarStep
    <3> QED
      BY <3>1, <3>2
  <2>3. seen[v] \subseteq seen'[v]
    <3>1. CASE seen' = seen
      BY <3>1
    <3>2. CASE seen' = [seen EXCEPT ![u] = @ \union ({value[at[u]]} \intersect User)]
      <4>1. seen \in [User -> SUBSET User]
        BY <1>1 DEF Types
      <4>2. seen'[v] = IF v = u THEN seen[u] \union ({value[at[u]]} \intersect User) ELSE seen[v]
        BY <3>2, <4>1
      <4>3. CASE v = u
        BY <4>2, <4>3
      <4>4. CASE v # u
        BY <4>2, <4>4
      <4> QED
        BY <4>3, <4>4
    <3> QED
      BY <3>1, <3>2, VarStep
  <2> QED
    BY <1>2, <2>1, <2>2, <2>3 DEF Missed
<1>5. Pushed(w) /\ user_entry'[w] = user_entry[w] /\ user_entry[w] \in Item
  <2>1. Pushed(w)
    BY <1>1, <1>4 DEF Order
  <2> QED
    BY <2>1, SlotStep, PlaceIs
<1>6. PICK e : e = user_entry[w]
  OBVIOUS
<1>7. iter_offset[e] = 0
  <2>1. iter_offset'[e] = 0 /\ e \in Item /\ iter_offset \in [Item -> Nat]
    BY <1>1, <1>2, <1>5, <1>6 DEF Missed, Types
  <2>2. ~ (pc[u] = "write" /\ e = at[u])
    <3> SUFFICES ASSUME pc[u] = "write", e = at[u] PROVE FALSE
      OBVIOUS
    <3>1. w = u
      BY <1>5, <1>6, SlotIs
    <3> QED
      BY <1>5, <3>1, PlaceIs
  <2>3. ~ (pc[u] = "scanned" /\ e = user_entry[u])
    BY <1>1, <2>1, VarStep, OffsetPositive
  <2> QED
    BY <2>1, <2>2, <2>3, VarStep
<1>8. Missed(v, w)
  BY <1>4, <1>6, <1>7 DEF Missed
<1>9. /\ e \in Item /\ e[2] < next_item[e[1]] /\ e[1] \in Nat /\ e[2] \in Nat /\ ~ deleted[e[1]]
      /\ HasSlot(w) /\ Written(w) /\ SlotOf(w) = e /\ ~ Marked(w)
  BY <1>5, <1>6, <1>7, ThereIs
<1>10. pc[v] \in Iterating =>
         /\ pc[v] # "end"
         /\ Less(e, at[v]) \/ e = at[v]
         /\ pc[v] = "load_refcount" /\ step[v] > 0 => e # at[v] /\ ~ Over(e, at[v], step[v])
  BY <1>1, <1>6, <1>8 DEF Scans
<1>11. SUFFICES /\ pc'[v] # "end"
                /\ Less(e, at'[v]) \/ e = at'[v]
                /\ pc'[v] = "load_refcount" /\ step'[v] > 0 => e # at'[v] /\ ~ Over(e, at'[v], step'[v])
  BY <1>5, <1>6
<1>12. CASE v # u
  BY <1>1, <1>2, <1>10, <1>12, StepKeeps
<1>13. CASE v = u /\ GoesBack(u)
  <2>1. Less(e, From(u)) /\ ~ Over(e, From(u), By(u))
    <3>1. CASE pc[u] = "pushed"
      <4>1. HasSlot(u) /\ SlotOf(u) = user_entry[u] /\ user_entry[u] \in Item
        BY <3>1, PlaceIs, SlotIs
      <4>2. Less(e, user_entry[u])
        BY <1>1, <1>4, <1>6, <1>13, <4>1 DEF Order
      <4>3. user_entry[u][2] \in Nat
        BY <4>1, ItemIs, IndexIs
      <4> QED
        BY <1>9, <3>1, <4>2, <4>3 DEF From, By, Over
    <3>2. CASE pc[u] = "load_refcount"
      <4>1. step[u] > 0
        BY <1>13, <3>2 DEF GoesBack
      <4> QED
        BY <1>10, <1>13, <3>2, <4>1 DEF From, By, Iterating, AcquirePcs
    <3>3. CASE pc[u] = "visit"
      <4>1. at[u] \in Item /\ at[u][2] \in Nat
        BY <3>3, PlaceIs, ItemIs, IndexIs
      <4>2. e # at[u]
        <5> SUFFICES ASSUME e = at[u] PROVE FALSE
          OBVIOUS
        <5>1. value[e] = w
          BY <1>9 DEF LockedInv, Values, Marked
        <5>2. w \in seen'[u]
          BY <1>1, <3>3, <5>1, NoThrow DEF Types
        <5> QED
          BY <1>2, <1>13, <5>2 DEF Missed
      <4>3. Less(e, at[u])
        BY <1>10, <1>13, <3>3, <4>2 DEF Iterating, ScanPcs
      <4> QED
        BY <1>9, <3>3, <4>1, <4>3 DEF From, By, Over
    <3> QED
      BY <1>13, <3>1, <3>2, <3>3, NoThrow DEF GoesBack
  <2>2. pc'[u] = "load_offset" /\ (Less(e, at'[u]) \/ e = at'[u])
    BY <1>9, <1>13, <2>1, GoBackStep
  <2> QED
    BY <1>13, <2>2
<1>14. CASE v = u /\ ~ GoesBack(u)
  <2>1. pc[u] = "load_refcount" => step[u] = 0
    BY <1>1, <1>14 DEF GoesBack, Types
  <2>2. pc[u] \notin {"pushed", "sub", "visit"}
    BY <1>14, NoThrow DEF GoesBack
  <2>3. pc[u] \in {"load_offset", "load_refcount", "add", "reload"}
    BY <1>2, <1>14, <2>1, <2>2, StepFrom, PcStep DEF Iterating, AcquirePcs, ScanPcs
  <2>4. at'[u] = at[u] /\ pc'[u] # "end" /\ (pc'[u] = "load_refcount" => pc[u] = "load_offset")
    BY <2>1, <2>3, PcStep
  <2>5. Less(e, at[u]) \/ e = at[u]
    BY <1>10, <1>14, <2>3 DEF Iterating, AcquirePcs
  <2>6. ASSUME pc[u] = "load_offset", step'[u] > 0 PROVE e # at[u] /\ ~ Over(e, at[u], step'[u])
    <3>1. step'[u] = iter_offset[at[u]] /\ at[u] \in Item
      BY <2>6, PcStep, PlaceIs
    <3>2. e # at[u]
      BY <1>7, <2>6, <3>1
    <3>3. ~ Over(e, at[u], iter_offset[at[u]])
      BY <1>4, <1>9, <3>1 DEF BaseInv, Covers
    <3> QED
      BY <3>1, <3>2, <3>3
  <2> QED
    BY <1>14, <2>4, <2>5, <2>6
<1> QED
  BY <1>12, <1>13, <1>14

\* The part of the invariant that needs the mutex.
LEMMA LockedStep ==
  ASSUME BaseInv, locked, LockedInv, NEW u \in User, Step(u)
  PROVE  LockedInv'
  BY MutexStep, ReadsStep, CountsStep, ValuesStep, ScansStep DEF LockedInv

-----------------------------------------------------------------------------
(***************************************************************************)
(* The invariant holds initially and is kept.                              *)
(***************************************************************************)

\* Initially nobody has a slot, and what the first chunk has of items that are
\* gone is counted.
LEMMA InitInv ==
  ASSUME Init
  PROVE  IInv
<1>1. PICK used \in {0, 1} :
        /\ head = used
        /\ prev = [c \in Chunk |-> NoChunk]
        /\ deleted = [c \in Chunk |-> used = ChunkSize /\ c = head]
        /\ next_item = [c \in Chunk |-> IF c = head THEN used ELSE 0]
        /\ freed_items = [c \in Chunk |-> IF c = head THEN used ELSE 0]
        /\ iter_offset = [x \in Item |-> 1]
        /\ refcount = [x \in Item |-> IF x = <<head, 0>> THEN -1 ELSE 0]
        /\ value = [x \in Item |-> IF x = <<head, 0>> THEN Destroyed ELSE Raw]
        /\ users_mutex = NoUser /\ locked \in BOOLEAN
        /\ pc = [u \in User |-> "idle"]
        /\ at = [u \in User |-> NoItem]
        /\ step = [u \in User |-> 0]
        /\ user_entry = [u \in User |-> NoItem]
        /\ before = [u \in User |-> {}]
        /\ seen = [u \in User |-> {}]
        /\ raced = {}
  BY DEF Init
<1>2. \A u \in User : pc[u] = "idle" /\ user_entry[u] = NoItem /\ before[u] = {}
  BY <1>1
<1>3. \A u \in User : ~ Pushed(u) /\ ~ HasSlot(u) /\ ~ Written(u)
  BY <1>2 DEF Pushed, HasSlot, Written
<1>4. /\ MaxChunk \in Nat /\ MaxChunk >= 1 /\ ChunkSize \in Nat /\ ChunkSize >= 1
      /\ Chunk \subseteq Nat /\ NoChunk \notin Chunk /\ 1 \in Chunk
  BY AtomicListAssumption, ListAssumption DEF Chunk, NoChunk
<1>5. Types
  <2>1. head \in Chunk \union {NoChunk}
    BY <1>1, <1>4 DEF NoChunk
  <2>2. /\ deleted \in [Chunk -> BOOLEAN] /\ next_item \in [Chunk -> Nat]
        /\ freed_items \in [Chunk -> Nat]
    BY <1>1
  <2>3. iter_offset \in [Item -> Nat] /\ refcount \in [Item -> Int]
    BY <1>1
  <2>4. value \in [Item -> User \union {Raw, Destroyed}]
    BY <1>1
  <2>5. pc \in [User -> PcSet]
    BY <1>1 DEF PcSet
  <2>6. /\ at \in [User -> Item \union {NoItem} \union (Chunk \X {-1})]
        /\ step \in [User -> Nat] /\ user_entry \in [User -> Item \union {NoItem}]
        /\ before \in [User -> SUBSET User] /\ seen \in [User -> SUBSET User]
        /\ locked \in BOOLEAN
    BY <1>1
  <2> QED
    BY <2>1, <2>2, <2>3, <2>4, <2>5, <2>6 DEF Types
<1>6. Phases
  BY <1>2, <1>3 DEF Phases, Unpushed, AtItem, AcquirePcs, RemovePcs
<1>7. Slots
  BY <1>3 DEF Slots
<1>8. Chunks
  <2>1. \A c \in Chunk : ~ (c < head) /\ (c > head => next_item[c] = 0)
    <3> SUFFICES ASSUME NEW c \in Chunk PROVE ~ (c < head) /\ (c > head => next_item[c] = 0)
      OBVIOUS
    <3>1. c \in Nat /\ c >= 1
      BY <1>4 DEF Chunk
    <3> QED
      BY <1>1, <3>1
  <2> QED
    BY <1>2, <2>1 DEF Chunks
<1>9. Offsets
  <2>1. \A x \in Item : iter_offset[x] = 1
    BY <1>1
  <2> QED
    BY <1>3, <2>1 DEF Offsets
<1>10. Freed
  <2> SUFFICES ASSUME NEW c \in Chunk
               PROVE  /\ freed_items[c] = Cardinality(GoneOf(c))
                      /\ deleted[c] => GoneOf(c) = Index
    BY DEF Freed
  <2>1. \A i \in Index : Gone(<<c, i>>) <=> i < next_item[c]
    BY <1>3 DEF Gone
  <2>2. /\ next_item[c] = IF c = head THEN used ELSE 0
        /\ freed_items[c] = IF c = head THEN used ELSE 0
        /\ deleted[c] <=> used = ChunkSize /\ c = head
    BY <1>1
  <2>3. CASE used = 1 /\ c = head
    <3>1. GoneOf(c) = {0}
      BY <1>4, <2>1, <2>2, <2>3 DEF GoneOf, Index
    <3>2. Cardinality({0}) = 1
      BY FS_Singleton
    <3>3. ChunkSize = 1 => Index = {0}
      BY DEF Index
    <3> QED
      BY <2>2, <2>3, <3>1, <3>2, <3>3
  <2>4. CASE ~ (used = 1 /\ c = head)
    <3>1. next_item[c] = 0 /\ freed_items[c] = 0 /\ ~ deleted[c]
      BY <1>4, <2>2, <2>4
    <3>2. GoneOf(c) = {}
      BY <1>4, <2>1, <3>1 DEF GoneOf, Index
    <3>3. Cardinality({}) = 0
      BY FS_EmptySet
    <3> QED
      BY <3>1, <3>2, <3>3
  <2> QED
    BY <2>3, <2>4
<1>11. Links
  <2>1. \A c \in Chunk : prev[c] = 0 /\ c \in Nat /\ c >= 1
    BY <1>1 DEF NoChunk, Chunk
  <2>2. prev \in [Chunk -> Chunk \union {NoChunk}]
    BY <1>1
  <2>3. \A c, d \in Chunk : ~ (c <= head /\ prev[c] < d /\ d < c)
    BY <1>1, <2>1
  <2> QED
    BY <2>1, <2>2, <2>3 DEF Links, NoChunk
<1>12. Covers /\ Order
  BY <1>2, <1>3 DEF Covers, Order
<1>13. Mutex /\ Reads
  BY <1>2 DEF Mutex, Reads, Critical, AcquirePcs, ScanPcs, RemovePcs
<1>14. Counts
  <2>1. ASSUME NEW x \in Item, x[2] >= next_item[x[1]] PROVE refcount[x] = 0
    <3>1. x[1] \in Chunk /\ x[2] \in Nat
      BY <1>4 DEF Item, Index
    <3>2. CASE x = <<head, 0>>
      <4>1. x[1] = head /\ x[2] = 0 /\ head = 1
        BY <1>1, <1>4, <3>1, <3>2 DEF NoChunk
      <4>2. next_item[x[1]] = 1
        BY <1>1, <3>1, <4>1
      <4> QED
        BY <2>1, <4>1, <4>2
    <3>3. CASE x # <<head, 0>>
      BY <1>1, <3>3
    <3> QED
      BY <3>2, <3>3
  <2> QED
    BY <1>2, <1>3, <2>1 DEF Counts
<1>15. Values
  <2>1. \A u \in User : u \in Nat /\ u >= 1
    BY UserIs
  <2>2. \A x \in Item : value[x] \in {-1, 0}
    BY <1>1 DEF Raw, Destroyed
  <2>3. \A x \in Item : value[x] \notin User
    BY <2>1, <2>2
  <2> QED
    BY <1>3, <2>3 DEF Values
<1>16. Scans
  BY <1>2 DEF Scans, Iterating, AcquirePcs, ScanPcs
<1> QED
  BY <1>5, <1>6, <1>7, <1>8, <1>9, <1>10, <1>11, <1>12, <1>13, <1>14, <1>15, <1>16
     DEF IInv, BaseInv, LockedInv

\* Every step keeps the invariant.
LEMMA NextInv ==
  ASSUME IInv, [Next]_vars
  PROVE  IInv'
<1>1. ASSUME NEW u \in User, Step(u) PROVE IInv'
  <2>1. BaseInv'
    BY <1>1, BaseStep DEF IInv
  <2>2. locked' = locked
    BY <1>1, StepKeeps DEF IInv, BaseInv
  <2>3. locked' => LockedInv'
    BY <1>1, <2>2, LockedStep DEF IInv
  <2> QED
    BY <2>1, <2>3 DEF IInv
<1>2. CASE UNCHANGED vars
  <2>1. /\ UNCHANGED <<head, prev, deleted, next_item, freed_items, iter_offset, refcount, value>>
        /\ UNCHANGED <<users_mutex, locked, pc, at, step, user_entry, before, seen, raced>>
    BY <1>2 DEF vars, listVars, chunkVars, itemVars, lockVars, history
  <2> USE DEF Pushed, HasSlot, SlotOf, Written, Marked, Released
  <2>2. Types' /\ Phases' /\ Slots'
    BY <2>1 DEF IInv, BaseInv, Types, Phases, Slots
  <2>3. Chunks' /\ Offsets' /\ Links'
    BY <2>1 DEF IInv, BaseInv, Chunks, Offsets, Links
  <2>4. Freed'
    BY <2>1 DEF IInv, BaseInv, Freed, GoneOf, Gone
  <2>5. Covers' /\ Order'
    BY <2>1 DEF IInv, BaseInv, Covers, Order, Over, Less
  <2>6. locked => Mutex' /\ Reads'
    BY <2>1 DEF IInv, LockedInv, Mutex, Reads
  <2>7. locked => Counts'
    BY <2>1 DEF IInv, LockedInv, Counts, Held, HoldsEntry, HasRemoved, Bit
  <2>8. locked => Values' /\ Scans'
    BY <2>1 DEF IInv, LockedInv, Values, Scans, Missed, Over, Less
  <2> QED
    BY <2>1, <2>2, <2>3, <2>4, <2>5, <2>6, <2>7, <2>8 DEF IInv, BaseInv, LockedInv
<1>3. CASE Next
  <2>1. ASSUME NEW u \in User, BeginPush(u) \/ UserStep(u) PROVE Step(u)
    BY <2>1 DEF UserStep, Step
  <2> QED
    BY <1>1, <1>2, <1>3, <2>1 DEF Next, Terminated
<1> QED
  BY <1>2, <1>3

-----------------------------------------------------------------------------
(***************************************************************************)
(* What follows from the invariant.                                        *)
(***************************************************************************)

\* With the mutex, at most one iterator holds a reference to an item.
LEMMA HoldersCount ==
  ASSUME BaseInv, locked, LockedInv, NEW x \in Item
  PROVE  Cardinality(Holders(x)) = Bit(Held(x))
<1>1. \A u \in User : u \in Holders(x) <=> at[u] = x /\ pc[u] \in Acquired
  BY DEF Holders, Acquired
<1>2. CASE Held(x)
  <2>1. PICK w \in User : at[w] = x /\ pc[w] \in Acquired
    BY <1>2 DEF Held
  <2>2. \A u \in User : pc[u] \in Acquired => users_mutex = u
    BY DEF LockedInv, Mutex, Acquired, Critical, AcquirePcs, ScanPcs
  <2>3. Holders(x) \subseteq User
    BY DEF Holders
  <2>4. Holders(x) = {w}
    BY <1>1, <2>1, <2>2, <2>3
  <2>5. Cardinality({w}) = 1
    BY FS_Singleton
  <2> QED
    BY <1>2, <2>4, <2>5 DEF Bit
<1>3. CASE ~ Held(x)
  <2>1. Holders(x) = {}
    BY <1>3 DEF Holders, Held, Acquired
  <2>2. Cardinality({}) = 0
    BY FS_EmptySet
  <2> QED
    BY <1>3, <2>1, <2>2 DEF Bit
<1> QED
  BY <1>2, <1>3

\* A set that has nobody but perhaps v.
LEMMA AtMostOne ==
  ASSUME NEW v, NEW S, S \subseteq {v}
  PROVE  Cardinality(S) = Bit(v \in S)
<1>1. CASE v \in S
  <2>1. S = {v}
    BY <1>1
  <2>2. Cardinality({v}) = 1
    BY FS_Singleton
  <2> QED
    BY <1>1, <2>1, <2>2 DEF Bit
<1>2. CASE v \notin S
  <2>1. S = {}
    BY <1>2
  <2>2. Cardinality({}) = 0
    BY FS_EmptySet
  <2> QED
    BY <1>2, <2>1, <2>2 DEF Bit
<1> QED
  BY <1>1, <1>2

\* The reference count of an item that has a value.
LEMMA CountExact ==
  ASSUME BaseInv, locked, LockedInv, NEW x \in Item, value[x] \in User
  PROVE  refcount[x] = Cardinality(Holders(x))
                       + Cardinality({u \in User : user_entry[u] = x /\ HoldsEntry(u)})
                       - Cardinality({u \in User : user_entry[u] = x /\ HasRemoved(u)})
<1> DEFINE E == {u \in User : user_entry[u] = x /\ HoldsEntry(u)}
           R == {u \in User : user_entry[u] = x /\ HasRemoved(u)}
<1>1. PICK v \in User : Written(v) /\ SlotOf(v) = x
  BY DEF LockedInv, Values
<1>2. refcount[x] = Bit(Held(x)) + Bit(HoldsEntry(v)) - Bit(HasRemoved(v))
  BY <1>1 DEF LockedInv, Counts
<1>3. \A u \in User : user_entry[u] = x => u = v
  <2> SUFFICES ASSUME NEW u \in User, user_entry[u] = x PROVE u = v
    OBVIOUS
  <2>1. Pushed(u)
    BY ItemIs DEF Pushed
  <2> QED
    BY <1>1, <2>1, SlotIs
<1>4. Pushed(v) => user_entry[v] = x
  BY <1>1, SlotIs
<1>5. HoldsEntry(v) \/ HasRemoved(v) => Pushed(v)
  BY PlaceIs DEF HoldsEntry, HasRemoved
<1>6. E \subseteq {v} /\ R \subseteq {v} /\ (v \in E <=> HoldsEntry(v)) /\ (v \in R <=> HasRemoved(v))
  BY <1>3, <1>4, <1>5
<1>7. Cardinality(E) = Bit(HoldsEntry(v))
  <2>1. Cardinality(E) = Bit(v \in E)
    BY <1>6, AtMostOne
  <2> QED
    BY <1>6, <2>1 DEF Bit
<1>8. Cardinality(R) = Bit(HasRemoved(v))
  <2>1. Cardinality(R) = Bit(v \in R)
    BY <1>6, AtMostOne
  <2> QED
    BY <1>6, <2>1 DEF Bit
<1>9. Cardinality(Holders(x)) = Bit(Held(x))
  BY HoldersCount
<1> QED
  BY <1>2, <1>7, <1>8, <1>9

\* A deleted chunk has no slot left and no item that is there.
LEMMA DeletedChunk ==
  ASSUME BaseInv, NEW c \in Chunk, deleted[c]
  PROVE  next_item[c] >= ChunkSize /\ \A i \in Index : iter_offset[<<c, i>>] # 0
<1>1. \A i \in Index : Gone(<<c, i>>)
  BY DEF BaseInv, Freed, GoneOf
<1>2. ChunkSize \in Nat /\ ChunkSize >= 1 /\ next_item[c] \in Nat
  BY ListAssumption DEF BaseInv, Types
<1>3. next_item[c] >= ChunkSize
  <2>1. ChunkSize - 1 \in Index
    BY <1>2 DEF Index
  <2>2. ChunkSize - 1 < next_item[c]
    BY <1>1, <2>1 DEF Gone
  <2> QED
    BY <1>2, <2>2
<1>4. ASSUME NEW i \in Index, iter_offset[<<c, i>>] = 0 PROVE FALSE
  <2>1. <<c, i>> \in Item
    BY DEF Item
  <2>2. PICK v \in User : HasSlot(v) /\ SlotOf(v) = <<c, i>> /\ ~ Marked(v)
    BY <1>4, <2>1, OwnerOf
  <2>3. Released(v)
    BY <1>1, <2>2 DEF Gone
  <2> QED
    BY <2>2, <2>3 DEF Released, Marked
<1> QED
  BY <1>3, <1>4

-----------------------------------------------------------------------------
(***************************************************************************)
(* The theorems.                                                           *)
(***************************************************************************)

\* Every reachable state of the list satisfies the inductive invariant, with
\* any number of users and any size of the chunks.
THEOREM ListInvariant == Spec => []IInv
<1>1. Init => IInv
  BY InitInv
<1>2. IInv /\ [Next]_vars => IInv'
  BY NextInv
<1> QED
  BY <1>1, <1>2, PTL DEF Spec

\* With the mutex, acquire and release of Item count the references exactly,
\* and the item is destroyed by the release that drops the last of them.
THEOREM RefcountExactCorrect == Spec => []RefcountExact
<1>1. IInv => RefcountExact
  <2> SUFFICES ASSUME IInv, locked PROVE RefcountExact
    BY DEF RefcountExact
  <2>1. BaseInv /\ LockedInv
    BY DEF IInv
  <2>2. ASSUME NEW u \in User, Pushed(u)
        PROVE  value[user_entry[u]] = Destroyed <=> pc[u] = "done"
    <3>1. Written(u) /\ SlotOf(u) = user_entry[u]
      BY <2>1, <2>2, SlotIs
    <3>2. value[user_entry[u]] = IF pc[u] = "done" THEN Destroyed ELSE u
      BY <2>1, <3>1 DEF LockedInv, Values
    <3>3. u # Destroyed
      BY UserIs DEF Destroyed
    <3> QED
      BY <3>2, <3>3
  <2>3. \A x \in Item : value[x] \in User =>
         refcount[x] = Cardinality(Holders(x))
                       + Cardinality({u \in User : user_entry[u] = x /\ HoldsEntry(u)})
                       - Cardinality({u \in User : user_entry[u] = x /\ HasRemoved(u)})
    BY <2>1, CountExact
  <2> QED
    BY <2>2, <2>3 DEF RefcountExact
<1> QED
  BY <1>1, ListInvariant, PTL

\* With the mutex, an item at which an iterator is has its value: remove and
\* release do not destroy it under the iterator, and no other push reuses it.
THEOREM LockedIteratorsKeepAliveCorrect == Spec => []LockedIteratorsKeepAlive
<1>1. IInv => LockedIteratorsKeepAlive
  <2> SUFFICES ASSUME IInv, locked, NEW u \in User
               PROVE  /\ pc[u] = "visit" => value[at[u]] \in User
                      /\ HoldsEntry(u) => value[user_entry[u]] = u
    BY DEF LockedIteratorsKeepAlive, IteratorsKeepAlive
  <2>1. BaseInv /\ LockedInv
    BY DEF IInv
  <2>2. ASSUME pc[u] = "visit" PROVE value[at[u]] \in User
    <3>1. at[u] \in Item /\ iter_offset[at[u]] = 0
      BY <2>1, <2>2, PlaceIs DEF LockedInv, Reads
    <3>2. PICK v \in User : Written(v) /\ SlotOf(v) = at[u] /\ pc[v] # "done"
      BY <2>1, <3>1, OwnerOf
    <3>3. value[at[u]] = v
      BY <2>1, <3>2 DEF LockedInv, Values
    <3> QED
      BY <3>3
  <2>3. ASSUME HoldsEntry(u) PROVE value[user_entry[u]] = u
    <3>1. Written(u) /\ SlotOf(u) = user_entry[u] /\ pc[u] # "done"
      BY <2>1, <2>3, SlotIs DEF HoldsEntry
    <3> QED
      BY <2>1, <3>1 DEF LockedInv, Values
  <2> QED
    BY <2>2, <2>3
<1> QED
  BY <1>1, ListInvariant, PTL

\* With the mutex or without it, one push of those that overflow a chunk
\* allocates the next one, chunks are left when they are used up, and
\* release_chunk deletes a chunk only when none of its items is there.
THEOREM ChunksUsedUpCorrect == Spec => []ChunksUsedUp
<1>1. IInv => ChunksUsedUp
  <2> SUFFICES ASSUME IInv, NEW c \in Chunk
               PROVE  /\ c < head => next_item[c] > ChunkSize
                      /\ deleted[c] => /\ next_item[c] >= ChunkSize
                                       /\ \A i \in Index : iter_offset[<<c, i>>] # 0
    BY DEF ChunksUsedUp
  <2>1. BaseInv
    BY DEF IInv
  <2>2. c < head => next_item[c] > ChunkSize
    BY <2>1 DEF BaseInv, Chunks
  <2>3. deleted[c] => next_item[c] >= ChunkSize /\ \A i \in Index : iter_offset[<<c, i>>] # 0
    BY <2>1, DeletedChunk
  <2> QED
    BY <2>2, <2>3
<1> QED
  BY <1>1, ListInvariant, PTL

\* With the mutex, an iteration of init_graph that has reached rend() has come
\* across every item that was pushed before and not removed, unless a removal
\* computed its offset between the two steps of that item's push.
THEOREM LockedScanCompleteCorrect == Spec => []LockedScanComplete
<1>1. IInv => LockedScanComplete
  <2> SUFFICES ASSUME IInv, locked, NEW u \in User, pc[u] = "end",
                      NEW v \in before[u], iter_offset[user_entry[v]] = 0
               PROVE  v \in seen[u] \union raced
    BY DEF LockedScanComplete
  <2>1. v \in User
    BY DEF IInv, BaseInv, Types
  <2>2. pc[u] \in Iterating
    BY DEF Iterating, AcquirePcs, ScanPcs
  <2>3. ~ Missed(u, v)
    BY <2>1, <2>2 DEF IInv, LockedInv, Scans
  <2> QED
    BY <2>3 DEF Missed
<1> QED
  BY <1>1, ListInvariant, PTL
=============================================================================
