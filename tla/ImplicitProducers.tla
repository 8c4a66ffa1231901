-------------------------- MODULE ImplicitProducers --------------------------
(***************************************************************************)
(* How a thread that calls ConcurrentQueue::enqueue finds its producer:    *)
(* get_or_add_implicit_producer looks its thread id up in a lock-free hash *)
(* table that is replaced by a larger one while others use it, and adds a  *)
(* producer if it has none.  A thread that exits hands its producers back  *)
(* through the list of ThreadExitNotifier; somebody else recycles them.    *)
(*                                                                         *)
(* One action is one atomic operation on shared state, with the local      *)
(* steps before the next one.  A thread has a producer in every queue it   *)
(* has used: there is a queue per worker, and they are destroyed worker    *)
(* by worker while other threads, the main thread among them, live on.     *)
(***************************************************************************)
EXTENDS Integers, Sequences, FiniteSets, SequencesExt

CONSTANTS
  N,             \* number of thread ids
  NumQueues,
  Calls,         \* bound: the queues a thread calls enqueue of, in this order
  Lives,         \* bound: how many threads have an id, one after the other
  Home,          \* the queue whose worker a thread is, 0 for the other threads
  Hash,          \* hash_thread_id
  InitialSize,   \* INITIAL_IMPLICIT_PRODUCER_HASH_SIZE
  MaxFailures    \* bound: how often an allocation fails

Thread == 1..N
Main == 1
Queue == 1..NumQueues

ASSUME ProducersAssumption ==
  /\ {N, NumQueues} \subseteq Nat \ {0}
  /\ Calls \in [Thread -> Seq(Queue)] /\ Hash \in [Thread -> Nat]
  /\ Lives \in [Thread -> Nat \ {0}] /\ Lives[Main] = 1
  /\ Home \in [Thread -> Queue \union {0}] /\ Home[Main] = 0
  /\ InitialSize \in {4, 8, 16, 32} /\ MaxFailures \in Nat

Empty == 0            \* invalid_thread_id
Reusable == -1        \* invalid_thread_id2
Null == <<0, 0>>      \* no listener

VARIABLES
  tables,      \* the hash tables of a queue, oldest first; the last one is the main one
  count,       \* implicitProducerHashCount
  resizing,    \* implicitProducerHashResizeInProgress
  inactive,    \* the producers of a queue, oldest first
  next, chain, \* the listener of a producer: its successor, and the thread it listens to
  tail,        \* the listeners of a thread, by the first one
  mutex,       \* of ThreadExitNotifier: the thread that holds it, or 0
  th,          \* threads: program counter and local variables
  destroyed,   \* number of queues that have been destroyed
  failures,
  mine         \* history: the producers a thread has got from a queue

hashVars == <<tables, count, resizing, failures>>
exitVars == <<next, chain, tail, mutex>>
vars == <<hashVars, inactive, exitVars, th, destroyed, mine>>

Producers(q) == DOMAIN inactive[q]
Capacity(table) == Cardinality(DOMAIN table)
NewTable(size) == [i \in 0..(size - 1) |-> [key |-> Empty, value |-> 0]]

Start == [pc |-> "idle", q |-> 0, main |-> 0, hash |-> 0, index |-> 0, n |-> 0, value |-> 0,
          ptr |-> Null, calls |-> 0, lives |-> 1]

PC == {"idle", "probe", "readd", "count", "grow", "resize", "clear", "failed", "reload", "recycle",
       "catch", "subscribe", "reuse", "insert", "uncount", "exit", "remove", "retire", "advance",
       "dead"}

TypeOK ==
  /\ \A q \in Queue :
       /\ tables[q] # <<>>
       /\ \A h \in DOMAIN tables[q] : \A i \in DOMAIN tables[q][h] :
            tables[q][h][i] \in [key : Thread \union {Empty, Reusable}, value : Producers(q) \union {0}]
  /\ count \in [Queue -> Nat] /\ resizing \in [Queue -> BOOLEAN]
  /\ inactive \in [Queue -> Seq(BOOLEAN)]
  /\ mutex \in Thread \union {0} /\ destroyed \in 0..NumQueues /\ failures \in 0..MaxFailures
  /\ \A t \in Thread :
       /\ th[t].pc \in PC /\ th[t].calls \in 0..Len(Calls[t]) /\ th[t].lives \in 1..Lives[t]
       /\ mine[t] \in [Queue -> SUBSET Nat]

\* populate_initial_implicit_producer_hash
Init ==
  /\ tables = [q \in Queue |-> <<NewTable(InitialSize)>>]
  /\ count = [q \in Queue |-> 0] /\ resizing = [q \in Queue |-> FALSE]
  /\ inactive = [q \in Queue |-> <<>>]
  /\ next = [q \in Queue |-> <<>>] /\ chain = [q \in Queue |-> <<>>]
  /\ tail = [t \in Thread |-> Null] /\ mutex = 0
  /\ th = [t \in Thread |-> Start]
  /\ destroyed = 0 /\ failures = 0
  /\ mine = [t \in Thread |-> [q \in Queue |-> {}]]

-----------------------------------------------------------------------------
Set(t, r) == th' = [th EXCEPT ![t] = r]
Goto(t, pc) == th' = [th EXCEPT ![t].pc = pc]

Outside(r) == [Start EXCEPT !.calls = r.calls + 1, !.lives = r.lives]

\* get_or_add_implicit_producer returns producer p.
Return(t, p) ==
  /\ Set(t, Outside(th[t]))
  /\ mine' = [mine EXCEPT ![t][th[t].q] = @ \union {p}]

\* The slot a thread looks at in table h.
Slot(t, h) == th[t].index % Capacity(tables[th[t].q][h])
Key(t, h) == tables[th[t].q][h][Slot(t, h)].key
SetSlot(t, h, key, value) ==
  tables' = [tables EXCEPT ![th[t].q][h][Slot(t, h)] = [key |-> key, value |-> value]]

-----------------------------------------------------------------------------
(***************************************************************************)
(* get_or_add_implicit_producer: the search in the main table and all the  *)
(* previous ones.                                                          *)
(***************************************************************************)
Call(t) ==
  /\ th[t].pc = "idle" /\ th[t].calls < Len(Calls[t])
  /\ LET q == Calls[t][th[t].calls + 1]
         main == Len(tables[q])
     IN  Set(t, [th[t] EXCEPT !.pc = "probe", !.q = q, !.main = main, !.hash = main, !.index = Hash[t]])
  /\ UNCHANGED <<hashVars, inactive, exitVars, destroyed, mine>>

\* The id is in this slot, or not in this table, or further on.
Probe(t) ==
  /\ th[t].pc = "probe"
  /\ LET h == th[t].hash
         value == tables[th[t].q][h][Slot(t, h)].value
     IN  CASE Key(t, h) = t /\ h = th[t].main -> Return(t, value)
           [] Key(t, h) = t /\ h # th[t].main ->
                /\ Set(t, [th[t] EXCEPT !.pc = "readd", !.value = value, !.index = Hash[t]])
                /\ UNCHANGED mine
           [] Key(t, h) = Empty ->
                /\ Set(t, IF h > 1 THEN [th[t] EXCEPT !.hash = h - 1, !.index = Hash[t]]
                                   ELSE [th[t] EXCEPT !.pc = "count"])
                /\ UNCHANGED mine
           [] OTHER -> Set(t, [th[t] EXCEPT !.index = Slot(t, h) + 1]) /\ UNCHANGED mine
  /\ UNCHANGED <<hashVars, inactive, exitVars, destroyed>>

\* It was in an older table: add it to the main one, in the first slot that is empty or
\* reusable.  The count does not change.
Readd(t) ==
  /\ th[t].pc = "readd"
  /\ LET h == th[t].main IN
       IF Key(t, h) \in {Empty, Reusable}
         THEN SetSlot(t, h, t, th[t].value) /\ Return(t, th[t].value)
         ELSE Set(t, [th[t] EXCEPT !.index = Slot(t, h) + 1]) /\ UNCHANGED <<tables, mine>>
  /\ UNCHANGED <<count, resizing, failures, inactive, exitVars, destroyed>>

-----------------------------------------------------------------------------
(***************************************************************************)
(* It is in none of them: count it, and see to it that there is room.      *)
(***************************************************************************)
CountUp(t) ==
  /\ th[t].pc = "count"
  /\ count' = [count EXCEPT ![th[t].q] = @ + 1]
  /\ Set(t, [th[t] EXCEPT !.pc = "grow", !.n = count[th[t].q] + 1])
  /\ UNCHANGED <<tables, resizing, failures, inactive, exitVars, destroyed, mine>>

Crowded(t, h) == th[t].n >= Capacity(tables[th[t].q][h]) \div 2

\* Less than three quarters of the table are taken.
HasRoom(t, size) == th[t].n < size \div 2 + size \div 4

\* Insert into the table, or wait for another one.
Proceed(t, h) ==
  IF HasRoom(t, Capacity(tables'[th[t].q][h]))
    THEN [th[t] EXCEPT !.pc = "recycle", !.main = h, !.hash = 0, !.index = 0,
                       !.ptr = <<th[t].q, Len(inactive[th[t].q])>>]
    ELSE [th[t] EXCEPT !.pc = "reload"]

\* The table is half full: try to take the resize lock.
TryResize(t) ==
  /\ th[t].pc = "grow"
  /\ UNCHANGED tables
  /\ LET q == th[t].q IN
       IF Crowded(t, th[t].main) /\ ~ resizing[q]
         THEN resizing' = [resizing EXCEPT ![q] = TRUE] /\ Goto(t, "resize")
         ELSE Set(t, Proceed(t, th[t].main)) /\ UNCHANGED resizing
  /\ UNCHANGED <<count, failures, inactive, exitVars, destroyed, mine>>

\* The size is doubled until the table is less than half full.
NewCapacity(t, size) ==
  LET large == {c \in {size * 2^k : k \in 1..N} : th[t].n < c \div 2}
  IN  CHOOSE c \in large : \A d \in large : c <= d

\* With the lock: unless somebody else has done so, make a new main table.
Resize(t) ==
  /\ th[t].pc = "resize"
  /\ LET q == th[t].q
         h == Len(tables[q])
     IN  IF Crowded(t, h)
           THEN /\ tables' = [tables EXCEPT ![q] =
                                Append(@, NewTable(NewCapacity(t, Capacity(tables[q][h]))))]
                /\ Set(t, [th[t] EXCEPT !.pc = "clear", !.main = h + 1])
           ELSE Set(t, [th[t] EXCEPT !.pc = "clear", !.main = h]) /\ UNCHANGED tables
  /\ UNCHANGED <<count, resizing, failures, inactive, exitVars, destroyed, mine>>

\* There is no memory for it.
ResizeFails(t) ==
  /\ th[t].pc = "resize" /\ failures < MaxFailures /\ Crowded(t, Len(tables[th[t].q]))
  /\ failures' = failures + 1
  /\ count' = [count EXCEPT ![th[t].q] = @ - 1]
  /\ Goto(t, "failed")
  /\ UNCHANGED <<tables, resizing, inactive, exitVars, destroyed, mine>>

\* Mutant of GiveUp: the lock is kept.
GiveUpLocked(t) ==
  /\ th[t].pc = "failed"
  /\ Set(t, Outside(th[t]))
  /\ UNCHANGED <<hashVars, inactive, exitVars, destroyed, mine>>

\* Release the lock and return nullptr: nothing is enqueued.
GiveUp(t) ==
  /\ th[t].pc = "failed"
  /\ resizing' = [resizing EXCEPT ![th[t].q] = FALSE]
  /\ Set(t, Outside(th[t]))
  /\ UNCHANGED <<tables, count, failures, inactive, exitVars, destroyed, mine>>

ClearResizing(t) ==
  /\ th[t].pc = "clear"
  /\ UNCHANGED tables
  /\ resizing' = [resizing EXCEPT ![th[t].q] = FALSE]
  /\ Set(t, Proceed(t, th[t].main))
  /\ UNCHANGED <<count, failures, inactive, exitVars, destroyed, mine>>

\* The table is too full and somebody else is making a new one.
Reload(t) ==
  /\ th[t].pc = "reload"
  /\ Set(t, [th[t] EXCEPT !.pc = "grow", !.main = Len(tables[th[t].q])])
  /\ UNCHANGED <<hashVars, inactive, exitVars, destroyed, mine>>

-----------------------------------------------------------------------------
(***************************************************************************)
(* recycle_or_create_producer walks the list of producers, the youngest    *)
(* one first; ThreadExitNotifier::subscribe; the insertion.                *)
(***************************************************************************)
NextProducer(t) == [th[t] EXCEPT !.pc = "recycle", !.ptr[2] = @ - 1]

FindInactive(t) ==
  /\ th[t].pc = "recycle" /\ th[t].ptr[2] > 0
  /\ Set(t, IF inactive[th[t].q][th[t].ptr[2]] THEN [th[t] EXCEPT !.pc = "catch"] ELSE NextProducer(t))
  /\ UNCHANGED <<hashVars, inactive, exitVars, destroyed, mine>>

Catch(t) ==
  /\ th[t].pc = "catch"
  /\ LET q == th[t].q
         p == th[t].ptr[2]
     IN  IF inactive[q][p]
           THEN /\ inactive' = [inactive EXCEPT ![q][p] = FALSE]
                /\ Set(t, [th[t] EXCEPT !.pc = "subscribe", !.value = p, !.ptr = Null])
           ELSE Set(t, NextProducer(t)) /\ UNCHANGED inactive
  /\ UNCHANGED <<hashVars, exitVars, destroyed, mine>>

\* There is none: add_producer puts a new one at the end of the list.
AddProducer(t) ==
  /\ th[t].pc = "recycle" /\ th[t].ptr[2] = 0
  /\ LET q == th[t].q IN
       /\ inactive' = [inactive EXCEPT ![q] = Append(@, FALSE)]
       /\ next' = [next EXCEPT ![q] = Append(@, Null)]
       /\ chain' = [chain EXCEPT ![q] = Append(@, 0)]
       /\ Set(t, [th[t] EXCEPT !.pc = "subscribe", !.value = Len(inactive[q]) + 1, !.ptr = Null])
  /\ UNCHANGED <<hashVars, tail, mutex, destroyed, mine>>

\* There is no memory for it.
AddFails(t) ==
  /\ th[t].pc = "recycle" /\ th[t].ptr[2] = 0 /\ failures < MaxFailures
  /\ failures' = failures + 1
  /\ count' = [count EXCEPT ![th[t].q] = @ - 1]
  /\ Set(t, Outside(th[t]))
  /\ UNCHANGED <<tables, resizing, inactive, exitVars, destroyed, mine>>

\* Mutant of Unlocked: subscribe does not take the mutex.
UnlockedAlways == mutex \in Thread \union {0}

Unlocked == mutex = 0

\* The listener becomes the first one in the list of the thread, under the mutex.
Subscribe(t) ==
  /\ th[t].pc = "subscribe" /\ Unlocked
  /\ LET q == th[t].q
         p == th[t].value
     IN  /\ next' = [next EXCEPT ![q][p] = tail[t]]
         /\ chain' = [chain EXCEPT ![q][p] = t]
         /\ tail' = [tail EXCEPT ![t] = <<q, p>>]
  /\ Set(t, [th[t] EXCEPT !.pc = "reuse", !.index = Hash[t]])
  /\ UNCHANGED <<hashVars, inactive, mutex, destroyed, mine>>

\* First compare_exchange: a reusable slot, which has been counted already.
InsertReusable(t) ==
  /\ th[t].pc = "reuse"
  /\ IF Key(t, th[t].main) = Reusable
       THEN SetSlot(t, th[t].main, t, th[t].value) /\ Goto(t, "uncount")
       ELSE Goto(t, "insert") /\ UNCHANGED tables
  /\ UNCHANGED <<count, resizing, failures, inactive, exitVars, destroyed, mine>>

\* Second compare_exchange: an empty slot.
InsertEmpty(t) ==
  /\ th[t].pc = "insert"
  /\ LET h == th[t].main IN
       IF Key(t, h) = Empty
         THEN SetSlot(t, h, t, th[t].value) /\ Return(t, th[t].value)
         ELSE /\ Set(t, [th[t] EXCEPT !.pc = "reuse", !.index = Slot(t, h) + 1])
              /\ UNCHANGED <<tables, mine>>
  /\ UNCHANGED <<count, resizing, failures, inactive, exitVars, destroyed>>

Uncount(t) ==
  /\ th[t].pc = "uncount"
  /\ count' = [count EXCEPT ![th[t].q] = @ - 1]
  /\ Return(t, th[t].value)
  /\ UNCHANGED <<tables, resizing, failures, inactive, exitVars, destroyed>>

-----------------------------------------------------------------------------
(***************************************************************************)
(* The end of a thread: ~ThreadExitNotifier holds the mutex and calls      *)
(* implicit_producer_thread_exited for every listener.  WorkerPool::stop   *)
(* stops and joins the workers of a pool one after the other and then      *)
(* destroys them with their queues.  The main thread ends when all are     *)
(* destroyed, a thread that is no worker of the pool when it likes.        *)
(***************************************************************************)
MayExit(t) ==
  IF t = Main
  THEN destroyed = NumQueues
  ELSE \A u \in Thread : Home[u] \in 1..(Home[t] - 1) => th[u].pc = "dead"

Exit(t) ==
  /\ th[t].pc = "idle" /\ th[t].calls = Len(Calls[t]) /\ MayExit(t)
  /\ mutex = 0 /\ mutex' = t
  /\ Set(t, [th[t] EXCEPT !.pc = "exit", !.ptr = tail[t]])
  /\ UNCHANGED <<hashVars, inactive, next, chain, tail, destroyed, mine>>

ExitListener(t) ==
  /\ th[t].pc = "exit" /\ th[t].ptr # Null
  /\ LET q == th[t].ptr[1] IN
       /\ chain' = [chain EXCEPT ![q][th[t].ptr[2]] = 0]
       /\ Set(t, [th[t] EXCEPT !.pc = "remove", !.q = q, !.hash = Len(tables[q]), !.index = Hash[t]])
  /\ UNCHANGED <<hashVars, inactive, next, tail, mutex, destroyed, mine>>

\* Mutant of OlderTable: only the main table is searched.
OlderTableNone(t, h) == [th[t] EXCEPT !.pc = "retire"]

OlderTable(t, h) ==
  IF h > 1 THEN [th[t] EXCEPT !.hash = h - 1, !.index = Hash[t]]
           ELSE [th[t] EXCEPT !.pc = "retire"]

\* The slot of the thread becomes reusable, in every table that has one.
RemoveFromHash(t) ==
  /\ th[t].pc = "remove"
  /\ LET h == th[t].hash IN
       CASE Key(t, h) = t -> SetSlot(t, h, Reusable, tables[th[t].q][h][Slot(t, h)].value)
                             /\ Set(t, OlderTable(t, h))
         [] Key(t, h) = Empty -> Set(t, OlderTable(t, h)) /\ UNCHANGED tables
         [] OTHER -> Set(t, [th[t] EXCEPT !.index = Slot(t, h) + 1]) /\ UNCHANGED tables
  /\ UNCHANGED <<count, resizing, failures, inactive, exitVars, destroyed, mine>>

\* The producer can be recycled.
Retire(t) ==
  /\ th[t].pc = "retire"
  /\ inactive' = [inactive EXCEPT ![th[t].q][th[t].ptr[2]] = TRUE]
  /\ mine' = [mine EXCEPT ![t][th[t].q] = {}]
  /\ Goto(t, "advance")
  /\ UNCHANGED <<hashVars, exitVars, destroyed>>

NextListener(t) ==
  /\ th[t].pc = "advance"
  /\ Set(t, [th[t] EXCEPT !.pc = "exit", !.ptr = next[th[t].ptr[1]][th[t].ptr[2]], !.q = 0, !.hash = 0,
                          !.index = 0])
  /\ UNCHANGED <<hashVars, inactive, exitVars, destroyed, mine>>

ExitDone(t) ==
  /\ th[t].pc = "exit" /\ th[t].ptr = Null
  /\ mutex' = 0
  /\ tail' = [tail EXCEPT ![t] = Null]
  /\ Goto(t, "dead")
  /\ UNCHANGED <<hashVars, inactive, next, chain, destroyed, mine>>

\* Another thread is started and has the same id, the address of a thread-local variable.
Restart(t) ==
  /\ th[t].pc = "dead" /\ th[t].lives < Lives[t]
  /\ Set(t, [Start EXCEPT !.lives = th[t].lives + 1])
  /\ UNCHANGED <<hashVars, inactive, exitVars, destroyed, mine>>

-----------------------------------------------------------------------------
(***************************************************************************)
(* ~ConcurrentQueue, in the main thread, after the workers of the queue    *)
(* have been joined and with no thread inside of the queue: the listeners  *)
(* of the producers that are active are taken out of their lists.          *)
(***************************************************************************)
\* The listeners from l on.
RECURSIVE ListenersFrom(_)
ListenersFrom(l) == IF l = Null THEN <<>> ELSE <<l>> \o ListenersFrom(next[l[1]][l[2]])

Unsubscribed(q) == {l \in {q} \X Producers(q) : ~ inactive[q][l[2]] /\ chain[q][l[2]] # 0}

\* The first listener from l on that stays.
RECURSIVE FirstKept(_, _)
FirstKept(l, gone) == IF l \in gone THEN FirstKept(next[l[1]][l[2]], gone) ELSE l

\* "The queue should not be accessed concurrently while it's being deleted.":
\* no call is under way or to come, and no thread is going through its exit list.
Quiet(t) ==
  \/ th[t].pc = "dead" /\ th[t].lives = Lives[t]
  \/ th[t].pc = "idle" /\ th[t].calls = Len(Calls[t]) /\ th[t].lives = Lives[t]

DestroyQueue(q) ==
  /\ q = destroyed + 1
  /\ \A t \in Thread : Quiet(t) /\ (Home[t] # 0 => th[t].pc = "dead")
  /\ destroyed' = q
  /\ LET gone == Unsubscribed(q) IN
       /\ next' = [o \in Queue |-> [p \in Producers(o) |-> FirstKept(next[o][p], gone)]]
       /\ tail' = [t \in Thread |-> FirstKept(tail[t], gone)]
       /\ chain' = [o \in Queue |-> [p \in Producers(o) |-> IF <<o, p>> \in gone THEN 0 ELSE chain[o][p]]]
  /\ mine' = [t \in Thread |-> [mine[t] EXCEPT ![q] = {}]]
  /\ UNCHANGED <<hashVars, inactive, mutex, th>>

-----------------------------------------------------------------------------
ThreadStep(t) ==
  \/ Call(t) \/ Probe(t) \/ Readd(t)
  \/ CountUp(t) \/ TryResize(t) \/ Resize(t) \/ ResizeFails(t) \/ GiveUp(t) \/ ClearResizing(t) \/ Reload(t)
  \/ FindInactive(t) \/ Catch(t) \/ AddProducer(t) \/ AddFails(t) \/ Subscribe(t)
  \/ InsertReusable(t) \/ InsertEmpty(t) \/ Uncount(t)
  \/ Exit(t) \/ ExitListener(t) \/ RemoveFromHash(t) \/ Retire(t) \/ NextListener(t) \/ ExitDone(t)

Ended == (\A t \in Thread : th[t].pc = "dead" /\ th[t].lives = Lives[t]) /\ UNCHANGED vars

Next ==
  \/ \E t \in Thread : ThreadStep(t) \/ Restart(t)
  \/ \E q \in Queue : DestroyQueue(q)
  \/ Ended

Spec == Init /\ [][Next]_vars

\* Every thread goes on, and the main thread stops and destroys everything in the end.
FairSpec ==
  /\ Spec
  /\ \A t \in Thread : WF_vars(ThreadStep(t) \/ Restart(t))
  /\ \A q \in Queue : WF_vars(DestroyQueue(q))

-----------------------------------------------------------------------------
\* A thread gets the same producer of a queue whenever it asks, and no two threads have
\* the same one, however tables are replaced and producers recycled: the code relies on it
\* as tailIndex, tailBlock and the block index of a producer have one writer.
OwnProducer ==
  \A q \in Queue :
    /\ \A t \in Thread : Cardinality(mine[t][q]) <= 1 /\ \A p \in mine[t][q] : ~ inactive[q][p]
    /\ \A s, t \in Thread : s # t => mine[s][q] \intersect mine[t][q] = {}

\* The producer a thread has added and not yet inserted.
Pending(t) ==
  IF th[t].pc \in {"reuse", "insert", "uncount"} THEN {<<th[t].q, th[t].value>>} ELSE {}

\* The list of a thread that is not exiting holds the listeners of exactly the producers
\* it has in queues that still exist: at its exit all of them are handed back, and none is
\* touched that is gone or belongs to another thread.
ListenersExact ==
  \A t \in Thread : th[t].pc \notin {"exit", "remove", "retire", "advance"} =>
    ToSet(ListenersFrom(tail[t]))
      = UNION {{q} \X mine[t][q] : q \in Queue} \union Pending(t)

\* Every call returns and every thread ends: the searches always meet a free slot, a
\* thread that waits for a larger table gets one or makes one, also when an allocation
\* has failed, and nobody waits forever for the mutex.
ThreadsEnd == \A t \in Thread : <>[](th[t].pc = "dead")
=============================================================================
