---------------------------- MODULE PoolScheduler ----------------------------
(***************************************************************************)
(* The scheduler of the worker pool: emplacing tasks, the work loop of the *)
(* workers with its queues, work stealing, handing over tasks that became  *)
(* ready, and stopping the pool.                                           *)
(*                                                                         *)
(* The task graph is reduced to the constant Preds: a task that a worker   *)
(* initialises is ready if its predecessors are done, and otherwise is     *)
(* activated by the worker that executes the last of them.  (How events    *)
(* achieve this is the subject of TaskGraph.)  The task queues are         *)
(* concurrent queues with one stream per producer; which stream pop()      *)
(* serves is left open.                                                    *)
(*                                                                         *)
(* Two abstractions make this pool better than the one in the code.  A     *)
(* CondVar is an atomic latch: what follows here holds as far as the       *)
(* release store at the end of CondVar::wait is not overtaken by the loads *)
(* after it (CondVar shows that a wake-up is lost in that case, and in no  *)
(* other).  And a pop fails only if the queue is empty, which try_dequeue  *)
(* does not promise while another thread takes from the queue.             *)
(***************************************************************************)
EXTENDS Naturals, FiniteSets

CONSTANTS
  N,         \* n_workers; the pool's m_base_id is 0
  IdRange,   \* number of values of a WorkerId (uint8_t: 2^8), where counters wrap
  MaxTask,   \* bound: number of tasks the program emplaces
  Preds      \* [Task -> SUBSET Task], the dependencies

Worker == 0..(N - 1)
Task == 1..MaxTask
Main == N                        \* the main thread, not a worker
Thread == 0..N
None == 0                        \* no task

ASSUME PoolAssumption ==
  /\ N \in Nat \ {0}
  /\ IdRange \in Nat /\ N < IdRange
  /\ MaxTask \in Nat
  /\ Preds \in [Task -> SUBSET Task]
  /\ \A t \in Task : \A p \in Preds[t] : p < t

VARIABLES
  task,                \* life cycle of every task
  emplacement_queue,   \* [Worker -> SUBSET Task]
  ready_queue,         \* [Worker -> SUBSET Task]
  worker_state,        \* AtomicBitfield of the pool
  should_wait,         \* the CondVar of every worker
  m_stop,
  next_counter,        \* getNextWorkerID's counter
  next_worker,         \* activate_task's thread_local counter
  pc,                  \* program counter of every thread
  held,                \* the task a worker is busy with
  idx,                 \* the worker a thread is dealing with
  probe,               \* what a worker probes worker_state for ...
  left,                \* ... and the workers that it has not tried
  todo                 \* tasks a worker still has to activate

queues == <<emplacement_queue, ready_queue>>
local == <<held, idx, probe, left, todo>>
vars == <<task, queues, worker_state, should_wait, m_stop, next_counter,
          next_worker, pc, local>>

TaskState == {"unborn", "emplaced", "blocked", "ready", "done"}

WorkerPcs == {"loop", "avail", "wait", "ready", "new", "init", "busy", "body",
              "idle", "probe", "victim", "own", "claim", "fallback", "push",
              "push_silent", "wake", "activate", "exited"}

MainPcs == {"top", "wake", "stop", "stop_wake", "join", "stopped"}

TypeOK ==
  /\ task \in [Task -> TaskState]
  /\ emplacement_queue \in [Worker -> SUBSET Task]
  /\ ready_queue \in [Worker -> SUBSET Task]
  /\ worker_state \in [Worker -> {"BUSY", "AVAILABLE"}]
  /\ should_wait \in [Worker -> BOOLEAN]
  /\ m_stop \in [Worker -> BOOLEAN]
  /\ next_counter \in 0..(IdRange - 1)
  /\ next_worker \in [Worker -> 0..(IdRange - 1)]
  /\ pc \in [Thread -> WorkerPcs \union MainPcs]
  /\ held \in [Worker -> Task \union {None}]
  /\ idx \in [Thread -> 0..N] /\ \A w \in Worker : idx[w] \in Worker
  /\ probe \in [Worker -> {"ready", "new", "free"}]
  /\ left \in [Worker -> SUBSET Worker]
  /\ todo \in [Worker -> SUBSET Task]

\* activate_task's counter starts after the current worker or at 0: a worker
\* assigns its id to current_worker_id without engaging the optional.
Init ==
  /\ task = [t \in Task |-> "unborn"]
  /\ emplacement_queue = [w \in Worker |-> {}]
  /\ ready_queue = [w \in Worker |-> {}]
  /\ worker_state = [w \in Worker |-> "BUSY"]
  /\ should_wait = [w \in Worker |-> TRUE]
  /\ m_stop = [w \in Worker |-> FALSE]
  /\ next_counter = 0
  /\ next_worker \in {[w \in Worker |-> 0], [w \in Worker |-> w + 1]}
  /\ pc = [th \in Thread |-> IF th = Main THEN "top" ELSE "loop"]
  /\ held = [w \in Worker |-> None]
  /\ idx = [th \in Thread |-> 0]
  /\ probe = [w \in Worker |-> "ready"]
  /\ left = [w \in Worker |-> {}]
  /\ todo = [w \in Worker |-> {}]

Goto(th, from, to) == pc[th] = from /\ pc' = [pc EXCEPT ![th] = to]

-----------------------------------------------------------------------------
\* The main thread: emplace_task, barrier and the destructor.

\* getNextWorkerID; dispatch_task pushes the task ...
EmplaceTask(t) ==
  /\ Goto(Main, "top", "wake")
  /\ \A u \in Task : task[u] = "unborn" <=> u >= t
  /\ task' = [task EXCEPT ![t] = "emplaced"]
  /\ emplacement_queue' = [emplacement_queue EXCEPT ![next_counter % N] = @ \union {t}]
  /\ idx' = [idx EXCEPT ![Main] = next_counter % N]
  /\ next_counter' = (next_counter + 1) % IdRange
  /\ UNCHANGED <<ready_queue, worker_state, should_wait, m_stop, next_worker,
                 held, probe, left, todo>>

\* ... and wakes the worker.
Notify(w) == should_wait' = [should_wait EXCEPT ![w] = FALSE]

\* Mutant of WakeForNewTask: wakes a worker only when it has seen it available.
WakeIfAvailable ==
  /\ Goto(Main, "wake", "top")
  /\ should_wait' = [should_wait EXCEPT
       ![idx[Main]] = @ /\ worker_state[idx[Main]] = "BUSY"]
  /\ UNCHANGED <<task, queues, worker_state, m_stop, next_counter, next_worker, local>>

WakeForNewTask ==
  /\ Goto(Main, "wake", "top")
  /\ Notify(idx[Main])
  /\ UNCHANGED <<task, queues, worker_state, m_stop, next_counter, next_worker, local>>

\* The destructor waits in barrier() and then stops worker after worker.
EndBarrier ==
  /\ Goto(Main, "top", "stop")
  /\ \A t \in Task : task[t] \in {"unborn", "done"}
  /\ idx' = [idx EXCEPT ![Main] = 0]
  /\ UNCHANGED <<task, queues, worker_state, should_wait, m_stop, next_counter,
                 next_worker, held, probe, left, todo>>

\* Mutant of StopWorker: m_stop is not set.
StopWorkerUnset ==
  /\ Goto(Main, "stop", "stop_wake")
  /\ UNCHANGED <<task, queues, worker_state, should_wait, m_stop, next_counter,
                 next_worker, local>>

StopWorker ==
  /\ Goto(Main, "stop", "stop_wake")
  /\ m_stop' = [m_stop EXCEPT ![idx[Main]] = TRUE]
  /\ UNCHANGED <<task, queues, worker_state, should_wait, next_counter,
                 next_worker, local>>

WakeForStop ==
  /\ Goto(Main, "stop_wake", "join")
  /\ Notify(idx[Main])
  /\ UNCHANGED <<task, queues, worker_state, m_stop, next_counter, next_worker, local>>

JoinWorker ==
  /\ Goto(Main, "join", IF idx[Main] + 1 = N THEN "stopped" ELSE "stop")
  /\ pc[idx[Main]] = "exited"
  /\ idx' = [idx EXCEPT ![Main] = @ + 1]
  /\ UNCHANGED <<task, queues, worker_state, should_wait, m_stop, next_counter,
                 next_worker, held, probe, left, todo>>

-----------------------------------------------------------------------------
\* work_loop

CheckStop(w) ==
  /\ Goto(w, "loop", IF m_stop[w] THEN "exited" ELSE "avail")
  /\ UNCHANGED <<task, queues, worker_state, should_wait, m_stop, next_counter,
                 next_worker, local>>

SetState(w, s) == worker_state' = [worker_state EXCEPT ![w] = s]

\* Mutant of SetAvailable: goes to sleep in the state it is in.
SleepAsIs(w) ==
  /\ Goto(w, "avail", "wait")
  /\ UNCHANGED <<task, queues, worker_state, should_wait, m_stop, next_counter,
                 next_worker, local>>

\* Mutant of SetAvailable: throws away an early wake-up.
SleepCleared(w) ==
  /\ Goto(w, "avail", "wait")
  /\ SetState(w, "AVAILABLE")
  /\ should_wait' = [should_wait EXCEPT ![w] = TRUE]
  /\ UNCHANGED <<task, queues, m_stop, next_counter, next_worker, local>>

SetAvailable(w) ==
  /\ Goto(w, "avail", "wait")
  /\ SetState(w, "AVAILABLE")
  /\ UNCHANGED <<task, queues, should_wait, m_stop, next_counter, next_worker, local>>

\* cv.wait(), with the latch closed again by the time the next look begins.
Wait(w) ==
  /\ Goto(w, "wait", "ready")
  /\ ~ should_wait[w]
  /\ should_wait' = [should_wait EXCEPT ![w] = TRUE]
  /\ UNCHANGED <<task, queues, worker_state, m_stop, next_counter, next_worker, local>>

SetBusy(w) ==
  /\ Goto(w, "busy", "body")
  /\ SetState(w, "BUSY")
  /\ UNCHANGED <<task, queues, should_wait, m_stop, next_counter, next_worker, local>>

\* The body ends and the post-event is reached: the followers for which this
\* was the last predecessor have to be activated.
Activated(t) ==
  {u \in Task : /\ task[u] = "blocked"
                /\ \A p \in Preds[u] : p = t \/ task[p] = "done"}

ExecuteTask(w) ==
  /\ Goto(w, "body", "activate")
  /\ todo' = [todo EXCEPT ![w] = Activated(held[w])]
  /\ task' = [u \in Task |-> IF u = held[w] THEN "done"
                             ELSE IF u \in Activated(held[w]) THEN "ready"
                             ELSE task[u]]
  /\ held' = [held EXCEPT ![w] = None]
  /\ UNCHANGED <<queues, worker_state, should_wait, m_stop, next_counter,
                 next_worker, idx, probe, left>>

-----------------------------------------------------------------------------
\* gather_task

\* A pop of queue q of worker v by worker w that gets a task.
PopReady(w, v) ==
  \E t \in ready_queue[v] :
    /\ ready_queue' = [ready_queue EXCEPT ![v] = @ \ {t}]
    /\ held' = [held EXCEPT ![w] = t]
    /\ UNCHANGED emplacement_queue

PopNew(w, v) ==
  \E t \in emplacement_queue[v] :
    /\ emplacement_queue' = [emplacement_queue EXCEPT ![v] = @ \ {t}]
    /\ held' = [held EXCEPT ![w] = t]
    /\ UNCHANGED ready_queue

\* Stage 1
GatherReady(w) ==
  /\ \/ Goto(w, "ready", "busy") /\ PopReady(w, w)
     \/ Goto(w, "ready", "new") /\ ready_queue[w] = {} /\ UNCHANGED <<queues, held>>
  /\ UNCHANGED <<task, worker_state, should_wait, m_stop, next_counter,
                 next_worker, idx, probe, left, todo>>

\* Stage 2
GatherNew(w) ==
  /\ \/ Goto(w, "new", "init") /\ PopNew(w, w)
     \/ Goto(w, "new", "idle") /\ emplacement_queue[w] = {} /\ UNCHANGED <<queues, held>>
  /\ probe' = [probe EXCEPT ![w] = "ready"]
  /\ UNCHANGED <<task, worker_state, should_wait, m_stop, next_counter,
                 next_worker, idx, left, todo>>

\* Mutant of InitDependencies: a task that is ready is neither claimed nor activated.
InitUnclaimed(w) ==
  LET t == held[w]
      isReady == \A p \in Preds[t] : task[p] = "done"
  IN  /\ Goto(w, "init", IF probe[w] = "new" THEN "loop" ELSE "new")
      /\ task' = [task EXCEPT ![t] = IF isReady THEN "ready" ELSE "blocked"]
      /\ held' = [held EXCEPT ![w] = None]
      /\ UNCHANGED <<queues, worker_state, should_wait, m_stop, next_counter,
                     next_worker, idx, probe, left, todo>>

\* init_graph and notify(claimed), of an own task or of a stolen one: with a
\* blocked one a worker goes on to its next new task, a thief gives up.
InitDependencies(w) ==
  LET t == held[w]
      isReady == \A p \in Preds[t] : task[p] = "done"
  IN  /\ Goto(w, "init", IF isReady THEN "busy"
                         ELSE IF probe[w] = "new" THEN "loop" ELSE "new")
      /\ task' = [task EXCEPT ![t] = IF isReady THEN "ready" ELSE "blocked"]
      /\ held' = [held EXCEPT ![w] = IF isReady THEN t ELSE None]
      /\ UNCHANGED <<queues, worker_state, should_wait, m_stop, next_counter,
                     next_worker, idx, probe, left, todo>>

\* The worker requests tasks and starts to steal.
RequestTasks(w) ==
  /\ Goto(w, "idle", "probe")
  /\ SetState(w, "AVAILABLE")
  /\ probe' = [probe EXCEPT ![w] = "ready"]
  /\ left' = [left EXCEPT ![w] = Worker]
  /\ UNCHANGED <<task, queues, should_wait, m_stop, next_counter, next_worker,
                 held, idx, todo>>

-----------------------------------------------------------------------------
\* AtomicBitfield::probe_by_value on one chunk, starting at the worker itself.

Expected(w) == IF probe[w] = "free" THEN "AVAILABLE" ELSE "BUSY"

\* The bits below the start are probed first, then the others.
Half(w) ==
  LET below == {v \in left[w] : v < w}
  IN  IF below # {} THEN below ELSE left[w]

ProbeNext(w) ==
  LET hits == {v \in Half(w) : worker_state[v] = Expected(w)}
  IN  \E first \in hits :
        /\ \A v \in hits : first <= v
        /\ Goto(w, "probe", IF probe[w] = "free" THEN "claim" ELSE "victim")
        /\ idx' = [idx EXCEPT ![w] = first]
        /\ left' = [left EXCEPT ![w] = @ \ {first}]
        /\ UNCHANGED <<task, queues, worker_state, should_wait, m_stop,
                       next_counter, next_worker, held, probe, todo>>

\* No (more) hits in this half: go to the other one, or the search fails.
ProbeEmpty(w) ==
  LET last == Half(w) = left[w]
  IN  /\ \A v \in Half(w) : worker_state[v] # Expected(w)
      /\ Goto(w, "probe", IF ~ last \/ probe[w] = "ready" THEN "probe"
                          ELSE IF probe[w] = "free" THEN "fallback" ELSE "loop")
      /\ left' = [left EXCEPT ![w] =
                    IF last /\ probe[w] = "ready" THEN Worker ELSE @ \ Half(w)]
      /\ probe' = [probe EXCEPT ![w] = IF last /\ @ = "ready" THEN "new" ELSE @]
      /\ UNCHANGED <<task, queues, worker_state, should_wait, m_stop,
                     next_counter, next_worker, held, idx, todo>>

\* steal_ready_task, steal_new_task: pop the queue of the busy worker, or
\* else the own queue, or else go on.
StealFrom(w, v, at, otherwise) ==
  \/ probe[w] = "ready" /\ Goto(w, at, "busy") /\ PopReady(w, v)
  \/ probe[w] = "new" /\ Goto(w, at, "init") /\ PopNew(w, v)
  \/ /\ IF probe[w] = "ready" THEN ready_queue[v] = {} ELSE emplacement_queue[v] = {}
     /\ Goto(w, at, otherwise)
     /\ UNCHANGED <<queues, held>>

Steal(w) ==
  /\ StealFrom(w, idx[w], "victim", "own") \/ StealFrom(w, w, "own", "probe")
  /\ UNCHANGED <<task, worker_state, should_wait, m_stop, next_counter,
                 next_worker, idx, probe, left, todo>>

-----------------------------------------------------------------------------
\* activate_task

\* The next follower; when there is none, back to gather_task.
NextFollower(w) ==
  /\ \/ \E t \in todo[w] :
          /\ Goto(w, "activate", "probe")
          /\ held' = [held EXCEPT ![w] = t]
          /\ todo' = [todo EXCEPT ![w] = @ \ {t}]
          /\ probe' = [probe EXCEPT ![w] = "free"]
          /\ left' = [left EXCEPT ![w] = Worker]
     \/ /\ todo[w] = {}
        /\ Goto(w, "activate", "ready")
        /\ UNCHANGED <<held, todo, probe, left>>
  /\ UNCHANGED <<task, queues, worker_state, should_wait, m_stop, next_counter,
                 next_worker, idx>>

\* find_free_worker: set_worker_state(BUSY) says if the state changed.
ClaimWorker(w) ==
  /\ Goto(w, "claim", IF worker_state[idx[w]] = "AVAILABLE" THEN "push" ELSE "probe")
  /\ SetState(idx[w], "BUSY")
  /\ UNCHANGED <<task, queues, should_wait, m_stop, next_counter, next_worker, local>>

\* All workers are busy: take the next one, or the one after it if that is the
\* current worker (which it can be again, where the counter wraps).
FallbackWorker(w) ==
  LET first  == next_worker[w]
      second == (first + 1) % IdRange
      last   == IF first % N = w THEN second ELSE first
  IN  /\ Goto(w, "fallback", "push_silent")
      /\ idx' = [idx EXCEPT ![w] = last % N]
      /\ next_worker' = [next_worker EXCEPT ![w] = (last + 1) % IdRange]
      /\ UNCHANGED <<task, queues, worker_state, should_wait, m_stop,
                     next_counter, held, probe, left, todo>>

\* ready_queue.push; only a worker that was free gets woken.
PushReady(w) ==
  /\ Goto(w, "push", "wake") \/ Goto(w, "push_silent", "activate")
  /\ ready_queue' = [ready_queue EXCEPT ![idx[w]] = @ \union {held[w]}]
  /\ held' = [held EXCEPT ![w] = None]
  /\ UNCHANGED <<task, emplacement_queue, worker_state, should_wait, m_stop,
                 next_counter, next_worker, idx, probe, left, todo>>

WakeClaimed(w) ==
  /\ Goto(w, "wake", "activate")
  /\ Notify(idx[w])
  /\ UNCHANGED <<task, queues, worker_state, m_stop, next_counter, next_worker, local>>

-----------------------------------------------------------------------------
\* The main thread goes on once it has begun to emplace or to stop.
MainStep ==
  \/ WakeForNewTask \/ EndBarrier \/ StopWorker \/ WakeForStop \/ JoinWorker

WorkerStep(w) ==
  \/ CheckStop(w) \/ SetAvailable(w) \/ Wait(w) \/ SetBusy(w) \/ ExecuteTask(w)
  \/ GatherReady(w) \/ GatherNew(w) \/ InitDependencies(w) \/ RequestTasks(w)
  \/ ProbeNext(w) \/ ProbeEmpty(w) \/ Steal(w)
  \/ NextFollower(w) \/ ClaimWorker(w) \/ FallbackWorker(w) \/ PushReady(w)
  \/ WakeClaimed(w)

Terminated == pc[Main] = "stopped" /\ UNCHANGED vars

Next ==
  \/ MainStep
  \/ \E t \in Task : EmplaceTask(t)
  \/ \E w \in Worker : WorkerStep(w)
  \/ Terminated

Spec == Init /\ [][Next]_vars

\* Threads are scheduled and every task body ends.
FairSpec ==
  /\ Spec
  /\ WF_vars(MainStep)
  /\ \A w \in Worker : WF_vars(WorkerStep(w))

-----------------------------------------------------------------------------
(***************************************************************************)
(* Properties.                                                             *)
(***************************************************************************)

\* A task is never in two places and never lost: it is in one queue, in the
\* hands of one worker, about to be activated by one, or blocked in the graph.
OnePlace ==
  \A t \in Task :
    LET places == Cardinality({w \in Worker : t \in emplacement_queue[w]})
                  + Cardinality({w \in Worker : t \in ready_queue[w]})
                  + Cardinality({w \in Worker : t = held[w]})
                  + Cardinality({w \in Worker : t \in todo[w]})
    IN  places = IF task[t] \in {"emplaced", "ready"} THEN 1 ELSE 0

\* Threads that are about to wake up w.
Waking(w) == {th \in Thread : pc[th] \in {"push", "wake", "stop_wake"} /\ idx[th] = w}

\* The worker has looked into its own emplacement queue for the last time
\* before it sleeps.
PastOwnQueue(w) ==
  \/ pc[w] \in {"idle", "loop", "avail", "wait", "victim", "own"}
  \/ pc[w] = "probe" /\ probe[w] # "free"
  \/ pc[w] = "init" /\ probe[w] = "new"

\* No new task is left behind with a worker that goes to sleep: the latch of
\* the worker is open, or the main thread is about to open it.
NewTaskNoticed ==
  \A w \in Worker :
    PastOwnQueue(w) /\ emplacement_queue[w] # {} =>
      ~ should_wait[w] \/ Main \in Waking(w)

\* A sleeping worker counts as available, unless someone who claimed it is
\* about to wake it up: a worker that is BUSY in the bit field and sleeps would
\* never be given a task again.
SleeperAvailable ==
  \A w \in Worker :
    pc[w] = "wait" /\ worker_state[w] = "BUSY" =>
      ~ should_wait[w] \/ Waking(w) # {}

\* Every emplaced task gets initialised.
NewTasksInitialised ==
  \A t \in Task : (task[t] = "emplaced") ~> (task[t] # "emplaced")

\* stop() joins every worker.
StopReturns == (pc[Main] = "stop") ~> (pc[Main] = "stopped")

\* Every emplaced task is executed.
TasksExecuted ==
  \A t \in Task : (task[t] = "emplaced") ~> (task[t] = "done")
=============================================================================
