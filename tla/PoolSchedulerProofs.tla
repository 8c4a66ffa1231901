------------------------- MODULE PoolSchedulerProofs -------------------------
(***************************************************************************)
(* Whatever the number of workers, the tasks and their dependencies: a     *)
(* worker never goes to sleep on a new task, never sleeps while the pool   *)
(* takes it for busy, and a task is in one queue or with one worker.       *)
(***************************************************************************)
EXTENDS PoolScheduler, FiniteSetTheorems, TLAPS

\* A counter modulo the number of workers is the index of a worker.
LEMMA ModWorker == ASSUME NEW i \in Nat PROVE i % N \in Worker
  BY PoolAssumption DEF PoolAssumption, Worker

\* The indices of workers are below that of the main thread.
LEMMA WorkerIds ==
  /\ 0 \in Worker
  /\ \A w \in Worker :
       /\ w \in Thread /\ w # Main
       /\ w \in 0..N /\ w + 1 \in 0..N
       /\ w + 1 # N => w + 1 \in Worker
  BY PoolAssumption DEF PoolAssumption, Worker, Thread, Main

\* A WorkerId stays one when it is incremented and wraps around.
LEMMA NextId ==
  ASSUME NEW i \in 0..(IdRange - 1)
  PROVE  /\ i % N \in Worker
         /\ (i + 1) % IdRange \in 0..(IdRange - 1)
<1>1. i % N \in Worker
  BY ModWorker
<1>2. i + 1 \in Nat /\ IdRange \in Nat \ {0}
  BY PoolAssumption DEF PoolAssumption
<1>3. (i + 1) % IdRange \in 0..(IdRange - 1)
  BY <1>2
<1> QED
  BY <1>1, <1>3

\* What a worker probes for follows from where it is.
ProbeMatches ==
  \A w \in Worker :
    /\ pc[w] \in {"idle", "loop", "avail", "wait", "victim", "own"} => probe[w] # "free"
    /\ pc[w] = "claim" => probe[w] = "free"

\* A worker that hands over a task has one.
HoldsTask ==
  \A w \in Worker :
    \/ pc[w] \in {"claim", "fallback", "push", "push_silent"}
    \/ pc[w] = "probe" /\ probe[w] = "free"
    => held[w] \in Task

\* The main thread deals with a worker that exists.
StopIndex ==
  pc[Main] \in {"wake", "stop", "stop_wake", "join"} => idx[Main] \in Worker

IInv ==
  /\ TypeOK
  /\ StopIndex /\ ProbeMatches /\ HoldsTask
  /\ NewTaskNoticed /\ SleeperAvailable

\* All bits are clear at the start, but no worker sleeps yet.
LEMMA InitIInv == Init => IInv
<1> SUFFICES ASSUME Init PROVE IInv
  OBVIOUS
<1> USE PoolAssumption DEF PoolAssumption, Init, Worker, Thread, Main
<1>1. TypeOK
  <2>1. next_worker \in [Worker -> 0..(IdRange - 1)]
    <3>1. \A w \in Worker : 0 \in 0..(IdRange - 1) /\ w + 1 \in 0..(IdRange - 1)
      OBVIOUS
    <3> QED
      BY <3>1
  <2>2. /\ next_counter \in 0..(IdRange - 1)
        /\ idx \in [Thread -> 0..N] /\ \A w \in Worker : idx[w] \in Worker
    BY WorkerIds
  <2>3. pc \in [Thread -> WorkerPcs \union MainPcs]
    BY DEF WorkerPcs, MainPcs
  <2>4. task \in [Task -> TaskState] /\ held \in [Worker -> Task \union {None}]
    BY DEF TaskState
  <2>5. should_wait \in [Worker -> BOOLEAN] /\ m_stop \in [Worker -> BOOLEAN]
    OBVIOUS
  <2> QED
    BY <2>1, <2>2, <2>3, <2>4, <2>5 DEF TypeOK
<1>2. StopIndex /\ ProbeMatches /\ HoldsTask
  BY DEF StopIndex, ProbeMatches, HoldsTask
<1>3. NewTaskNoticed
  BY DEF NewTaskNoticed
<1>4. SleeperAvailable
  BY DEF SleeperAvailable
<1> QED
  BY <1>1, <1>2, <1>3, <1>4 DEF IInv

-----------------------------------------------------------------------------
\* Every step of the main thread keeps the types.
LEMMA MainTypeStep ==
  ASSUME TypeOK, StopIndex, MainStep \/ \E t \in Task : EmplaceTask(t)
  PROVE  TypeOK' /\ StopIndex'
<1> USE PoolAssumption DEF PoolAssumption, TypeOK, StopIndex, Goto, Thread, Main,
        MainPcs, WorkerPcs
<1>1. ASSUME NEW t \in Task, EmplaceTask(t) PROVE TypeOK' /\ StopIndex'
  <2>1. /\ next_counter' \in 0..(IdRange - 1)
        /\ next_counter % N \in Worker /\ next_counter % N \in 0..N
    <3>1. /\ next_counter % N \in Worker
          /\ (next_counter + 1) % IdRange \in 0..(IdRange - 1)
      BY NextId
    <3> QED
      BY <1>1, <3>1, WorkerIds DEF EmplaceTask
  <2>2. pc' \in [Thread -> WorkerPcs \union MainPcs]
    BY <1>1 DEF EmplaceTask
  <2>3. idx' \in [Thread -> 0..N] /\ \A w \in Worker : idx'[w] \in Worker
    <3>1. idx' = [idx EXCEPT ![Main] = next_counter % N]
      BY <1>1 DEF EmplaceTask
    <3>2. idx' \in [Thread -> 0..N]
      BY <2>1, <3>1
    <3>3. \A w \in Worker : w \in Thread /\ w # Main
      BY WorkerIds
    <3> QED
      BY <3>1, <3>2, <3>3
  <2>4. task' \in [Task -> TaskState]
    BY <1>1 DEF EmplaceTask, TaskState
  <2>5. emplacement_queue' \in [Worker -> SUBSET Task]
    <3>1. PICK v \in Worker :
            emplacement_queue' = [emplacement_queue EXCEPT ![v] = @ \union {t}]
      BY <1>1, <2>1 DEF EmplaceTask
    <3> QED
      BY <3>1
  <2>6. StopIndex'
    BY <1>1, <2>1 DEF EmplaceTask
  <2> QED
    BY <1>1, <2>1, <2>2, <2>3, <2>4, <2>5, <2>6 DEF EmplaceTask
<1>2. CASE WakeForNewTask
  BY <1>2 DEF WakeForNewTask, Notify, queues, local
<1>3. CASE EndBarrier
  <2>1. /\ idx' \in [Thread -> 0..N] /\ \A w \in Worker : idx'[w] \in Worker
        /\ idx'[Main] \in Worker
    BY SMTT(60), <1>3, WorkerIds DEF EndBarrier
  <2>2. pc' \in [Thread -> WorkerPcs \union MainPcs]
    BY <1>3 DEF EndBarrier
  <2> QED
    BY <1>3, <2>1, <2>2 DEF EndBarrier, queues
<1>4. CASE StopWorker
  BY <1>4 DEF StopWorker, queues, local
<1>5. CASE WakeForStop
  BY <1>5 DEF WakeForStop, Notify, queues, local
<1>6. CASE JoinWorker
  <2>1. pc' \in [Thread -> WorkerPcs \union MainPcs]
    BY <1>6 DEF JoinWorker
  <2>2. idx[Main] \in Worker /\ idx'[Main] = idx[Main] + 1
    BY <1>6 DEF JoinWorker
  <2>3. idx' \in [Thread -> 0..N] /\ \A w \in Worker : idx'[w] \in Worker
    BY <1>6, <2>2, WorkerIds DEF JoinWorker
  <2>4. StopIndex'
    BY <1>6, <2>2, WorkerIds DEF JoinWorker
  <2> QED
    BY <1>6, <2>1, <2>3, <2>4 DEF JoinWorker, queues
<1> QED
  BY <1>1, <1>2, <1>3, <1>4, <1>5, <1>6 DEF MainStep

\* A pop takes a task out of one queue of v and gives it to w.
LEMMA PopTypes ==
  ASSUME TypeOK, NEW w \in Worker, NEW v \in Worker, PopReady(w, v) \/ PopNew(w, v)
  PROVE  /\ emplacement_queue' \in [Worker -> SUBSET Task]
         /\ ready_queue' \in [Worker -> SUBSET Task]
         /\ held' \in [Worker -> Task \union {None}]
<1> USE DEF TypeOK
<1>1. CASE PopReady(w, v)
  <2>1. PICK t \in ready_queue[v] :
          /\ ready_queue' = [ready_queue EXCEPT ![v] = @ \ {t}]
          /\ held' = [held EXCEPT ![w] = t]
          /\ UNCHANGED emplacement_queue
    BY <1>1 DEF PopReady
  <2>2. t \in Task
    OBVIOUS
  <2> QED
    BY <2>1, <2>2
<1>2. CASE PopNew(w, v)
  <2>1. PICK t \in emplacement_queue[v] :
          /\ emplacement_queue' = [emplacement_queue EXCEPT ![v] = @ \ {t}]
          /\ held' = [held EXCEPT ![w] = t]
          /\ UNCHANGED ready_queue
    BY <1>2 DEF PopNew
  <2>2. t \in Task
    OBVIOUS
  <2> QED
    BY <2>1, <2>2
<1> QED
  BY <1>1, <1>2

\* Every step of a worker keeps the types.
LEMMA WorkerTypeStep ==
  ASSUME TypeOK, HoldsTask, NEW w \in Worker, WorkerStep(w)
  PROVE  TypeOK'
<1> USE DEF TypeOK, Goto, SetState, queues, local
<1>0. w \in Thread /\ w # Main /\ w \in 0..N
  BY WorkerIds
<1>pc. pc' \in [Thread -> WorkerPcs \union MainPcs]
  <2>1. \E p \in WorkerPcs : pc' = [pc EXCEPT ![w] = p]
    <3>1. CASE CheckStop(w) \/ SetAvailable(w) \/ Wait(w) \/ SetBusy(w) \/ ExecuteTask(w)
      BY <3>1 DEF CheckStop, SetAvailable, Wait, SetBusy, ExecuteTask, WorkerPcs
    <3>2. CASE GatherReady(w) \/ GatherNew(w) \/ InitDependencies(w) \/ RequestTasks(w)
      BY <3>2 DEF GatherReady, GatherNew, InitDependencies, RequestTasks, WorkerPcs
    <3>3. CASE ProbeNext(w) \/ ProbeEmpty(w)
      BY <3>3 DEF ProbeNext, ProbeEmpty, WorkerPcs
    <3>4. CASE Steal(w)
      BY <3>4 DEF Steal, StealFrom, WorkerPcs
    <3>5. CASE NextFollower(w) \/ ClaimWorker(w) \/ FallbackWorker(w)
      BY <3>5 DEF NextFollower, ClaimWorker, FallbackWorker, WorkerPcs
    <3>6. CASE PushReady(w) \/ WakeClaimed(w)
      BY <3>6 DEF PushReady, WakeClaimed, WorkerPcs
    <3> QED
      BY <3>1, <3>2, <3>3, <3>4, <3>5, <3>6 DEF WorkerStep
  <2> QED
    BY <1>0, <2>1
<1>1. CASE CheckStop(w)
  BY <1>1, <1>pc DEF CheckStop
<1>2. CASE SetAvailable(w)
  BY <1>2, <1>pc DEF SetAvailable
<1>3. CASE Wait(w)
  BY <1>3, <1>pc DEF Wait
<1>4. CASE SetBusy(w)
  BY <1>4, <1>pc DEF SetBusy
<1>5. CASE ExecuteTask(w)
  <2>1. task' \in [Task -> TaskState]
    BY <1>5 DEF ExecuteTask, TaskState
  <2>2. todo' \in [Worker -> SUBSET Task]
    BY <1>5 DEF ExecuteTask, Activated
  <2> QED
    BY <1>5, <1>pc, <2>1, <2>2 DEF ExecuteTask
<1>6. CASE GatherReady(w)
  BY <1>6, <1>pc, PopTypes DEF GatherReady
<1>7. CASE GatherNew(w)
  BY <1>7, <1>pc, PopTypes DEF GatherNew
<1>8. CASE InitDependencies(w)
  <2>1. task' \in [Task -> TaskState]
    BY <1>8 DEF InitDependencies, TaskState
  <2>2. held' \in [Worker -> Task \union {None}]
    BY <1>8 DEF InitDependencies
  <2> QED
    BY <1>8, <1>pc, <2>1, <2>2 DEF InitDependencies
<1>9. CASE RequestTasks(w)
  BY <1>9, <1>pc DEF RequestTasks
<1>10. CASE ProbeNext(w)
  <2>1. PICK first \in Half(w) :
          /\ idx' = [idx EXCEPT ![w] = first]
          /\ left' = [left EXCEPT ![w] = @ \ {first}]
    BY <1>10 DEF ProbeNext
  <2>2. first \in Worker
    BY DEF Half
  <2>3. idx' \in [Thread -> 0..N] /\ \A v \in Worker : idx'[v] \in Worker
    BY <2>1, <2>2, <1>0, WorkerIds
  <2>4. left' \in [Worker -> SUBSET Worker]
    BY <2>1
  <2> QED
    BY <1>10, <1>pc, <2>3, <2>4 DEF ProbeNext
<1>11. CASE ProbeEmpty(w)
  <2>1. left' \in [Worker -> SUBSET Worker]
    BY <1>11 DEF ProbeEmpty
  <2>2. probe' \in [Worker -> {"ready", "new", "free"}]
    BY <1>11 DEF ProbeEmpty
  <2> QED
    BY <1>11, <1>pc, <2>1, <2>2 DEF ProbeEmpty
<1>12. CASE Steal(w)
  <2>1. idx[w] \in Worker
    OBVIOUS
  <2>2. /\ emplacement_queue' \in [Worker -> SUBSET Task]
        /\ ready_queue' \in [Worker -> SUBSET Task]
        /\ held' \in [Worker -> Task \union {None}]
    BY <1>12, <2>1, PopTypes DEF Steal, StealFrom
  <2> QED
    BY <1>12, <1>pc, <2>2 DEF Steal
<1>13. CASE NextFollower(w)
  <2>1. CASE todo[w] = {}
    BY <1>13, <1>pc, <2>1 DEF NextFollower
  <2>2. CASE todo[w] # {}
    <3>1. PICK t \in todo[w] :
            /\ held' = [held EXCEPT ![w] = t]
            /\ todo' = [todo EXCEPT ![w] = @ \ {t}]
            /\ probe' = [probe EXCEPT ![w] = "free"]
            /\ left' = [left EXCEPT ![w] = Worker]
      BY <1>13, <2>2 DEF NextFollower
    <3>2. t \in Task
      OBVIOUS
    <3> QED
      BY <1>13, <1>pc, <3>1, <3>2 DEF NextFollower
  <2> QED
    BY <2>1, <2>2
<1>14. CASE ClaimWorker(w)
  BY <1>14, <1>pc DEF ClaimWorker
<1>15. CASE FallbackWorker(w)
  <2>1. next_worker[w] \in 0..(IdRange - 1)
    OBVIOUS
  <2>2. PICK last \in {next_worker[w], (next_worker[w] + 1) % IdRange} :
          /\ idx' = [idx EXCEPT ![w] = last % N]
          /\ next_worker' = [next_worker EXCEPT ![w] = (last + 1) % IdRange]
    BY <1>15 DEF FallbackWorker
  <2>a. last \in 0..(IdRange - 1)
    BY <2>1, NextId
  <2>b. last % N \in Worker /\ (last + 1) % IdRange \in 0..(IdRange - 1)
    BY <2>a, NextId
  <2>3. next_worker' \in [Worker -> 0..(IdRange - 1)]
    BY <2>b, <2>2
  <2>4. idx' \in [Thread -> 0..N] /\ \A v \in Worker : idx'[v] \in Worker
    BY <1>0, <2>b, <2>2, WorkerIds
  <2> QED
    BY <1>15, <1>pc, <2>3, <2>4 DEF FallbackWorker
<1>16. CASE PushReady(w)
  <2>1. held[w] \in Task
    BY <1>16 DEF PushReady, HoldsTask
  <2> QED
    BY <1>16, <1>pc, <2>1 DEF PushReady
<1>17. CASE WakeClaimed(w)
  BY <1>17, <1>pc DEF WakeClaimed, Notify
<1> QED
  BY <1>1, <1>2, <1>3, <1>4, <1>5, <1>6, <1>7, <1>8, <1>9, <1>10, <1>11, <1>12,
     <1>13, <1>14, <1>15, <1>16, <1>17 DEF WorkerStep

-----------------------------------------------------------------------------
\* A step of a worker moves that worker only.
LEMMA WorkerFrame ==
  ASSUME TypeOK, NEW w \in Worker, WorkerStep(w)
  PROVE  /\ \A u \in Thread : u # w => pc'[u] = pc[u] /\ idx'[u] = idx[u]
         /\ \A u \in Worker : u # w => probe'[u] = probe[u] /\ held'[u] = held[u]
<1> USE DEF TypeOK, Goto, queues, local
<1>1. CASE CheckStop(w) \/ SetAvailable(w) \/ Wait(w) \/ SetBusy(w) \/ ExecuteTask(w)
  BY <1>1 DEF CheckStop, SetAvailable, Wait, SetBusy, ExecuteTask
<1>2. CASE GatherReady(w) \/ GatherNew(w)
  BY <1>2 DEF GatherReady, GatherNew, PopReady, PopNew
<1>3. CASE InitDependencies(w) \/ RequestTasks(w)
  BY <1>3 DEF InitDependencies, RequestTasks
<1>4. CASE ProbeNext(w) \/ ProbeEmpty(w)
  BY <1>4 DEF ProbeNext, ProbeEmpty
<1>5. CASE Steal(w)
  BY <1>5 DEF Steal, StealFrom, PopReady, PopNew
<1>6. CASE NextFollower(w) \/ ClaimWorker(w) \/ FallbackWorker(w)
  BY <1>6 DEF NextFollower, ClaimWorker, FallbackWorker
<1>7. CASE PushReady(w) \/ WakeClaimed(w)
  BY <1>7 DEF PushReady, WakeClaimed
<1> QED
  BY <1>1, <1>2, <1>3, <1>4, <1>5, <1>6, <1>7 DEF WorkerStep

\* A step of the main thread moves no worker.
LEMMA MainFrame ==
  ASSUME TypeOK, MainStep \/ \E t \in Task : EmplaceTask(t)
  PROVE  /\ \A w \in Worker : pc'[w] = pc[w] /\ idx'[w] = idx[w]
         /\ UNCHANGED <<probe, held, worker_state>>
<1>1. \A w \in Worker : w \in Thread /\ w # Main
  BY WorkerIds
<1> USE DEF TypeOK, Goto, queues, local
<1>2. ASSUME NEW t \in Task, EmplaceTask(t)
      PROVE  /\ \A w \in Worker : pc'[w] = pc[w] /\ idx'[w] = idx[w]
             /\ UNCHANGED <<probe, held, worker_state>>
  BY <1>1, <1>2 DEF EmplaceTask
<1>3. CASE WakeForNewTask \/ EndBarrier
  BY <1>1, <1>3 DEF WakeForNewTask, EndBarrier
<1>4. CASE StopWorker \/ WakeForStop \/ JoinWorker
  BY <1>1, <1>4 DEF StopWorker, WakeForStop, JoinWorker
<1> QED
  BY <1>2, <1>3, <1>4 DEF MainStep

\* Where a worker is keeps matching what it probes for and what it holds.
LEMMA ControlStep ==
  ASSUME TypeOK, ProbeMatches, HoldsTask, NEW w \in Worker, WorkerStep(w)
  PROVE  ProbeMatches' /\ HoldsTask'
<1>1. /\ pc'[w] \in {"idle", "loop", "avail", "wait", "victim", "own"} => probe'[w] # "free"
      /\ pc'[w] = "claim" => probe'[w] = "free"
      /\ \/ pc'[w] \in {"claim", "fallback", "push", "push_silent"}
         \/ pc'[w] = "probe" /\ probe'[w] = "free"
         => held'[w] \in Task
  <2> USE DEF TypeOK, ProbeMatches, HoldsTask, Goto, queues, local
  <2>0. w \in Thread
    BY WorkerIds
  <2>1. CASE CheckStop(w) \/ SetAvailable(w) \/ Wait(w) \/ SetBusy(w) \/ ExecuteTask(w)
    BY <2>0, <2>1 DEF CheckStop, SetAvailable, Wait, SetBusy, ExecuteTask
  <2>2. CASE GatherReady(w)
    BY <2>0, <2>2 DEF GatherReady, PopReady
  <2>3. CASE GatherNew(w)
    BY <2>0, <2>3 DEF GatherNew, PopNew
  <2>4. CASE InitDependencies(w)
    BY <2>0, <2>4 DEF InitDependencies
  <2>5. CASE RequestTasks(w)
    BY <2>0, <2>5 DEF RequestTasks
  <2>6. CASE ProbeNext(w)
    BY <2>0, <2>6 DEF ProbeNext
  <2>7. CASE ProbeEmpty(w)
    BY <2>0, <2>7 DEF ProbeEmpty
  <2>8. CASE Steal(w)
    BY <2>0, <2>8 DEF Steal, StealFrom, PopReady, PopNew
  <2>9. CASE NextFollower(w)
    BY <2>0, <2>9 DEF NextFollower
  <2>10. CASE ClaimWorker(w) \/ FallbackWorker(w)
    BY <2>0, <2>10 DEF ClaimWorker, FallbackWorker
  <2>11. CASE PushReady(w) \/ WakeClaimed(w)
    BY <2>0, <2>11 DEF PushReady, WakeClaimed
  <2> QED
    BY <2>1, <2>2, <2>3, <2>4, <2>5, <2>6, <2>7, <2>8, <2>9, <2>10, <2>11 DEF WorkerStep
<1>2. \A u \in Worker : u # w =>
        pc'[u] = pc[u] /\ probe'[u] = probe[u] /\ held'[u] = held[u]
  BY WorkerFrame, WorkerIds
<1> QED
  BY <1>1, <1>2 DEF ProbeMatches, HoldsTask

-----------------------------------------------------------------------------
\* A worker adds nothing to an emplacement queue, passes its own queue only
\* when that is empty, and closes no latch but its own, by leaving wait().
LEMMA WorkerQueues ==
  ASSUME TypeOK, ProbeMatches, NEW w \in Worker, WorkerStep(w)
  PROVE  /\ \A v \in Worker : emplacement_queue'[v] \subseteq emplacement_queue[v]
         /\ PastOwnQueue(w)' => PastOwnQueue(w) \/ emplacement_queue'[w] = {}
         /\ \A v \in Worker : ~ should_wait[v] =>
              ~ should_wait'[v] \/ (v = w /\ pc'[w] = "ready")
<1> USE DEF TypeOK, ProbeMatches, PastOwnQueue, Goto, queues, local
<1>0. w \in Thread
  BY WorkerIds
<1>1. CASE CheckStop(w) \/ SetAvailable(w) \/ Wait(w) \/ SetBusy(w) \/ ExecuteTask(w)
  BY <1>0, <1>1 DEF CheckStop, SetAvailable, Wait, SetBusy, ExecuteTask
<1>2. CASE GatherReady(w)
  BY <1>0, <1>2 DEF GatherReady, PopReady
<1>3. CASE GatherNew(w)
  BY SMTT(60), <1>0, <1>3 DEF GatherNew, PopNew
<1>4. CASE InitDependencies(w) \/ RequestTasks(w)
  BY <1>0, <1>4 DEF InitDependencies, RequestTasks
<1>5. CASE ProbeNext(w)
  BY <1>0, <1>5 DEF ProbeNext
<1>6. CASE ProbeEmpty(w)
  BY <1>0, <1>6 DEF ProbeEmpty
<1>7. CASE Steal(w)
  BY SMTT(60), <1>0, <1>7 DEF Steal, StealFrom, PopReady, PopNew
<1>8. CASE NextFollower(w)
  BY <1>0, <1>8 DEF NextFollower
<1>9. CASE ClaimWorker(w) \/ FallbackWorker(w)
  BY <1>0, <1>9 DEF ClaimWorker, FallbackWorker
<1>10. CASE PushReady(w) \/ WakeClaimed(w)
  BY <1>0, <1>10 DEF PushReady, WakeClaimed, Notify
<1> QED
  BY <1>1, <1>2, <1>3, <1>4, <1>5, <1>6, <1>7, <1>8, <1>9, <1>10 DEF WorkerStep

\* The main thread pushes a new task before it opens the latch of its worker.
LEMMA NoticedMainStep ==
  ASSUME IInv, MainStep \/ \E t \in Task : EmplaceTask(t)
  PROVE  NewTaskNoticed'
<1> SUFFICES ASSUME NEW w \in Worker, PastOwnQueue(w)', emplacement_queue'[w] # {}
             PROVE  ~ should_wait'[w] \/ (Main \in Waking(w))'
  BY DEF NewTaskNoticed
<1>1. PastOwnQueue(w)
  BY MainFrame DEF IInv, PastOwnQueue
<1>2. emplacement_queue[w] # {} => ~ should_wait[w] \/ Main \in Waking(w)
  BY <1>1 DEF IInv, NewTaskNoticed
<1>3. Main \in Thread
  BY PoolAssumption DEF PoolAssumption, Thread, Main
<1> USE DEF IInv, TypeOK, Waking, Goto, queues, local
<1>4. ASSUME NEW t \in Task, EmplaceTask(t)
      PROVE  ~ should_wait'[w] \/ (Main \in Waking(w))'
  BY <1>2, <1>3, <1>4 DEF EmplaceTask
<1>5. CASE WakeForNewTask
  BY <1>2, <1>3, <1>5 DEF WakeForNewTask, Notify
<1>6. CASE EndBarrier \/ StopWorker
  BY <1>2, <1>3, <1>6 DEF EndBarrier, StopWorker
<1>7. CASE WakeForStop
  BY <1>2, <1>3, <1>7 DEF WakeForStop, Notify
<1>8. CASE JoinWorker
  BY <1>2, <1>3, <1>8 DEF JoinWorker
<1> QED
  BY <1>4, <1>5, <1>6, <1>7, <1>8 DEF MainStep

\* No step of a worker makes it or another one overlook a new task.
LEMMA NoticedWorkerStep ==
  ASSUME IInv, NEW w \in Worker, WorkerStep(w)
  PROVE  NewTaskNoticed'
<1> SUFFICES ASSUME NEW v \in Worker, PastOwnQueue(v)', emplacement_queue'[v] # {}
             PROVE  ~ should_wait'[v] \/ (Main \in Waking(v))'
  BY DEF NewTaskNoticed
<1> USE DEF IInv
<1>1. emplacement_queue[v] # {}
  BY WorkerQueues
<1>2. PastOwnQueue(v)
  <2>1. CASE v = w
    BY <2>1, WorkerQueues
  <2>2. CASE v # w
    BY <2>2, WorkerFrame, WorkerIds DEF PastOwnQueue
  <2> QED
    BY <2>1, <2>2
<1>3. ~ should_wait[v] \/ Main \in Waking(v)
  BY <1>1, <1>2 DEF NewTaskNoticed
<1>4. ~ (v = w /\ pc'[w] = "ready")
  BY DEF PastOwnQueue
<1>5. CASE ~ should_wait[v]
  BY <1>4, <1>5, WorkerQueues
<1>6. CASE Main \in Waking(v)
  <2>1. w # Main /\ Main \in Thread
    BY WorkerIds, PoolAssumption DEF PoolAssumption, Thread, Main
  <2> QED
    BY <1>6, <2>1, WorkerFrame DEF Waking
<1> QED
  BY <1>3, <1>5, <1>6

-----------------------------------------------------------------------------
\* Whoever is about to wake up v still is after a step of a worker, or has
\* opened the latch of v.
LEMMA WakingKept ==
  ASSUME TypeOK, NEW w \in Worker, WorkerStep(w), NEW v \in Worker,
         Waking(v) # {}
  PROVE  ~ should_wait'[v] \/ Waking(v)' # {}
<1>1. PICK th \in Thread :
        pc[th] \in {"push", "wake", "stop_wake"} /\ idx[th] = v
  BY DEF Waking
<1>2. CASE th # w
  BY <1>1, <1>2, WorkerFrame DEF Waking
<1>3. CASE th = w
  <2> USE DEF TypeOK, Goto, queues, local
  <2>1. pc[w] \in {"push", "wake", "stop_wake"} /\ idx[w] = v /\ w \in Thread
    BY <1>1, <1>3
  <2>2. CASE PushReady(w)
    <3>1. pc'[w] = "wake" /\ idx'[w] = v
      BY <2>1, <2>2 DEF PushReady
    <3> QED
      BY <2>1, <3>1 DEF Waking
  <2>3. CASE WakeClaimed(w)
    BY <2>1, <2>3 DEF WakeClaimed, Notify
  <2>4. ~ (CheckStop(w) \/ SetAvailable(w) \/ Wait(w) \/ SetBusy(w) \/ ExecuteTask(w))
    BY <2>1 DEF CheckStop, SetAvailable, Wait, SetBusy, ExecuteTask
  <2>5. ~ (GatherReady(w) \/ GatherNew(w) \/ InitDependencies(w) \/ RequestTasks(w))
    BY <2>1 DEF GatherReady, GatherNew, InitDependencies, RequestTasks
  <2>6. ~ (ProbeNext(w) \/ ProbeEmpty(w) \/ Steal(w))
    BY <2>1 DEF ProbeNext, ProbeEmpty, Steal, StealFrom
  <2>7. ~ (NextFollower(w) \/ ClaimWorker(w) \/ FallbackWorker(w))
    BY <2>1 DEF NextFollower, ClaimWorker, FallbackWorker
  <2> QED
    BY <2>2, <2>3, <2>4, <2>5, <2>6, <2>7 DEF WorkerStep
<1> QED
  BY <1>2, <1>3

\* A worker that goes to sleep is available, and who takes that away from it
\* is going to wake it up.
LEMMA SleeperWorkerStep ==
  ASSUME IInv, NEW w \in Worker, WorkerStep(w)
  PROVE  SleeperAvailable'
<1> SUFFICES ASSUME NEW v \in Worker, pc'[v] = "wait", worker_state'[v] = "BUSY"
             PROVE  ~ should_wait'[v] \/ Waking(v)' # {}
  BY DEF SleeperAvailable
<1> USE DEF IInv
<1>0. w \in Thread /\ v \in Thread
  BY WorkerIds
<1>1. CASE ClaimWorker(w) /\ idx[w] = v /\ worker_state[v] = "AVAILABLE"
  <2>1. pc'[w] = "push" /\ idx'[w] = v
    BY <1>0, <1>1 DEF TypeOK, ClaimWorker, Goto, local
  <2> QED
    BY <1>0, <2>1 DEF Waking
<1>2. CASE ~ (ClaimWorker(w) /\ idx[w] = v /\ worker_state[v] = "AVAILABLE")
  <2>1. pc[v] = "wait"
    <3>1. CASE v # w
      BY <1>0, <3>1, WorkerFrame
    <3>2. CASE v = w
      <4> USE DEF TypeOK, Goto, SetState
      <4>1. ~ SetAvailable(w)
        BY <3>2 DEF SetAvailable
      <4>2. ~ (CheckStop(w) \/ Wait(w) \/ SetBusy(w) \/ ExecuteTask(w))
        BY <1>0, <3>2 DEF CheckStop, Wait, SetBusy, ExecuteTask
      <4>3. ~ (GatherReady(w) \/ GatherNew(w) \/ InitDependencies(w) \/ RequestTasks(w))
        BY <1>0, <3>2 DEF GatherReady, GatherNew, InitDependencies, RequestTasks
      <4>4. ~ (ProbeNext(w) \/ ProbeEmpty(w) \/ Steal(w))
        BY <1>0, <3>2 DEF ProbeNext, ProbeEmpty, Steal, StealFrom
      <4>5. ~ (NextFollower(w) \/ ClaimWorker(w) \/ FallbackWorker(w))
        BY <1>0, <3>2 DEF NextFollower, ClaimWorker, FallbackWorker
      <4>6. ~ (PushReady(w) \/ WakeClaimed(w))
        BY <1>0, <3>2 DEF PushReady, WakeClaimed
      <4> QED
        BY <4>1, <4>2, <4>3, <4>4, <4>5, <4>6 DEF WorkerStep
    <3> QED
      BY <3>1, <3>2
  <2>2. worker_state[v] = "BUSY"
    <3> USE DEF TypeOK, SetState, Goto
    <3>1. CASE ClaimWorker(w)
      BY <1>2, <3>1 DEF ClaimWorker
    <3>2. CASE SetBusy(w)
      BY <1>0, <2>1, <3>2 DEF SetBusy
    <3>3. CASE SetAvailable(w) \/ RequestTasks(w)
      BY <3>3 DEF SetAvailable, RequestTasks
    <3>4. CASE CheckStop(w) \/ Wait(w) \/ ExecuteTask(w)
      BY <3>4 DEF CheckStop, Wait, ExecuteTask
    <3>5. CASE GatherReady(w) \/ GatherNew(w) \/ InitDependencies(w)
      BY <3>5 DEF GatherReady, GatherNew, InitDependencies
    <3>6. CASE ProbeNext(w) \/ ProbeEmpty(w) \/ Steal(w)
      BY <3>6 DEF ProbeNext, ProbeEmpty, Steal
    <3>7. CASE NextFollower(w) \/ FallbackWorker(w) \/ PushReady(w) \/ WakeClaimed(w)
      BY <3>7 DEF NextFollower, FallbackWorker, PushReady, WakeClaimed
    <3> QED
      BY <3>1, <3>2, <3>3, <3>4, <3>5, <3>6, <3>7 DEF WorkerStep
  <2>3. ~ should_wait[v] \/ Waking(v) # {}
    BY <2>1, <2>2 DEF SleeperAvailable
  <2>4. CASE ~ should_wait[v]
    <3>1. ~ (v = w /\ pc'[w] = "ready")
      OBVIOUS
    <3> QED
      BY <2>4, <3>1, WorkerQueues
  <2> QED
    BY <2>3, <2>4, WakingKept
<1> QED
  BY <1>1, <1>2

\* The main thread leaves the bit field alone, and opens the latch when it
\* stops waking.
LEMMA SleeperMainStep ==
  ASSUME IInv, MainStep \/ \E t \in Task : EmplaceTask(t)
  PROVE  SleeperAvailable'
<1> SUFFICES ASSUME NEW v \in Worker, pc'[v] = "wait", worker_state'[v] = "BUSY"
             PROVE  ~ should_wait'[v] \/ Waking(v)' # {}
  BY DEF SleeperAvailable
<1>1. ~ should_wait[v] \/ Waking(v) # {}
  BY MainFrame DEF IInv, SleeperAvailable
<1>2. ~ should_wait[v] => ~ should_wait'[v]
  BY DEF IInv, TypeOK, MainStep, EmplaceTask, WakeForNewTask, EndBarrier,
         StopWorker, WakeForStop, JoinWorker, Notify
<1>3. ASSUME Waking(v) # {} PROVE ~ should_wait'[v] \/ Waking(v)' # {}
  <2>1. PICK th \in Thread :
          pc[th] \in {"push", "wake", "stop_wake"} /\ idx[th] = v
    BY <1>3 DEF Waking
  <2>2. CASE th # Main
    <3>1. th \in Worker
      BY <2>2, PoolAssumption DEF PoolAssumption, Thread, Main, Worker
    <3> QED
      BY <2>1, <3>1, MainFrame DEF IInv, Waking
  <2>3. CASE th = Main
    BY <2>1, <2>3 DEF IInv, TypeOK, MainStep, EmplaceTask, WakeForNewTask,
       EndBarrier, StopWorker, WakeForStop, JoinWorker, Notify, Goto
  <2> QED
    BY <2>2, <2>3
<1> QED
  BY <1>1, <1>2, <1>3

-----------------------------------------------------------------------------
\* The inductive invariant of the pool.
THEOREM Invariance == Spec => []IInv
<1>1. Init => IInv
  BY InitIInv
<1>2. IInv /\ [Next]_vars => IInv'
  <2> SUFFICES ASSUME IInv, [Next]_vars PROVE IInv'
    OBVIOUS
  <2>1. CASE MainStep \/ \E t \in Task : EmplaceTask(t)
    <3>1. TypeOK' /\ StopIndex'
      BY <2>1, MainTypeStep DEF IInv
    <3>2. ProbeMatches' /\ HoldsTask'
      BY <2>1, MainFrame DEF IInv, ProbeMatches, HoldsTask
    <3> QED
      BY <2>1, <3>1, <3>2, NoticedMainStep, SleeperMainStep DEF IInv
  <2>2. ASSUME NEW w \in Worker, WorkerStep(w) PROVE IInv'
    <3>1. TypeOK' /\ ProbeMatches' /\ HoldsTask'
      BY <2>2, WorkerTypeStep, ControlStep DEF IInv
    <3>2. StopIndex'
      <4>1. w # Main /\ Main \in Thread
        BY WorkerIds, PoolAssumption DEF PoolAssumption, Thread, Main
      <4> QED
        BY <2>2, <4>1, WorkerFrame DEF IInv, StopIndex
    <3> QED
      BY <2>2, <3>1, <3>2, NoticedWorkerStep, SleeperWorkerStep DEF IInv
  <2>3. CASE UNCHANGED vars
    BY <2>3 DEF vars, queues, local, IInv, TypeOK, StopIndex, ProbeMatches,
       HoldsTask, NewTaskNoticed, PastOwnQueue, Waking, SleeperAvailable
  <2> QED
    BY <2>1, <2>2, <2>3 DEF Next, Terminated
<1> QED
  BY <1>1, <1>2, PTL DEF Spec

\* The pool's data structures keep their types: the scheduler's counters stay
\* in range and every worker that is dealt with exists.
THEOREM TypeCorrect == Spec => []TypeOK
<1>1. IInv => TypeOK
  BY DEF IInv
<1> QED
  BY <1>1, Invariance, PTL

\* dispatch_task against work_loop: no worker goes to sleep on a new task.
THEOREM NewTaskNoticedCorrect == Spec => []NewTaskNoticed
<1>1. IInv => NewTaskNoticed
  BY DEF IInv
<1> QED
  BY <1>1, Invariance, PTL

\* find_free_worker against work_loop: no worker sleeps while the pool takes
\* it for busy, unless it is about to be woken up.
THEOREM SleeperAvailableCorrect == Spec => []SleeperAvailable
<1>1. IInv => SleeperAvailable
  BY DEF IInv
<1> QED
  BY <1>1, Invariance, PTL

-----------------------------------------------------------------------------
(***************************************************************************)
(* No task is lost or duplicated: the inductive form of OnePlace, without  *)
(* cardinalities.                                                          *)
(***************************************************************************)

\* The worker deals with a task: one that it initialises or executes, or one
\* that it hands over to another worker.
TaskInHand(w) ==
  \/ pc[w] \in {"init", "busy", "body", "claim", "fallback", "push", "push_silent"}
  \/ pc[w] = "probe" /\ probe[w] = "free"

\* A worker holds a task exactly where it deals with one, and has tasks to
\* activate only between the end of a body and the search for the next one.
HandsMatch ==
  \A w \in Worker :
    /\ IF TaskInHand(w) THEN held[w] \in Task ELSE held[w] = None
    /\ todo[w] # {} =>
         \/ TaskInHand(w) /\ pc[w] \notin {"init", "busy", "body"}
         \/ pc[w] \in {"wake", "activate"}

\* A task that is somewhere is in no other place, and its place says what has
\* been done with it.
OnlyAt(t, v, w) ==
  /\ t \in emplacement_queue[v] =>
       /\ task[t] = "emplaced" /\ t # held[w]
       /\ t \in emplacement_queue[w] => v = w
  /\ t \in ready_queue[v] =>
       /\ task[t] = "ready" /\ t # held[w] /\ t \notin todo[w]
       /\ t \in ready_queue[w] => v = w
  /\ t = held[v] =>
       /\ task[t] = IF pc[v] = "init" THEN "emplaced" ELSE "ready"
       /\ t = held[w] => v = w
  /\ t \in todo[v] =>
       /\ task[t] = "ready" /\ t # held[w]
       /\ t \in todo[w] => v = w

OnlyPlace == \A t \in Task : \A v, w \in Worker : OnlyAt(t, v, w)

\* A task that waits to be initialised or executed is somewhere.
SomePlace ==
  \A t \in Task : task[t] \in {"emplaced", "ready"} =>
    \E w \in Worker : \/ t \in emplacement_queue[w] \/ t \in ready_queue[w]
                      \/ t = held[w] \/ t \in todo[w]

PlaceInv == HandsMatch /\ OnlyPlace /\ SomePlace

\* No task exists at the start.
LEMMA InitPlaces == Init => PlaceInv
<1> SUFFICES ASSUME Init PROVE PlaceInv
  OBVIOUS
<1>1. \A w \in Worker : w \in Thread /\ w # Main
  BY WorkerIds
<1>2. None \notin Task
  BY DEF None, Task
<1> QED
  BY <1>1, <1>2 DEF Init, PlaceInv, HandsMatch, TaskInHand, OnlyPlace, OnlyAt,
                      SomePlace

\* Steps that leave the tasks, the queues and the hands of the workers alone
\* keep every task in its place.
LEMMA PlacesKept ==
  ASSUME OnlyPlace, SomePlace, task' = task, emplacement_queue' = emplacement_queue,
         ready_queue' = ready_queue, held' = held, todo' = todo,
         \A w \in Worker : pc'[w] = "init" <=> pc[w] = "init"
  PROVE  OnlyPlace' /\ SomePlace'
  BY DEF OnlyPlace, OnlyAt, SomePlace

\* The main thread puts a task that did not exist before into one queue.
LEMMA PlaceMainStep ==
  ASSUME IInv, PlaceInv, MainStep \/ \E t \in Task : EmplaceTask(t)
  PROVE  PlaceInv'
<1>1. TypeOK
  BY DEF IInv
<1>2. \A w \in Worker : pc'[w] = pc[w] /\ probe'[w] = probe[w] /\ held'[w] = held[w]
  BY <1>1, MainFrame
<1>3. UNCHANGED todo
  BY DEF MainStep, EmplaceTask, WakeForNewTask, EndBarrier, StopWorker,
         WakeForStop, JoinWorker, local
<1>4. HandsMatch'
  BY <1>2, <1>3 DEF PlaceInv, HandsMatch, TaskInHand
<1>5. ASSUME NEW t \in Task, EmplaceTask(t) PROVE OnlyPlace' /\ SomePlace'
  <2>1. PICK v \in Worker :
          emplacement_queue' = [emplacement_queue EXCEPT ![v] = @ \union {t}]
    <3>1. next_counter \in 0..(IdRange - 1)
      BY <1>1 DEF TypeOK
    <3> QED
      BY <1>5, <3>1, NextId DEF EmplaceTask
  <2>2. /\ task[t] = "unborn"
        /\ task' = [task EXCEPT ![t] = "emplaced"]
        /\ UNCHANGED <<ready_queue, held>>
    <3>1. t >= t
      BY DEF Task
    <3> QED
      BY <1>5, <3>1 DEF EmplaceTask
  <2>3. OnlyPlace'
    <3>1. \A u \in Worker : /\ t \notin emplacement_queue[u] /\ t \notin ready_queue[u]
                            /\ t # held[u] /\ t \notin todo[u]
      BY <2>2 DEF PlaceInv, OnlyPlace, OnlyAt
    <3>2. /\ task'[t] = "emplaced" /\ \A u \in Task : u # t => task'[u] = task[u]
          /\ \A u \in Worker : emplacement_queue'[u] = IF u = v THEN emplacement_queue[u] \union {t}
                                                      ELSE emplacement_queue[u]
      BY <1>1, <2>1, <2>2 DEF TypeOK
    <3> QED
      <4> SUFFICES ASSUME NEW u \in Task, NEW x \in Worker, NEW y \in Worker
                   PROVE  OnlyAt(u, x, y)'
        BY DEF OnlyPlace
      <4>1. OnlyAt(u, x, y)
        BY DEF PlaceInv, OnlyPlace
      <4>2. CASE u = t
        BY ZenonT(60), <1>2, <1>3, <2>2, <3>1, <3>2, <4>2 DEF OnlyAt
      <4>3. CASE u # t
        <5>1. \A z \in Worker : /\ u \in emplacement_queue'[z] <=> u \in emplacement_queue[z]
                                /\ held'[z] = held[z] /\ pc'[z] = pc[z]
          BY ZenonT(60), <1>2, <3>2, <4>3
        <5>2. task'[u] = task[u] /\ ready_queue' = ready_queue /\ todo' = todo
          BY <1>3, <2>2, <3>2, <4>3
        <5> QED
          BY <4>1, <5>1, <5>2 DEF OnlyAt
      <4> QED
        BY <4>2, <4>3
  <2>4. SomePlace'
    BY <1>1, <1>3, <2>1, <2>2 DEF TypeOK, PlaceInv, SomePlace
  <2> QED
    BY <2>3, <2>4
<1>6. CASE MainStep
  <2>1. /\ task' = task /\ emplacement_queue' = emplacement_queue
        /\ ready_queue' = ready_queue /\ held' = held /\ todo' = todo
    BY <1>6 DEF MainStep, WakeForNewTask, EndBarrier, StopWorker, WakeForStop,
                JoinWorker, queues, local
  <2>2. \A w \in Worker : pc'[w] = "init" <=> pc[w] = "init"
    BY <1>2
  <2> QED
    BY <1>4, <2>1, <2>2, PlacesKept DEF PlaceInv
<1> QED
  BY <1>4, <1>5, <1>6 DEF PlaceInv

-----------------------------------------------------------------------------
\* A worker takes a task out of a queue only with empty hands, and lets go of
\* one only where it puts it into a queue.
LEMMA HandsStep ==
  ASSUME TypeOK, ProbeMatches, HandsMatch, NEW w \in Worker, WorkerStep(w)
  PROVE  HandsMatch'
<1>1. /\ IF TaskInHand(w)' THEN held'[w] \in Task ELSE held'[w] = None
      /\ todo'[w] # {} =>
           \/ TaskInHand(w)' /\ pc'[w] \notin {"init", "busy", "body"}
           \/ pc'[w] \in {"wake", "activate"}
  <2> USE DEF TypeOK, ProbeMatches, HandsMatch, TaskInHand, Goto, queues, local
  <2>0. w \in Thread /\ idx[w] \in Worker
    BY WorkerIds
  <2>1. CASE CheckStop(w) \/ SetAvailable(w) \/ Wait(w) \/ SetBusy(w)
    BY <2>0, <2>1 DEF CheckStop, SetAvailable, Wait, SetBusy
  <2>2. CASE ExecuteTask(w)
    BY <2>0, <2>2 DEF ExecuteTask
  <2>3. CASE GatherReady(w)
    BY <2>0, <2>3 DEF GatherReady, PopReady
  <2>4. CASE GatherNew(w)
    BY SMTT(60), <2>0, <2>4 DEF GatherNew, PopNew
  <2>5. CASE InitDependencies(w)
    BY <2>0, <2>5 DEF InitDependencies
  <2>6. CASE RequestTasks(w)
    BY <2>0, <2>6 DEF RequestTasks
  <2>7. CASE ProbeNext(w)
    BY SMTT(60), <2>0, <2>7 DEF ProbeNext
  <2>8. CASE ProbeEmpty(w)
    BY <2>0, <2>8 DEF ProbeEmpty
  <2>9. CASE Steal(w)
    BY <2>0, <2>9 DEF Steal, StealFrom, PopReady, PopNew
  <2>10. CASE NextFollower(w)
    BY <2>0, <2>10 DEF NextFollower
  <2>11. CASE ClaimWorker(w) \/ FallbackWorker(w)
    BY <2>0, <2>11 DEF ClaimWorker, FallbackWorker
  <2>12. CASE PushReady(w) \/ WakeClaimed(w)
    BY <2>0, <2>12 DEF PushReady, WakeClaimed
  <2> QED
    BY <2>1, <2>2, <2>3, <2>4, <2>5, <2>6, <2>7, <2>8, <2>9, <2>10, <2>11, <2>12
       DEF WorkerStep
<1>2. \A u \in Worker : u # w =>
        /\ pc'[u] = pc[u] /\ probe'[u] = probe[u] /\ held'[u] = held[u]
        /\ todo'[u] = todo[u]
  <2>1. \A u \in Worker : u # w => todo'[u] = todo[u]
    BY DEF TypeOK, WorkerStep, CheckStop, SetAvailable, Wait, SetBusy, ExecuteTask,
           GatherReady, GatherNew, InitDependencies, RequestTasks, ProbeNext,
           ProbeEmpty, Steal, NextFollower, ClaimWorker, FallbackWorker, PushReady,
           WakeClaimed, local
  <2> QED
    BY <2>1, WorkerFrame, WorkerIds
<1> QED
  BY <1>1, <1>2 DEF HandsMatch, TaskInHand

\* popping a ready queue: the task goes from the queue into the hands of w.
LEMMA PopReadyPlace ==
  ASSUME TypeOK, PlaceInv, NEW w \in Worker, NEW v \in Worker, PopReady(w, v),
         held[w] = None, pc' = [pc EXCEPT ![w] = "busy"], task' = task, todo' = todo
  PROVE  OnlyPlace' /\ SomePlace'
<1>1. PICK t \in ready_queue[v] :
        /\ ready_queue' = [ready_queue EXCEPT ![v] = @ \ {t}]
        /\ held' = [held EXCEPT ![w] = t]
        /\ emplacement_queue' = emplacement_queue
  BY DEF PopReady
<1>2. /\ t \in Task /\ w \in Thread
      /\ \A z \in Worker : /\ held'[z] = IF z = w THEN t ELSE held[z]
                           /\ pc'[z] = IF z = w THEN "busy" ELSE pc[z]
                           /\ ready_queue'[z] = IF z = v THEN ready_queue[z] \ {t} ELSE ready_queue[z]
  BY <1>1, WorkerIds DEF TypeOK
<1>3. \A u \in Task : \A x, y \in Worker : OnlyAt(u, x, y)
  BY DEF PlaceInv, OnlyPlace
<1>4. \A x \in Worker : /\ t \notin emplacement_queue[x] /\ t # held[x] /\ t \notin todo[x]
                        /\ t \in ready_queue[x] => x = v
  BY <1>1, <1>2, <1>3 DEF OnlyAt
<1>5. task[t] = "ready"
  BY <1>1, <1>2, <1>3 DEF OnlyAt
<1>6. OnlyPlace'
  <2> SUFFICES ASSUME NEW u \in Task, NEW x \in Worker, NEW y \in Worker
               PROVE  OnlyAt(u, x, y)'
    BY DEF OnlyPlace
  <2>1. CASE u = t
    <3>1. \A z \in Worker : t \notin ready_queue'[z]
      BY <1>2, <1>4
    <3>2. \A z \in Worker : t = held'[z] <=> z = w
      BY <1>2, <1>4
    <3>3. pc'[w] # "init"
      BY <1>2 DEF TypeOK
    <3> QED
      BY <1>1, <1>4, <1>5, <2>1, <3>1, <3>2, <3>3 DEF OnlyAt
  <2>2. CASE u # t
    <3>1. \A z \in Worker : /\ u \in ready_queue'[z] <=> u \in ready_queue[z]
                            /\ u = held'[z] => u = held[z] /\ z # w
      BY <1>2, <2>2
    <3>2. OnlyAt(u, x, y)
      BY <1>3
    <3> QED
      BY <1>1, <1>2, <3>1, <3>2 DEF OnlyAt
  <2> QED
    BY <2>1, <2>2
<1>7. SomePlace'
  <2> SUFFICES ASSUME NEW u \in Task, task[u] \in {"emplaced", "ready"}
               PROVE  \E z \in Worker : \/ u \in emplacement_queue[z] \/ u \in ready_queue'[z]
                                        \/ u = held'[z] \/ u \in todo[z]
    BY <1>1 DEF SomePlace
  <2>1. PICK z \in Worker : \/ u \in emplacement_queue[z] \/ u \in ready_queue[z]
                            \/ u = held[z] \/ u \in todo[z]
    BY DEF PlaceInv, SomePlace
  <2>2. held[w] # u
    BY DEF None, Task
  <2> QED
    BY <1>2, <2>1, <2>2
<1> QED
  BY <1>6, <1>7

\* Popping an emplacement queue: the same with a task to initialise.
LEMMA PopNewPlace ==
  ASSUME TypeOK, PlaceInv, NEW w \in Worker, NEW v \in Worker, PopNew(w, v),
         held[w] = None, pc' = [pc EXCEPT ![w] = "init"], task' = task, todo' = todo
  PROVE  OnlyPlace' /\ SomePlace'
<1>1. PICK t \in emplacement_queue[v] :
        /\ emplacement_queue' = [emplacement_queue EXCEPT ![v] = @ \ {t}]
        /\ held' = [held EXCEPT ![w] = t]
        /\ ready_queue' = ready_queue
  BY DEF PopNew
<1>2. /\ t \in Task /\ w \in Thread
      /\ \A z \in Worker : /\ held'[z] = IF z = w THEN t ELSE held[z]
                           /\ pc'[z] = IF z = w THEN "init" ELSE pc[z]
                           /\ emplacement_queue'[z] = IF z = v THEN emplacement_queue[z] \ {t}
                                                      ELSE emplacement_queue[z]
  BY <1>1, WorkerIds DEF TypeOK
<1>3. \A u \in Task : \A x, y \in Worker : OnlyAt(u, x, y)
  BY DEF PlaceInv, OnlyPlace
<1>4. /\ task[t] = "emplaced"
      /\ \A x \in Worker : /\ t \notin ready_queue[x] /\ t # held[x] /\ t \notin todo[x]
                           /\ t \in emplacement_queue[x] => x = v
  BY <1>1, <1>2, <1>3 DEF OnlyAt
<1>6. OnlyPlace'
  <2> SUFFICES ASSUME NEW u \in Task, NEW x \in Worker, NEW y \in Worker
               PROVE  OnlyAt(u, x, y)'
    BY DEF OnlyPlace
  <2>1. CASE u = t
    <3>1. \A z \in Worker : t \notin emplacement_queue'[z] /\ (t = held'[z] <=> z = w)
      BY <1>2, <1>4
    <3>2. pc'[w] = "init"
      BY <1>2
    <3> QED
      BY <1>1, <1>4, <2>1, <3>1, <3>2 DEF OnlyAt
  <2>2. CASE u # t
    <3>1. \A z \in Worker : /\ u \in emplacement_queue'[z] <=> u \in emplacement_queue[z]
                            /\ u = held'[z] => u = held[z] /\ z # w
      BY <1>2, <2>2
    <3>2. OnlyAt(u, x, y)
      BY <1>3
    <3> QED
      BY <1>1, <1>2, <3>1, <3>2 DEF OnlyAt
  <2> QED
    BY <2>1, <2>2
<1>7. SomePlace'
  <2> SUFFICES ASSUME NEW u \in Task, task[u] \in {"emplaced", "ready"}
               PROVE  \E z \in Worker : \/ u \in emplacement_queue'[z] \/ u \in ready_queue[z]
                                        \/ u = held'[z] \/ u \in todo[z]
    BY <1>1 DEF SomePlace
  <2>1. PICK z \in Worker : \/ u \in emplacement_queue[z] \/ u \in ready_queue[z]
                            \/ u = held[z] \/ u \in todo[z]
    BY DEF PlaceInv, SomePlace
  <2>2. held[w] # u
    BY DEF None, Task
  <2> QED
    BY <1>2, <2>1, <2>2
<1> QED
  BY <1>6, <1>7

\* The end of a body: the task is done and in no place any more, the followers
\* that it releases were blocked and are in one place now.
LEMMA ExecutePlace ==
  ASSUME TypeOK, PlaceInv, NEW w \in Worker, ExecuteTask(w)
  PROVE  OnlyPlace' /\ SomePlace'
<1> DEFINE t == held[w]
           A == Activated(t)
<1>1. w \in Thread /\ None \notin Task
  BY WorkerIds DEF None, Task
<1>2. /\ pc[w] = "body" /\ t \in Task /\ todo[w] = {}
      /\ emplacement_queue' = emplacement_queue /\ ready_queue' = ready_queue
  BY DEF ExecuteTask, Goto, PlaceInv, HandsMatch, TaskInHand, queues
<1>3. /\ \A z \in Worker : /\ held'[z] = IF z = w THEN None ELSE held[z]
                           /\ pc'[z] = IF z = w THEN "activate" ELSE pc[z]
                           /\ todo'[z] = IF z = w THEN A ELSE todo[z]
      /\ \A u \in Task : task'[u] = IF u = t THEN "done"
                                    ELSE IF u \in A THEN "ready" ELSE task[u]
  BY <1>1 DEF ExecuteTask, Goto, TypeOK
<1>4. \A u \in Task : u \in A => task[u] = "blocked"
  BY DEF Activated
<1>5. \A u \in Task : \A x, y \in Worker : OnlyAt(u, x, y)
  BY DEF PlaceInv, OnlyPlace
<1>6. /\ task[t] = "ready"
      /\ \A x \in Worker : /\ t \notin emplacement_queue[x] /\ t \notin ready_queue[x]
                           /\ t \notin todo[x] /\ (t = held[x] => x = w)
  BY <1>2, <1>5 DEF OnlyAt
<1>7. OnlyPlace'
  <2> SUFFICES ASSUME NEW u \in Task, NEW x \in Worker, NEW y \in Worker
               PROVE  OnlyAt(u, x, y)'
    BY DEF OnlyPlace
  <2>1. CASE u = t
    <3>1. \A z \in Worker : t # held'[z] /\ t \notin todo'[z]
      BY <1>1, <1>2, <1>3, <1>4, <1>6
    <3> QED
      BY <1>2, <1>6, <2>1, <3>1 DEF OnlyAt
  <2>2. CASE u # t /\ u \in A
    <3>1. \A z \in Worker : /\ u \notin emplacement_queue[z] /\ u \notin ready_queue[z]
                            /\ u # held[z] /\ u \notin todo[z]
      BY <1>4, <1>5, <2>2 DEF OnlyAt
    <3>2. \A z \in Worker : u # held'[z] /\ (u \in todo'[z] => z = w)
      BY <1>1, <1>3, <3>1
    <3>3. task'[u] = "ready"
      BY <1>3, <2>2
    <3> QED
      BY <1>2, <3>1, <3>2, <3>3 DEF OnlyAt
  <2>3. CASE u # t /\ u \notin A
    <3>1. \A z \in Worker : /\ u \in todo'[z] => u \in todo[z]
                            /\ u = held'[z] => u = held[z] /\ pc'[z] = pc[z]
      BY <1>1, <1>3, <2>3
    <3>2. OnlyAt(u, x, y) /\ task'[u] = task[u]
      BY <1>3, <1>5, <2>3
    <3> QED
      BY <1>2, <3>1, <3>2 DEF OnlyAt
  <2> QED
    BY <2>1, <2>2, <2>3
<1>8. SomePlace'
  <2> SUFFICES ASSUME NEW u \in Task, task'[u] \in {"emplaced", "ready"}
               PROVE  \E z \in Worker : \/ u \in emplacement_queue[z] \/ u \in ready_queue[z]
                                        \/ u = held'[z] \/ u \in todo'[z]
    BY <1>2 DEF SomePlace
  <2>1. CASE u \in A
    BY <1>3, <2>1
  <2>2. CASE u \notin A
    <3>1. u # t /\ task[u] \in {"emplaced", "ready"}
      BY <1>3, <2>2
    <3>2. PICK z \in Worker : \/ u \in emplacement_queue[z] \/ u \in ready_queue[z]
                              \/ u = held[z] \/ u \in todo[z]
      BY <3>1 DEF PlaceInv, SomePlace
    <3> QED
      BY <1>2, <1>3, <3>1, <3>2
  <2> QED
    BY <2>1, <2>2
<1> QED
  BY <1>7, <1>8

\* init_dependencies: the task stays in the hands of w, or is blocked.
LEMMA InitPlace ==
  ASSUME TypeOK, PlaceInv, NEW w \in Worker, InitDependencies(w)
  PROVE  OnlyPlace' /\ SomePlace'
<1> DEFINE t == held[w]
           isReady == \A p \in Preds[t] : task[p] = "done"
<1>1. w \in Thread /\ None \notin Task
  BY WorkerIds DEF None, Task
<1>2. /\ pc[w] = "init" /\ t \in Task
      /\ emplacement_queue' = emplacement_queue /\ ready_queue' = ready_queue
      /\ todo' = todo
  BY DEF InitDependencies, Goto, PlaceInv, HandsMatch, TaskInHand, queues
<1>3. /\ \A z \in Worker : /\ z # w => held'[z] = held[z] /\ pc'[z] = pc[z]
                           /\ held'[w] = IF isReady THEN t ELSE None
                           /\ pc'[w] # "init"
      /\ \A u \in Task : u # t => task'[u] = task[u]
      /\ task'[t] = IF isReady THEN "ready" ELSE "blocked"
  BY <1>1, <1>2 DEF InitDependencies, Goto, TypeOK
<1>4. \A u \in Task : \A x, y \in Worker : OnlyAt(u, x, y)
  BY DEF PlaceInv, OnlyPlace
<1>5. \A x \in Worker : /\ t \notin emplacement_queue[x] /\ t \notin ready_queue[x]
                        /\ t \notin todo[x] /\ (t = held[x] => x = w)
  BY <1>2, <1>4 DEF OnlyAt
<1>6. OnlyPlace'
  <2> SUFFICES ASSUME NEW u \in Task, NEW x \in Worker, NEW y \in Worker
               PROVE  OnlyAt(u, x, y)'
    BY DEF OnlyPlace
  <2>1. CASE u = t
    <3>1. \A z \in Worker : t = held'[z] => z = w /\ isReady
      BY <1>1, <1>2, <1>3, <1>5
    <3>2. t = held'[x] => task'[t] = "ready" /\ pc'[x] # "init"
      BY <1>3, <3>1
    <3> QED
      BY <1>2, <1>5, <2>1, <3>1, <3>2 DEF OnlyAt
  <2>2. CASE u # t
    <3>1. \A z \in Worker : u = held'[z] => u = held[z] /\ pc'[z] = pc[z]
      BY <1>1, <1>3, <2>2
    <3>2. OnlyAt(u, x, y) /\ task'[u] = task[u]
      BY <1>3, <1>4, <2>2
    <3> QED
      BY <1>2, <3>1, <3>2 DEF OnlyAt
  <2> QED
    BY <2>1, <2>2
<1>7. SomePlace'
  <2> SUFFICES ASSUME NEW u \in Task, task'[u] \in {"emplaced", "ready"}
               PROVE  \E z \in Worker : \/ u \in emplacement_queue[z] \/ u \in ready_queue[z]
                                        \/ u = held'[z] \/ u \in todo[z]
    BY <1>2 DEF SomePlace
  <2>1. CASE u = t
    BY <1>3, <2>1
  <2>2. CASE u # t
    <3>1. PICK z \in Worker : \/ u \in emplacement_queue[z] \/ u \in ready_queue[z]
                              \/ u = held[z] \/ u \in todo[z]
      BY <1>3, <2>2 DEF PlaceInv, SomePlace
    <3> QED
      BY <1>3, <2>2, <3>1
  <2> QED
    BY <2>1, <2>2
<1> QED
  BY <1>6, <1>7

\* The next follower goes from the list into the hands of w.
LEMMA FollowerPlace ==
  ASSUME TypeOK, PlaceInv, NEW w \in Worker, NextFollower(w)
  PROVE  OnlyPlace' /\ SomePlace'
<1>1. /\ w \in Thread /\ None \notin Task
      /\ pc[w] = "activate" /\ held[w] = None
      /\ task' = task /\ emplacement_queue' = emplacement_queue /\ ready_queue' = ready_queue
  BY WorkerIds DEF NextFollower, Goto, PlaceInv, HandsMatch, TaskInHand, queues, None, Task
<1>2. \A z \in Worker : pc'[z] = "init" <=> pc[z] = "init"
  <2>1. pc' = [pc EXCEPT ![w] = "probe"] \/ pc' = [pc EXCEPT ![w] = "ready"]
    BY DEF NextFollower, Goto
  <2>2. \A z \in Worker : z \in Thread
    BY WorkerIds
  <2>3. pc'[w] # "init" /\ \A z \in Worker : z # w => pc'[z] = pc[z]
    BY <1>1, <2>1, <2>2 DEF TypeOK
  <2> QED
    BY <1>1, <2>3
<1>3. CASE todo[w] = {}
  <2>1. held' = held /\ todo' = todo
    BY <1>3 DEF NextFollower
  <2> QED
    BY <1>1, <1>2, <2>1, PlacesKept DEF PlaceInv
<1>4. CASE todo[w] # {}
  <2>1. PICK t \in todo[w] : /\ held' = [held EXCEPT ![w] = t]
                             /\ todo' = [todo EXCEPT ![w] = @ \ {t}]
    BY <1>4 DEF NextFollower
  <2>2. /\ t \in Task
        /\ \A z \in Worker : /\ held'[z] = IF z = w THEN t ELSE held[z]
                             /\ todo'[z] = IF z = w THEN todo[z] \ {t} ELSE todo[z]
    BY <2>1 DEF TypeOK
  <2>3. \A u \in Task : \A x, y \in Worker : OnlyAt(u, x, y)
    BY DEF PlaceInv, OnlyPlace
  <2>4. /\ task[t] = "ready"
        /\ \A x \in Worker : /\ t \notin emplacement_queue[x] /\ t \notin ready_queue[x]
                             /\ t # held[x] /\ (t \in todo[x] => x = w)
    BY <2>1, <2>2, <2>3 DEF OnlyAt
  <2>5. OnlyPlace'
    <3> SUFFICES ASSUME NEW u \in Task, NEW x \in Worker, NEW y \in Worker
                 PROVE  OnlyAt(u, x, y)'
      BY DEF OnlyPlace
    <3>1. CASE u = t
      <4>1. \A z \in Worker : t \notin todo'[z]
        BY <2>2, <2>4
      <4>2. \A z \in Worker : t = held'[z] => z = w
        BY <2>2, <2>4
      <4>3. pc'[w] # "init"
        BY <1>1, <1>2
      <4> QED
        BY <1>1, <2>4, <3>1, <4>1, <4>2, <4>3 DEF OnlyAt
    <3>2. CASE u # t
      <4>1. \A z \in Worker : /\ u \in todo'[z] <=> u \in todo[z]
                              /\ u = held'[z] => u = held[z]
        BY <2>2, <3>2
      <4>2. OnlyAt(u, x, y)
        BY <2>3
      <4> QED
        BY <1>1, <1>2, <4>1, <4>2 DEF OnlyAt
    <3> QED
      BY <3>1, <3>2
  <2>6. SomePlace'
    <3> SUFFICES ASSUME NEW u \in Task, task[u] \in {"emplaced", "ready"}
                 PROVE  \E z \in Worker : \/ u \in emplacement_queue[z] \/ u \in ready_queue[z]
                                          \/ u = held'[z] \/ u \in todo'[z]
      BY <1>1 DEF SomePlace
    <3>1. PICK z \in Worker : \/ u \in emplacement_queue[z] \/ u \in ready_queue[z]
                              \/ u = held[z] \/ u \in todo[z]
      BY DEF PlaceInv, SomePlace
    <3> QED
      BY <1>1, <2>2, <3>1
  <2> QED
    BY <2>5, <2>6
<1> QED
  BY <1>3, <1>4

\* The task that w hands over goes into one ready queue.
LEMMA PushPlace ==
  ASSUME TypeOK, PlaceInv, NEW w \in Worker, PushReady(w)
  PROVE  OnlyPlace' /\ SomePlace'
<1> DEFINE t == held[w]
           v == idx[w]
<1>1. /\ w \in Thread /\ v \in Worker /\ None \notin Task
      /\ pc[w] \in {"push", "push_silent"} /\ t \in Task
      /\ task' = task /\ emplacement_queue' = emplacement_queue /\ todo' = todo
  BY WorkerIds DEF PushReady, Goto, TypeOK, PlaceInv, HandsMatch, TaskInHand, None, Task
<1>2. \A z \in Worker : pc'[z] = "init" <=> pc[z] = "init"
  <2>1. pc' = [pc EXCEPT ![w] = "wake"] \/ pc' = [pc EXCEPT ![w] = "activate"]
    BY DEF PushReady, Goto
  <2>2. \A z \in Worker : z \in Thread
    BY WorkerIds
  <2>3. pc'[w] # "init" /\ \A z \in Worker : z # w => pc'[z] = pc[z]
    BY <1>1, <2>1, <2>2 DEF TypeOK
  <2> QED
    BY <1>1, <2>3
<1>3. \A z \in Worker : /\ held'[z] = IF z = w THEN None ELSE held[z]
                        /\ ready_queue'[z] = IF z = v THEN ready_queue[z] \union {t}
                                             ELSE ready_queue[z]
  BY <1>1 DEF PushReady, TypeOK
<1>4. \A u \in Task : \A x, y \in Worker : OnlyAt(u, x, y)
  BY DEF PlaceInv, OnlyPlace
<1>5. /\ task[t] = "ready"
      /\ \A x \in Worker : /\ t \notin emplacement_queue[x] /\ t \notin ready_queue[x]
                           /\ t \notin todo[x] /\ (t = held[x] => x = w)
  BY <1>1, <1>4 DEF OnlyAt
<1>6. OnlyPlace'
  <2> SUFFICES ASSUME NEW u \in Task, NEW x \in Worker, NEW y \in Worker
               PROVE  OnlyAt(u, x, y)'
    BY DEF OnlyPlace
  <2>1. CASE u = t
    <3>1. \A z \in Worker : t # held'[z]
      BY ZenonT(60), <1>1, <1>3, <1>5
    <3>2. \A z \in Worker : t \in ready_queue'[z] => z = v
      BY <1>3, <1>5
    <3> QED
      BY <1>1, <1>5, <2>1, <3>1, <3>2 DEF OnlyAt
  <2>2. CASE u # t
    <3>1. \A z \in Worker : /\ u \in ready_queue'[z] <=> u \in ready_queue[z]
                            /\ u = held'[z] => u = held[z]
      BY ZenonT(60), <1>1, <1>3, <2>2
    <3>2. OnlyAt(u, x, y)
      BY <1>4
    <3> QED
      BY <1>1, <1>2, <3>1, <3>2 DEF OnlyAt
  <2> QED
    BY <2>1, <2>2
<1>7. SomePlace'
  <2> SUFFICES ASSUME NEW u \in Task, task[u] \in {"emplaced", "ready"}
               PROVE  \E z \in Worker : \/ u \in emplacement_queue[z] \/ u \in ready_queue'[z]
                                        \/ u = held'[z] \/ u \in todo[z]
    BY <1>1 DEF SomePlace
  <2>1. PICK z \in Worker : \/ u \in emplacement_queue[z] \/ u \in ready_queue[z]
                            \/ u = held[z] \/ u \in todo[z]
    BY DEF PlaceInv, SomePlace
  <2>2. CASE u = t
    BY <1>1, <1>3, <2>2
  <2>3. CASE u # t
    BY <1>3, <2>1, <2>3
  <2> QED
    BY <2>2, <2>3
<1> QED
  BY <1>6, <1>7

\* Every step of a worker keeps every task in one place.
LEMMA PlaceWorkerStep ==
  ASSUME IInv, PlaceInv, NEW w \in Worker, WorkerStep(w)
  PROVE  PlaceInv'
<1>1. TypeOK /\ ProbeMatches /\ w \in Thread
  BY WorkerIds DEF IInv
<1>2. HandsMatch'
  BY <1>1, HandsStep DEF PlaceInv
<1> SUFFICES OnlyPlace' /\ SomePlace'
  BY <1>2 DEF PlaceInv
<1>3. ASSUME task' = task, emplacement_queue' = emplacement_queue,
             ready_queue' = ready_queue, held' = held, todo' = todo,
             pc[w] # "init", pc'[w] # "init"
      PROVE  OnlyPlace' /\ SomePlace'
  <2>1. \A z \in Worker : pc'[z] = "init" <=> pc[z] = "init"
    <3>1. \A z \in Worker : z # w => pc'[z] = pc[z]
      BY <1>1, WorkerFrame, WorkerIds
    <3> QED
      BY <1>3, <3>1
  <2> QED
    BY <1>3, <2>1, PlacesKept DEF PlaceInv
<1>4. CASE CheckStop(w) \/ SetAvailable(w) \/ Wait(w) \/ SetBusy(w) \/ RequestTasks(w)
  BY <1>1, <1>3, <1>4 DEF CheckStop, SetAvailable, Wait, SetBusy, RequestTasks, Goto,
     TypeOK, queues, local
<1>5. CASE ProbeNext(w) \/ ProbeEmpty(w)
  BY <1>1, <1>3, <1>5 DEF ProbeNext, ProbeEmpty, Goto, TypeOK, queues
<1>6. CASE ClaimWorker(w) \/ FallbackWorker(w) \/ WakeClaimed(w)
  BY <1>1, <1>3, <1>6 DEF ClaimWorker, FallbackWorker, WakeClaimed, Goto, TypeOK,
     queues, local
<1>7. CASE ExecuteTask(w)
  BY <1>1, <1>7, ExecutePlace
<1>8. CASE InitDependencies(w)
  BY <1>1, <1>8, InitPlace
<1>9. CASE NextFollower(w)
  BY <1>1, <1>9, FollowerPlace
<1>10. CASE PushReady(w)
  BY <1>1, <1>10, PushPlace
<1>11. pc[w] \in {"ready", "new", "victim", "own"} => held[w] = None
  BY DEF PlaceInv, HandsMatch, TaskInHand
<1>12. CASE GatherReady(w)
  <2>1. task' = task /\ todo' = todo /\ pc[w] = "ready"
    BY <1>12 DEF GatherReady, Goto
  <2>2. CASE Goto(w, "ready", "busy") /\ PopReady(w, w)
    BY <1>1, <1>11, <2>1, <2>2, PopReadyPlace DEF Goto
  <2>3. CASE Goto(w, "ready", "new") /\ UNCHANGED <<queues, held>>
    BY <1>1, <1>3, <2>1, <2>3 DEF Goto, queues, TypeOK
  <2> QED
    BY <1>12, <2>2, <2>3 DEF GatherReady
<1>13. CASE GatherNew(w)
  <2>1. task' = task /\ todo' = todo /\ pc[w] = "new"
    BY <1>13 DEF GatherNew, Goto
  <2>2. CASE Goto(w, "new", "init") /\ PopNew(w, w)
    BY <1>1, <1>11, <2>1, <2>2, PopNewPlace DEF Goto
  <2>3. CASE Goto(w, "new", "idle") /\ UNCHANGED <<queues, held>>
    BY <1>1, <1>3, <2>1, <2>3 DEF Goto, queues, TypeOK
  <2> QED
    BY <1>13, <2>2, <2>3 DEF GatherNew
<1>14. CASE Steal(w)
  <2>1. PICK v \in Worker, at \in {"victim", "own"}, otherwise \in {"own", "probe"} :
          StealFrom(w, v, at, otherwise)
    BY <1>1, <1>14 DEF Steal, TypeOK
  <2>2. task' = task /\ todo' = todo
    BY <1>14 DEF Steal
  <2>3. CASE Goto(w, at, "busy") /\ PopReady(w, v)
    BY <1>1, <1>11, <2>2, <2>3, PopReadyPlace DEF Goto
  <2>4. CASE Goto(w, at, "init") /\ PopNew(w, v)
    BY <1>1, <1>11, <2>2, <2>4, PopNewPlace DEF Goto
  <2>5. CASE Goto(w, at, otherwise) /\ UNCHANGED <<queues, held>>
    BY <1>1, <1>3, <2>2, <2>5 DEF Goto, queues, TypeOK
  <2> QED
    BY <2>1, <2>3, <2>4, <2>5 DEF StealFrom
<1> QED
  BY <1>4, <1>5, <1>6, <1>7, <1>8, <1>9, <1>10, <1>12, <1>13, <1>14 DEF WorkerStep

\* A finite set of workers that has at most one element.
LEMMA AtMostOne ==
  ASSUME NEW S \in SUBSET Worker, \A v, w \in S : v = w
  PROVE  Cardinality(S) = IF S = {} THEN 0 ELSE 1
<1>1. CASE S = {}
  BY <1>1, FS_EmptySet
<1>2. CASE S # {}
  <2>1. PICK w \in S : S = {w}
    BY <1>2
  <2> QED
    BY <1>2, <2>1, FS_Singleton
<1> QED
  BY <1>1, <1>2

\* The number of places of a task, counted.
LEMMA PlacesCounted == TypeOK /\ PlaceInv => OnePlace
<1> SUFFICES ASSUME TypeOK, PlaceInv, NEW t \in Task
             PROVE  LET places == Cardinality({w \in Worker : t \in emplacement_queue[w]})
                                  + Cardinality({w \in Worker : t \in ready_queue[w]})
                                  + Cardinality({w \in Worker : t = held[w]})
                                  + Cardinality({w \in Worker : t \in todo[w]})
                    IN  places = IF task[t] \in {"emplaced", "ready"} THEN 1 ELSE 0
  BY DEF OnePlace
<1> DEFINE E == {w \in Worker : t \in emplacement_queue[w]}
           R == {w \in Worker : t \in ready_queue[w]}
           H == {w \in Worker : t = held[w]}
           D == {w \in Worker : t \in todo[w]}
<1>1. \A v, w \in Worker : OnlyAt(t, v, w)
  BY DEF PlaceInv, OnlyPlace
<1>2. /\ \A v, w \in E : v = w
      /\ \A v, w \in R : v = w
      /\ \A v, w \in H : v = w
      /\ \A v, w \in D : v = w
  BY <1>1 DEF OnlyAt
<1>3. /\ Cardinality(E) = IF E = {} THEN 0 ELSE 1
      /\ Cardinality(R) = IF R = {} THEN 0 ELSE 1
      /\ Cardinality(H) = IF H = {} THEN 0 ELSE 1
      /\ Cardinality(D) = IF D = {} THEN 0 ELSE 1
  <2>1. E \in SUBSET Worker /\ R \in SUBSET Worker /\ H \in SUBSET Worker /\ D \in SUBSET Worker
    OBVIOUS
  <2> HIDE DEF E, R, H, D
  <2> QED
    BY <1>2, <2>1, AtMostOne
<1>4. /\ E # {} => R = {} /\ H = {} /\ D = {}
      /\ R # {} => H = {} /\ D = {}
      /\ H # {} => D = {}
  BY <1>1 DEF OnlyAt
<1>5. E # {} \/ R # {} \/ H # {} \/ D # {} <=> task[t] \in {"emplaced", "ready"}
  BY <1>1 DEF OnlyAt, PlaceInv, SomePlace
<1> HIDE DEF E, R, H, D
<1>6. Cardinality(E) + Cardinality(R) + Cardinality(H) + Cardinality(D)
        = IF task[t] \in {"emplaced", "ready"} THEN 1 ELSE 0
  BY <1>3, <1>4, <1>5
<1> QED
  BY <1>6 DEF E, R, H, D

\* work_loop, gather_task and activate_task: a task is never in two queues or
\* in the hands of two workers, and never lost on its way.
THEOREM OnePlaceCorrect == Spec => []OnePlace
<1>1. Init => PlaceInv
  BY InitPlaces
<1>2. IInv /\ PlaceInv /\ [Next]_vars => PlaceInv'
  <2> SUFFICES ASSUME IInv, PlaceInv, [Next]_vars PROVE PlaceInv'
    OBVIOUS
  <2>1. CASE MainStep \/ \E t \in Task : EmplaceTask(t)
    BY <2>1, PlaceMainStep
  <2>2. ASSUME NEW w \in Worker, WorkerStep(w) PROVE PlaceInv'
    BY <2>2, PlaceWorkerStep
  <2>3. CASE UNCHANGED vars
    BY <2>3 DEF vars, queues, local, PlaceInv, HandsMatch, TaskInHand, OnlyPlace,
       OnlyAt, SomePlace
  <2> QED
    BY <2>1, <2>2, <2>3 DEF Next, Terminated
<1>3. IInv /\ PlaceInv => OnePlace
  BY PlacesCounted DEF IInv
<1> QED
  BY <1>1, <1>2, <1>3, Invariance, PTL DEF Spec
=============================================================================
