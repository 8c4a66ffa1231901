------------------------- MODULE AsyncDispatchProofs -------------------------
(***************************************************************************)
(* MPI and CUDA tasks for any program, any number of workers and tasks: a  *)
(* task is finished only when its operation is and gets the status of its  *)
(* own request; operations are in order, but for kernels across streams.   *)
(***************************************************************************)
EXTENDS AsyncDispatch, FiniteSetTheorems, FunctionTheorems, SequenceTheorems, TLAPS

\* Only tasks of the MPI worker call get_status, as in examples/mpi.cpp.  A task of the
\* pool that does may be resumed twice (run pause_race), so nothing is claimed for it.
RequestsOnMpi == \A t \in Request : Sched[t] = "mpi"

\* The state of an event is a uint16_t and not checked for overflow.
CountsFit == \A t \in Task : Cardinality(Preds[t]) < 65535

Hypotheses == RequestsOnMpi /\ CountsFit

-----------------------------------------------------------------------------
TaskPC == {"execute", "body", "push", "check", "result", "wake", "record", "pre", "post",
           "reset", "follow", "append", "count", "up", "notify"}
PausePC == {"push", "check", "reset", "follow", "append", "count", "up", "notify"}
PollPC == {"status", "resume", "erase"}
Operation == [kind : {"kernel", "record"}, id : Nat]

\* The task has been emplaced; and has been taken out of the emplacement queue.
Born(t) == t < main.t \/ (t = main.t /\ main.pc # "emplace")
Old(t) == Born(t) /\ t \notin emplaced

NotHeld(t) == \A w \in Worker : cur[w] # t

\* The events that a task still waits for.
Incoming(t) ==
  {x \in Task \X {"pre", "post"} :
     /\ t \in followers[x[1]][x[2]]
     /\ x[2] = "pre" => pre[x[1]] # 0
     /\ x[2] = "post" => post[x[1]] # 0}

Free(t) == Incoming(t) = {}

Current == events[indices[slot]]

\* The body of the task has ended, and its post-event has been notified for it.
Finished(t) == pre[t] = 0 /\ NotHeld(t)

\* The external event still has to notify the post-event.
Holds(t) == ext[t] = "pending" \/ (pc["mpi"] \in {"resume", "erase"} /\ t = Current)

\* The body has not begun to run, or is resumed after its request.
Runnable(t) ==
  \/ op[t] = "none" /\ ext[t] = "none" /\ stream_idx[t] = NoStream
  \/ t \in Request /\ ext[t] = "reached"

\* The task has been paused, and its pre-event waits for its external event.
Parked(t) == t \in Request /\ pre[t] = 2 /\ paused[t]

-----------------------------------------------------------------------------
(***************************************************************************)
(* The inductive invariant.                                                *)
(***************************************************************************)
Fits(n) == n \in Nat /\ n < 65536

CountTypes ==
  /\ pre \in [Task -> Nat] /\ post \in [Task -> Nat]
  /\ \A t \in Task : Fits(pre[t]) /\ Fits(post[t])

EventTypes ==
  /\ followers \in [Task -> [{"pre", "post"} -> SUBSET Task]]
  /\ removal_countdown \in [Task -> Int]
  /\ ext \in [Task -> {"none", "pending", "reached"}]
  /\ paused \in [Task -> BOOLEAN]
  /\ op \in [Task -> {"none", "queued", "running", "done"}]
  /\ emplaced \subseteq Task /\ ready \in [Task -> Int]

WorkTypes ==
  /\ pc \in [Worker -> WorkerPC] /\ cur \in [Worker -> Task \union {NoTask}]
  /\ back \in [Worker -> {"gather", "loop"}]

PoolTypes ==
  /\ requests \in Seq(Task) /\ out_statuses \in Seq(Task)
  /\ indices \in Seq(Nat) /\ slot \in Nat
  /\ status \in [Task -> Task \union {NoTask}]

CudaTypes ==
  /\ streams \in [0..(NumStreams - 1) -> Seq(Operation)]
  /\ stream_idx \in [Task -> {NoStream} \union 0..(NumStreams - 1)] /\ next_stream \in Nat
  /\ cuda_events \in Seq([event : Nat, task : Task]) /\ unused \in Seq(Nat) /\ created \in Nat

MainTypes == main \in [pc : MainPC, t : 1..(MaxTask + 1), s : Nat] /\ task_count \in Int

Types == CountTypes /\ EventTypes /\ WorkTypes /\ PoolTypes /\ CudaTypes /\ MainTypes

\* Where a worker can be, and with which tasks.
WorkersMatch ==
  \A w \in Worker :
    /\ pc[w] \in TaskPC <=> cur[w] # NoTask
    /\ cur[w] # NoTask => Sched[cur[w]] = SchedOf(w)
    /\ pc[w] \in PausePC => cur[w] \in Request
    /\ pc[w] \in {"record", "pre"} => w = "cuda"
    /\ pc[w] \in PollPC => w = "mpi"

\* A task that is not initialised has not been touched.
NewUntouched ==
  /\ \A t \in emplaced : Born(t)
  /\ \A t \in Task : ~ Old(t) =>
       /\ pre[t] = 1 /\ post[t] = 1 /\ ready[t] = 0 /\ NotHeld(t)
       /\ op[t] = "none" /\ ext[t] = "none" /\ stream_idx[t] = NoStream
       /\ \A p \in Task : \A e \in {"pre", "post"} : t \notin followers[p][e]

FollowersMatch ==
  \A p \in Task : \A e \in {"pre", "post"} : \A t \in followers[p][e] :
    /\ p < t
    /\ e = "pre" => stream_idx[p] # NoStream

\* A task that waits is counted right, and nobody has it.
WaitingCounted ==
  \A t \in Task : ~ Free(t) =>
    /\ pre[t] = 1 + Cardinality(Incoming(t))
    /\ ready[t] = 0 /\ NotHeld(t)
    /\ op[t] = "none" /\ ext[t] = "none" /\ stream_idx[t] = NoStream

ReadyOnce ==
  \A t \in Task :
    /\ ready[t] \in {0, 1}
    /\ ready[t] = 1 => pre[t] = 1 /\ NotHeld(t) /\ Runnable(t)

\* A task that nobody has and that waits for no task is finished or parked.
RestDone ==
  \A t \in Task : Old(t) /\ Free(t) /\ ready[t] = 0 /\ NotHeld(t) =>
    \/ /\ pre[t] = 0
       /\ t \in Request => ext[t] = "reached"
       /\ Sched[t] = "cuda" => ext[t] # "none"
       /\ t \notin Request /\ Sched[t] # "cuda" => op[t] = "done"
    \/ Parked(t)

HeldOnce == \A w, v \in Worker : cur[w] = cur[v] /\ cur[w] # NoTask => w = v

\* The state of the pre-event while a worker has the task.
HeldPre ==
  \A w \in Worker : LET t == cur[w] IN
    /\ pc[w] = "execute" => pre[t] = 1
    /\ w # "cuda" /\ pc[w] \in {"body", "push", "check", "reset", "result", "wake", "post"} => pre[t] = 0
    /\ w = "cuda" /\ pc[w] \in {"body", "result", "wake", "record", "pre"} => pre[t] = 1
    /\ w = "cuda" /\ pc[w] = "post" => pre[t] = 0
    /\ pc[w] \in {"follow", "append", "count"} => pre[t] = 1
    /\ pc[w] = "up" => pre[t] = 2
    /\ pc[w] = "notify" => pre[t] = 3

\* How far the operation and the external event of a task are that a worker has.
HeldProgress ==
  \A w \in Worker : LET t == cur[w] IN
    /\ pc[w] = "execute" => Runnable(t)
    /\ pc[w] = "body" =>
         /\ ext[t] = "none" /\ stream_idx[t] = NoStream
         /\ t \in Request \/ w = "cuda" => op[t] = "none"
    /\ pc[w] \in {"push", "reset", "follow", "append", "count", "up", "notify"} => ext[t] = "pending"
    /\ pc[w] = "check" => ext[t] # "none"
    /\ pc[w] \in {"count", "up", "notify"} => paused[t]
    /\ pc[w] \in {"result", "wake", "post"} =>
         /\ t \in Request => ext[t] = "reached"
         /\ t \notin Request /\ w # "cuda" => op[t] = "done"
    /\ w = "cuda" /\ pc[w] \in {"result", "wake", "record"} => ext[t] = "none" /\ op[t] # "none"
    /\ w = "cuda" /\ pc[w] \in {"pre", "post"} => ext[t] # "none"

\* The post-event counts the body and the external event.
PostCounts ==
  \A t \in Task : post[t] = (IF Finished(t) THEN 0 ELSE 1) + (IF Holds(t) THEN 1 ELSE 0)

\* The pre-event that poll notifies next still waits for it.
ResumeCounted == pc["mpi"] = "resume" => pre[Current] = 2 /\ ready[Current] = 0

\* RequestPool: the vectors, and what is left of the answer of MPI_Testsome.
PoolAligned ==
  /\ requests = events /\ events = statuses
  /\ mutex = (IF pc["mpi"] \in PollPC THEN "mpi" ELSE "free")
  /\ \A n \in 1..Len(requests) :
       /\ requests[n] \in Request
       /\ ext[requests[n]] = (IF pc["mpi"] \in {"resume", "erase"} /\ n = indices[slot]
                                THEN "reached" ELSE "pending")
       /\ pc["mpi"] = "push" => requests[n] # cur["mpi"]
       /\ \A m \in 1..Len(requests) : requests[m] = requests[n] => m = n
  /\ pc["mpi"] \in PollPC =>
       /\ slot \in 1..Len(indices) /\ Len(out_statuses) = Len(indices)
       /\ \A j \in slot..Len(indices) :
            /\ indices[j] \in 1..Len(requests)
            /\ requests[indices[j]] = out_statuses[j]
            /\ op[out_statuses[j]] = "done"
            /\ \A k \in slot..Len(indices) : indices[k] = indices[j] => k = j

\* An external event is reached when the operation has ended and the status is there.
ReachedDone ==
  \A t \in Task :
    /\ status[t] \in {NoTask, t}
    /\ ext[t] = "reached" => op[t] = "done"
    /\ ext[t] = "reached" /\ t \in Request => status[t] = t
    /\ ext[t] # "none" => t \in Request \/ Sched[t] = "cuda"

\* What the streams still have to do.
StreamsMatch ==
  /\ \A t \in Task :
       /\ stream_idx[t] # NoStream => Sched[t] = "cuda" /\ op[t] # "none"
       /\ Sched[t] = "cuda" /\ op[t] # "none" => stream_idx[t] # NoStream
       /\ Sched[t] = "cuda" /\ op[t] \in {"queued", "running"} =>
            \E a \in DOMAIN streams[stream_idx[t]] : streams[stream_idx[t]][a] = Kernel(t)
  /\ \A i \in 0..(NumStreams - 1) : \A a \in DOMAIN streams[i] :
       streams[i][a].kind = "kernel" =>
         streams[i][a].id \in Task /\ stream_idx[streams[i][a].id] # NoStream

\* An event is recorded behind the kernel of its task.
RecordsBehind ==
  \A n \in DOMAIN cuda_events : LET t == cuda_events[n].task IN
    /\ Sched[t] = "cuda" /\ ext[t] = "pending" /\ stream_idx[t] # NoStream
    /\ \A m \in DOMAIN cuda_events : cuda_events[m].task = t => m = n
    /\ op[t] # "done" =>
         \E a, b \in DOMAIN streams[stream_idx[t]] :
           /\ a < b
           /\ streams[stream_idx[t]][a] = Kernel(t)
           /\ streams[stream_idx[t]][b] = Record(cuda_events[n].event)

\* removal_countdown counts the post-event and the Future; task_count the tasks in being.
Live == {t \in Task : Born(t) /\ removal_countdown[t] # 0}

MainCounts ==
  /\ \A t \in Task :
       removal_countdown[t] = (IF post[t] = 0 THEN 0 ELSE 1) + (IF t < main.t THEN 0 ELSE 1)
  /\ task_count = Cardinality(Live)
  /\ main.pc \in {"get", "late", "test", "idle", "doze", "take"} => main.t \in Task
  /\ main.pc \in {"barrier", "await", "stop", "join", "end"} => main.t = MaxTask + 1
  /\ main.pc \in {"stop", "join", "end"} => \A t \in Task : removal_countdown[t] = 0

IInv ==
  /\ Types /\ WorkersMatch /\ NewUntouched /\ FollowersMatch /\ WaitingCounted
  /\ ReadyOnce /\ RestDone /\ HeldOnce /\ HeldPre /\ HeldProgress /\ PostCounts
  /\ ResumeCounted /\ PoolAligned /\ ReachedDone /\ StreamsMatch /\ RecordsBehind /\ MainCounts

\* The order of operations: a task that has been initialised follows the tasks before it
\* or they have finished or, if it is a kernel, they have been launched before it ...
PredsLinked ==
  \A t \in Task : Old(t) => \A p \in Preds[t] :
    \/ post[p] = 0
    \/ t \in followers[p]["post"]
    \/ Sched[t] = "cuda" /\ stream_idx[p] # NoStream

\* ... and are in front of it in the stream, or in another one.
KernelsOrdered ==
  \A i \in 0..(NumStreams - 1) : \A t \in Task : \A b \in DOMAIN streams[i] :
    streams[i][b] = Kernel(t) =>
      /\ stream_idx[t] = i
      /\ \A p \in Preds[t] : op[p] # "done" =>
           /\ stream_idx[p] # NoStream
           /\ stream_idx[p] = i => \E a \in DOMAIN streams[i] : a < b /\ streams[i][a] = Kernel(p)

\* A body that is running has not done its operation yet.
BodyNotDone == \A w \in Worker : pc[w] = "body" => op[cur[w]] # "done"

OrderInv == PredsLinked /\ BodyNotDone /\ KernelsOrdered /\ OperationsOrdered

-----------------------------------------------------------------------------
(***************************************************************************)
(* Abbreviations that every step uses, and that the proofs always expand.  *)
(***************************************************************************)
\* A worker has a task; the CUDA worker has.
HasTask(w) ==
  /\ cur[w] \in Task /\ cur[w] # NoTask /\ (cur[w] \in Request => w = "mpi")
  /\ w = "cuda" <=> Sched[cur[w]] = "cuda"

CudaHasTask == cur["cuda"] \in Task /\ cur["cuda"] # NoTask /\ Sched[cur["cuda"]] = "cuda"

\* The request that MPI_Testsome has answered; the event that is queried next.
Polled ==
  /\ Current \in Task /\ Current \in Request /\ indices[slot] \in 1..Len(requests)
  /\ events = requests /\ statuses = requests

Front == Head(cuda_events).task

FrontPolled == Front \in Task /\ Head(cuda_events) = cuda_events[1] /\ cuda_events # <<>>

\* poll is about to notify a parked task.
Resuming ==
  /\ pc["mpi"] = "resume" /\ Current \in Task /\ NotHeld(Current)
  /\ pre[Current] = 2 /\ ready[Current] = 0 /\ ext[Current] = "reached"

StillResuming == (pre'[Current] = 2 /\ ready'[Current] = 0) /\ Current' = Current

\* The task of a worker; the events that tasks wait for are the same after a step.
Underway(t) == Old(t) /\ Free(t) /\ ~ Finished(t)

SameIncoming == \A u \in Task : Incoming(u)' = Incoming(u) /\ (Free(u)' <=> Free(u))

\* The ranges of the functions, and the parts of the invariant that the steps use.
Ranges ==
  /\ cur \in [Worker -> Task \union {NoTask}] /\ pre \in [Task -> Nat] /\ post \in [Task -> Nat]
  /\ ext \in [Task -> {"none", "pending", "reached"}] /\ emplaced \subseteq Task
  /\ op \in [Task -> {"none", "queued", "running", "done"}] /\ ready \in [Task -> Int]
  /\ stream_idx \in [Task -> {NoStream} \union 0..(NumStreams - 1)]
  /\ followers \in [Task -> [{"pre", "post"} -> SUBSET Task]]
  /\ pc \in [Worker -> WorkerPC] /\ paused \in [Task -> BOOLEAN]

Parts ==
  /\ Hypotheses /\ RequestsOnMpi /\ Types /\ WorkersMatch /\ NewUntouched
  /\ FollowersMatch /\ WaitingCounted /\ ReadyOnce /\ RestDone /\ HeldOnce /\ HeldPre
  /\ HeldProgress /\ PostCounts /\ ResumeCounted /\ PoolAligned /\ ReachedDone
  /\ StreamsMatch /\ RecordsBehind

USE DEF taskVars, resultVars, workVars, poolVars, cudaVars, mainVars, HasTask, CudaHasTask,
        Polled, Front, FrontPolled, Resuming, StillResuming, Underway, SameIncoming, Ranges,
        Parts

-----------------------------------------------------------------------------
(***************************************************************************)
(* Facts about workers, counts and the events a task waits for.            *)
(***************************************************************************)
LEMMA WorkerFacts ==
  /\ "mpi" \in Worker /\ "cuda" \in Worker
  /\ "mpi" \notin PoolWorker /\ "cuda" \notin PoolWorker
  /\ SchedOf("mpi") = "mpi" /\ SchedOf("cuda") = "cuda"
  /\ \A w \in Worker : SchedOf(w) = "mpi" => w = "mpi"
  /\ \A w \in Worker : SchedOf(w) = "cuda" => w = "cuda"
  /\ \A w \in Worker : w \in PoolWorker \/ w = "mpi" \/ w = "cuda"
BY DispatchAssumption DEF Worker, SchedOf, Scheduler

LEMMA TaskFacts == MaxTask \in Nat /\ NoTask \notin Task /\ Task \subseteq Nat /\ IsFiniteSet(Task)
BY DispatchAssumption, FS_Interval DEF Task, NoTask

LEMMA DownFacts ==
  /\ \A n \in Nat : Fits(Down(n)) /\ Down(n) \in Nat
  /\ \A n \in Nat : 0 < n /\ Fits(n) => Down(n) = n - 1
BY DEF Down, Fits

LEMMA UpFacts ==
  /\ \A n \in Nat : Fits(Up(n)) /\ Up(n) \in Nat
  /\ \A n \in Nat : n < 4 => Fits(n) /\ Up(n) = n + 1
BY DEF Up, Fits

\* Who has a task, and which worker it can be.
LEMMA HeldFacts ==
  ASSUME RequestsOnMpi, Types, WorkersMatch, NEW w \in Worker, pc[w] \in TaskPC
  PROVE  /\ cur[w] \in Task /\ cur[w] # NoTask
         /\ cur[w] \in Request => w = "mpi"
         /\ pc[w] \in PausePC => w = "mpi"
         /\ w = "cuda" <=> Sched[cur[w]] = "cuda"
<1>1. cur[w] \in Task /\ cur[w] # NoTask /\ Sched[cur[w]] = SchedOf(w)
  BY DEF Types, WorkTypes, WorkersMatch
<1>2. cur[w] \in Request => w = "mpi"
  BY <1>1, WorkerFacts DEF RequestsOnMpi
<1>3. w = "cuda" <=> Sched[cur[w]] = "cuda"
  BY <1>1, WorkerFacts
<1> QED BY <1>1, <1>2, <1>3 DEF WorkersMatch

LEMMA IncomingFinite ==
  ASSUME NEW t
  PROVE  IsFiniteSet(Incoming(t)) /\ Cardinality(Incoming(t)) \in Nat
<1>1. IsFiniteSet(Task \X {"pre", "post"})
  <2>1. IsFiniteSet({"pre", "post"})
    <3>1. IsFiniteSet({"pre"} \union {"post"})
      BY FS_Singleton, FS_AddElement
    <3> QED BY <3>1, {"pre", "post"} = {"pre"} \union {"post"}
  <2> QED BY <2>1, TaskFacts, FS_Product
<1>2. Incoming(t) \in SUBSET (Task \X {"pre", "post"})
  BY DEF Incoming
<1> QED BY <1>1, <1>2, FS_Subset, FS_CardinalityType

LEMMA FreeFacts ==
  ASSUME NEW t
  PROVE  Free(t) <=> \A p \in Task : /\ t \in followers[p]["pre"] => pre[p] = 0
                                     /\ t \in followers[p]["post"] => post[p] = 0
<1>1. ASSUME Free(t), NEW p \in Task, NEW e \in {"pre", "post"} PROVE <<p, e>> \notin Incoming(t)
  BY <1>1 DEF Free
<1>2. ASSUME Free(t), NEW p \in Task
      PROVE  /\ t \in followers[p]["pre"] => pre[p] = 0
             /\ t \in followers[p]["post"] => post[p] = 0
  <2>1. <<p, "pre">> \notin Incoming(t) /\ <<p, "post">> \notin Incoming(t)
    BY <1>1, <1>2
  <2> QED BY <2>1 DEF Incoming
<1>3. ASSUME \A p \in Task : /\ t \in followers[p]["pre"] => pre[p] = 0
                             /\ t \in followers[p]["post"] => post[p] = 0,
             NEW x \in Incoming(t)
      PROVE  FALSE
  <2>1. x[1] \in Task /\ x[2] \in {"pre", "post"} /\ t \in followers[x[1]][x[2]]
        /\ (x[2] = "pre" => pre[x[1]] # 0) /\ (x[2] = "post" => post[x[1]] # 0)
    BY DEF Incoming
  <2> QED BY <1>3, <2>1
<1> QED BY <1>2, <1>3 DEF Free

\* A step that reaches no event and adds no edge.
LEMMA IncomingSame ==
  ASSUME Types, FollowersMatch, followers' = followers,
         \A p \in Task : (post'[p] = 0) <=> (post[p] = 0),
         \A p \in Task : stream_idx[p] # NoStream => ((pre'[p] = 0) <=> (pre[p] = 0))
  PROVE  \A t \in Task : Incoming(t)' = Incoming(t) /\ (Free(t)' <=> Free(t))
<1> SUFFICES ASSUME NEW t \in Task
             PROVE  Incoming(t)' = Incoming(t)
  BY DEF Free
<1>1. ASSUME NEW x \in Task \X {"pre", "post"} PROVE (x \in Incoming(t)') <=> (x \in Incoming(t))
  <2>1. x[1] \in Task /\ x[2] \in {"pre", "post"}
    OBVIOUS
  <2>2. t \in followers[x[1]][x[2]] /\ x[2] = "pre" => stream_idx[x[1]] # NoStream
    BY <2>1 DEF FollowersMatch
  <2> QED BY <2>1, <2>2 DEF Incoming
<1>2. Incoming(t) \subseteq Task \X {"pre", "post"} /\ Incoming(t)' \subseteq Task \X {"pre", "post"}
  BY DEF Incoming
<1> QED BY <1>1, <1>2

-----------------------------------------------------------------------------
(***************************************************************************)
(* What the notifications do in the states that are reached.               *)
(***************************************************************************)
\* The pre-event of a task that is not a kernel has no followers.
LEMMA ExecuteEffect ==
  ASSUME RequestsOnMpi, Types, WorkersMatch, FollowersMatch, HeldPre, StreamsMatch,
         NEW w \in Worker, Execute(w), w # "cuda"
  PROVE  pre' = [pre EXCEPT ![cur[w]] = 0] /\ ready' = ready
<1> DEFINE t == cur[w]
<1>1. t \in Task /\ Sched[t] # "cuda"
  BY HeldFacts DEF Execute, TaskPC
<1>2. pre[t] = 1 /\ Down(1) = 0
  BY DownFacts, UpFacts DEF Execute, HeldPre
<1>3. followers[t]["pre"] = {}
  BY <1>1 DEF FollowersMatch, StreamsMatch
<1>4. ReachPre(t)
  BY DEF Execute
<1>5. /\ pre' = [u \in Task |-> IF u = t THEN Down(pre[u]) ELSE pre[u]]
      /\ ready' = [u \in Task |-> ready[u]]
  BY <1>2, <1>3, <1>4 DEF ReachPre
<1>6. pre' = [pre EXCEPT ![t] = 0]
  <2>1. pre \in [Task -> Nat]
    BY DEF Types, CountTypes, EventTypes
  <2>2. \A u \in Task : pre'[u] = IF u = t THEN 0 ELSE pre[u]
    BY <1>2, <1>5
  <2> QED BY <1>1, <1>5, <2>1, <2>2
<1>7. ready' = ready
  BY <1>5 DEF Types, CountTypes, EventTypes
<1> QED BY <1>6, <1>7

LEMMA PauseNotifyEffect ==
  ASSUME RequestsOnMpi, Types, WorkersMatch, HeldPre, NEW w \in Worker, PauseNotify(w)
  PROVE  pre' = [pre EXCEPT ![cur[w]] = 2] /\ ready' = ready
<1>1. cur[w] \in Task /\ pre[cur[w]] = 3
  BY HeldFacts DEF PauseNotify, TaskPC, HeldPre
<1>2. Down(3) = 2
  BY DownFacts, UpFacts
<1>0. NotifyPre({cur[w]})
  BY DEF PauseNotify
<1>3. pre' = [pre EXCEPT ![cur[w]] = 2]
  <2>1. pre' = [t \in Task |-> IF t = cur[w] THEN Down(pre[t]) ELSE pre[t]]
    BY <1>0 DEF NotifyPre
  <2>2. pre \in [Task -> Nat]
    BY DEF Types, CountTypes, EventTypes
  <2>3. \A t \in Task : pre'[t] = IF t = cur[w] THEN 2 ELSE pre[t]
    BY <1>1, <1>2, <2>1
  <2> QED BY <1>1, <2>1, <2>2, <2>3
<1>4. ready' = ready
  BY <1>1 DEF PauseNotify, NotifyPre, Types, CountTypes, EventTypes
<1> QED BY <1>3, <1>4

\* The followers of an event that becomes reached: each has one event less to wait for.
LEMMA ReleaseFollowers ==
  ASSUME Types, WaitingCounted, NEW p \in Task, NEW e \in {"pre", "post"},
         NEW u \in Task, <<p, e>> \in Incoming(u), Incoming(u)' = Incoming(u) \ {<<p, e>>},
         pre'[u] = Down(pre[u]), ready'[u] = IF pre[u] = 2 THEN ready[u] + 1 ELSE ready[u]
  PROVE  /\ Free(u)' => pre'[u] = 1 /\ ready'[u] = 1
         /\ ~ Free(u)' => pre'[u] = 1 + Cardinality(Incoming(u)') /\ ready'[u] = 0
         /\ pre'[u] # 0 /\ pre[u] # 0
         /\ NotHeld(u) /\ op[u] = "none" /\ ext[u] = "none" /\ stream_idx[u] = NoStream
<1> DEFINE I == Incoming(u)
<1>1. IsFiniteSet(I) /\ Cardinality(I) \in Nat
  BY IncomingFinite
<1>2. /\ IsFiniteSet(I \ {<<p, e>>}) /\ Cardinality(I \ {<<p, e>>}) = Cardinality(I) - 1
      /\ Cardinality(I \ {<<p, e>>}) \in Nat
  BY <1>1, FS_RemoveElement, FS_CardinalityType
<1>3. ~ Free(u)
  BY DEF Free
<1>4. /\ pre[u] = 1 + Cardinality(I) /\ ready[u] = 0
      /\ NotHeld(u) /\ op[u] = "none" /\ ext[u] = "none" /\ stream_idx[u] = NoStream
  BY <1>3 DEF WaitingCounted
<1>5. Cardinality(I) >= 1
  BY <1>1, <1>2
<1>6. Fits(pre[u])
  BY DEF Types, CountTypes
<1>7. pre'[u] = Cardinality(I)
  BY <1>1, <1>4, <1>5, <1>6, DownFacts
<1>8. Free(u)' <=> Cardinality(I) = 1
  <2>1. Free(u)' <=> I \ {<<p, e>>} = {}
    BY DEF Free
  <2> HIDE DEF I
  <2>2. I \ {<<p, e>>} = {} <=> Cardinality(I \ {<<p, e>>}) = 0
    BY <1>2, FS_EmptySet
  <2> QED BY <2>1, <2>2, <1>1, <1>2
<1>9. Cardinality(Incoming(u)') = Cardinality(I) - 1
  BY <1>2
<1> HIDE DEF I
<1> QED BY <1>1, <1>4, <1>5, <1>7, <1>8, <1>9

\* What is left to wait for when an event of p has been reached.
LEMMA IncomingReleased ==
  ASSUME Types, FollowersMatch, NEW p \in Task, NEW e \in {"pre", "post"},
         followers' = followers,
         \A q \in Task : q # p \/ e # "post" => ((post'[q] = 0) <=> (post[q] = 0)),
         \A q \in Task : q # p \/ e # "pre" =>
           (stream_idx[q] # NoStream => ((pre'[q] = 0) <=> (pre[q] = 0))),
         e = "post" => post'[p] = 0 /\ post[p] # 0,
         e = "pre" => pre'[p] = 0 /\ pre[p] # 0,
         NEW u \in Task
  PROVE  /\ Incoming(u)' = Incoming(u) \ {<<p, e>>}
         /\ <<p, e>> \in Incoming(u) <=> u \in followers[p][e]
<1>1. ASSUME NEW x \in Task \X {"pre", "post"}
      PROVE  (x \in Incoming(u)') <=> (x \in Incoming(u) /\ x # <<p, e>>)
  <2>1. x[1] \in Task /\ x[2] \in {"pre", "post"} /\ x = <<x[1], x[2]>>
    OBVIOUS
  <2>2. u \in followers[x[1]][x[2]] /\ x[2] = "pre" => stream_idx[x[1]] # NoStream
    BY <2>1 DEF FollowersMatch
  <2>3. CASE x = <<p, e>>
    <3>1. x[1] = p /\ x[2] = e
      BY <2>3
    <3>2. e = "pre" => (x \notin Incoming(u)')
      BY <3>1 DEF Incoming
    <3>3. e = "post" => (x \notin Incoming(u)')
      BY <3>1 DEF Incoming
    <3> QED BY <2>3, <3>2, <3>3
  <2>4. CASE x # <<p, e>>
    <3>1. x[1] # p \/ x[2] # e
      BY <2>1, <2>4
    <3>2. CASE x[2] = "pre"
      BY <2>1, <2>2, <2>4, <3>1, <3>2 DEF Incoming
    <3>3. CASE x[2] = "post"
      BY <2>1, <2>4, <3>1, <3>3 DEF Incoming
    <3> QED BY <2>1, <3>2, <3>3
  <2> QED BY <2>3, <2>4
<1>2. Incoming(u) \subseteq Task \X {"pre", "post"} /\ Incoming(u)' \subseteq Task \X {"pre", "post"}
  BY DEF Incoming
<1>3. <<p, e>> \in Task \X {"pre", "post"}
  OBVIOUS
<1>4. <<p, e>>[1] = p /\ <<p, e>>[2] = e
  OBVIOUS
<1>5. <<p, e>> \in Incoming(u) <=> u \in followers[p][e]
  BY <1>3, <1>4 DEF Incoming
<1> QED BY <1>1, <1>2, <1>5

-----------------------------------------------------------------------------
(***************************************************************************)
(* One lemma for each part of the invariant.                               *)
(***************************************************************************)
LEMMA WorkersMatchStep ==
  ASSUME Hypotheses, IInv, [Next]_vars
  PROVE  WorkersMatch'
<1>0. RequestsOnMpi /\ Types /\ WorkersMatch /\ HeldProgress
  BY DEF Hypotheses, IInv
<1>t. pc \in [Worker -> WorkerPC] /\ cur \in [Worker -> Task \union {NoTask}]
  BY <1>0 DEF Types, CountTypes, EventTypes, WorkTypes, PoolTypes, CudaTypes, MainTypes
<1>1. CASE UNCHANGED <<cur, pc>>
  BY <1>0, <1>1, <1>t DEF WorkersMatch
<1>2. CASE UNCHANGED vars
  BY <1>1, <1>2 DEF vars
<1>3. ASSUME \/ Emplace \/ EndOfProgram \/ EnterWaker \/ TestResult \/ Idle \/ TakeResult
             \/ Barrier \/ Stop \/ Join
      PROVE  WorkersMatch'
  BY <1>1, <1>3
  DEF Emplace, EndOfProgram, EnterWaker, TestResult, Idle, TakeResult, Barrier, Stop, Join,
      MainGoto, OnlyMain
<1>4. ASSUME NEW t \in Task, RequestCompletes(t) PROVE WorkersMatch'
  BY <1>1, <1>4 DEF RequestCompletes
<1>5. ASSUME NEW i \in DOMAIN streams, StreamStep(i) PROVE WorkersMatch'
  BY <1>1, <1>5 DEF StreamStep
<1>6. ASSUME NEW w \in Worker, NEW t \in Task, GatherReady(w, t) PROVE WorkersMatch'
  BY <1>0, <1>6, <1>t, WorkerFacts, TaskFacts
  DEF GatherReady, Goto, Mine, WorkersMatch, TaskPC, PausePC, PollPC
<1>7. ASSUME NEW w \in Worker, NEW t \in Task, InitDependencies(w, t) PROVE WorkersMatch'
  BY <1>0, <1>7, <1>t, WorkerFacts, TaskFacts
  DEF InitDependencies, Goto, Mine, WorkersMatch, TaskPC, PausePC, PollPC
<1>8. ASSUME NEW w \in Worker, GatherNothing(w) PROVE WorkersMatch'
  BY <1>0, <1>8, <1>t, WorkerFacts, TaskFacts
  DEF GatherNothing, Goto, TestStop, WorkersMatch, TaskPC, PausePC, PollPC
<1>9. ASSUME NEW w \in Worker, Execute(w) PROVE WorkersMatch'
  BY <1>0, <1>9, <1>t, WorkerFacts, TaskFacts
  DEF Execute, Goto, HeldProgress, Runnable, WorkersMatch, TaskPC, PausePC, PollPC
<1>10. ASSUME NEW w \in Worker, Compute(w) PROVE WorkersMatch'
  BY <1>0, <1>10, <1>t, WorkerFacts, TaskFacts
  DEF Compute, Goto, WorkersMatch, TaskPC, PausePC, PollPC
<1>11. ASSUME NEW w \in Worker, GetStatus(w) PROVE WorkersMatch'
  BY <1>0, <1>11, <1>t, WorkerFacts, TaskFacts
  DEF GetStatus, Goto, MakeEvent, WorkersMatch, TaskPC, PausePC, PollPC
<1>12. ASSUME NEW w \in Worker, PushRequest(w) PROVE WorkersMatch'
  BY <1>0, <1>12, <1>t, WorkerFacts, TaskFacts
  DEF PushRequest, Goto, WorkersMatch, TaskPC, PausePC, PollPC
<1>13. ASSUME NEW w \in Worker, Yield(w) PROVE WorkersMatch'
  BY <1>0, <1>13, <1>t, WorkerFacts, TaskFacts
  DEF Yield, Goto, WorkersMatch, TaskPC, PausePC, PollPC
<1>14. ASSUME NEW w \in Worker, PauseReset(w) PROVE WorkersMatch'
  BY <1>0, <1>14, <1>t, WorkerFacts, TaskFacts
  DEF PauseReset, Goto, WorkersMatch, TaskPC, PausePC, PollPC
<1>15. ASSUME NEW w \in Worker, PauseFollow(w) PROVE WorkersMatch'
  BY <1>0, <1>15, <1>t, WorkerFacts, TaskFacts
  DEF PauseFollow, Goto, WorkersMatch, TaskPC, PausePC, PollPC
<1>16. ASSUME NEW w \in Worker, PauseAppend(w) PROVE WorkersMatch'
  BY <1>0, <1>16, <1>t, WorkerFacts, TaskFacts
  DEF PauseAppend, Goto, WorkersMatch, TaskPC, PausePC, PollPC
<1>17. ASSUME NEW w \in Worker, PauseCount(w) PROVE WorkersMatch'
  BY <1>0, <1>17, <1>t, WorkerFacts, TaskFacts
  DEF PauseCount, Goto, WorkersMatch, TaskPC, PausePC, PollPC
<1>18. ASSUME NEW w \in Worker, PauseUp(w) PROVE WorkersMatch'
  BY <1>0, <1>18, <1>t, WorkerFacts, TaskFacts
  DEF PauseUp, Goto, WorkersMatch, TaskPC, PausePC, PollPC
<1>19. ASSUME NEW w \in Worker, PauseNotify(w) PROVE WorkersMatch'
  BY <1>0, <1>19, <1>t, WorkerFacts, TaskFacts
  DEF PauseNotify, Goto, AfterTask, WorkersMatch, TaskPC, PausePC, PollPC
<1>20. ASSUME NEW w \in Worker, SetResult(w) PROVE WorkersMatch'
  BY <1>0, <1>20, <1>t, WorkerFacts, TaskFacts
  DEF SetResult, Goto, WorkersMatch, TaskPC, PausePC, PollPC
<1>21. ASSUME NEW w \in Worker, WakeMain(w) PROVE WorkersMatch'
  BY <1>0, <1>21, <1>t, WorkerFacts, TaskFacts
  DEF WakeMain, Goto, WorkersMatch, TaskPC, PausePC, PollPC
<1>22. ASSUME NEW w \in Worker, FinishTask(w) PROVE WorkersMatch'
  BY <1>0, <1>22, <1>t, WorkerFacts, TaskFacts
  DEF FinishTask, Goto, AfterTask, WorkersMatch, TaskPC, PausePC, PollPC
<1>23. CASE PollNothing
  BY <1>0, <1>23, <1>t, WorkerFacts, TaskFacts
  DEF PollNothing, Goto, AfterPoll, TestStop, WorkersMatch, TaskPC, PausePC, PollPC
<1>24. CASE Poll
  BY <1>0, <1>24, <1>t, WorkerFacts, TaskFacts
  DEF Poll, Goto, WorkersMatch, TaskPC, PausePC, PollPC
<1>25. CASE PollStatus
  BY <1>0, <1>25, <1>t, WorkerFacts, TaskFacts
  DEF PollStatus, Goto, WorkersMatch, TaskPC, PausePC, PollPC
<1>26. CASE PollResume
  BY <1>0, <1>26, <1>t, WorkerFacts, TaskFacts
  DEF PollResume, Goto, WorkersMatch, TaskPC, PausePC, PollPC
<1>27. CASE PollErase
  BY <1>0, <1>27, <1>t, WorkerFacts, TaskFacts
  DEF PollErase, Goto, AfterPoll, TestStop, WorkersMatch, TaskPC, PausePC, PollPC
<1>28. CASE Launch
  BY <1>0, <1>28, <1>t, WorkerFacts, TaskFacts
  DEF Launch, Goto, WorkersMatch, TaskPC, PausePC, PollPC
<1>29. CASE RecordEvent
  BY <1>0, <1>29, <1>t, WorkerFacts, TaskFacts
  DEF RecordEvent, Goto, MakeEvent, WorkersMatch, TaskPC, PausePC, PollPC
<1>30. CASE LaunchedPre
  BY <1>0, <1>30, <1>t, WorkerFacts, TaskFacts
  DEF LaunchedPre, Goto, WorkersMatch, TaskPC, PausePC, PollPC
<1>31. CASE CudaPollNothing
  BY <1>0, <1>31, <1>t, WorkerFacts, TaskFacts
  DEF CudaPollNothing, Goto, AfterPoll, TestStop, WorkersMatch, TaskPC, PausePC, PollPC
<1>32. CASE CudaPoll
  BY <1>0, <1>32, <1>t, WorkerFacts, TaskFacts
  DEF CudaPoll, Goto, AfterPoll, TestStop, WorkersMatch, TaskPC, PausePC, PollPC
<1> QED
  BY <1>2, <1>3, <1>4, <1>5, <1>6, <1>7, <1>8, <1>9, <1>10, <1>11, <1>12, <1>13, <1>14, <1>15,
     <1>16, <1>17, <1>18, <1>19, <1>20, <1>21, <1>22, <1>23, <1>24, <1>25, <1>26, <1>27, <1>28,
     <1>29, <1>30, <1>31, <1>32
  DEF Next, WorkerStep, MpiStep, CudaStep, MainStep, Ended

LEMMA HeldOnceStep ==
  ASSUME Hypotheses, IInv, [Next]_vars
  PROVE  HeldOnce'
<1>0. Types /\ WorkersMatch /\ HeldOnce /\ ReadyOnce /\ NewUntouched
  BY DEF Hypotheses, IInv
<1>t. cur \in [Worker -> Task \union {NoTask}] /\ ready \in [Task -> Int]
  BY <1>0 DEF Types, CountTypes, EventTypes, WorkTypes, PoolTypes, CudaTypes, MainTypes
<1>1. CASE UNCHANGED <<cur>>
  BY <1>0, <1>1, <1>t DEF HeldOnce
<1>2. CASE UNCHANGED vars
  BY <1>1, <1>2 DEF vars
<1>3. ASSUME NEW w \in Worker,
             GatherNothing(w) \/ Execute(w) \/ Compute(w) \/ GetStatus(w) \/ PushRequest(w)
             \/ Yield(w) \/ PauseReset(w) \/ PauseFollow(w) \/ PauseAppend(w) \/ PauseCount(w)
             \/ PauseUp(w) \/ SetResult(w) \/ WakeMain(w)
      PROVE  HeldOnce'
  BY <1>1, <1>3
  DEF GatherNothing, Execute, Compute, GetStatus, PushRequest, Yield, PauseReset, PauseFollow,
      PauseAppend, PauseCount, PauseUp, SetResult, WakeMain, Goto, MakeEvent
<1>4. ASSUME \/ PollNothing \/ Poll \/ PollStatus \/ PollResume \/ PollErase \/ Launch
             \/ RecordEvent \/ LaunchedPre \/ CudaPollNothing \/ CudaPoll \/ Emplace
             \/ EndOfProgram \/ EnterWaker \/ TestResult \/ Idle \/ TakeResult \/ Barrier
             \/ Stop \/ Join
      PROVE  HeldOnce'
  BY <1>1, <1>4
  DEF PollNothing, Poll, PollStatus, PollResume, PollErase, Launch, RecordEvent, LaunchedPre,
      CudaPollNothing, CudaPoll, Emplace, EndOfProgram, EnterWaker, TestResult, Idle,
      TakeResult, Barrier, Stop, Join, Goto, MainGoto, MakeEvent, OnlyMain
<1>5. ASSUME NEW t \in Task, RequestCompletes(t) PROVE HeldOnce'
  BY <1>1, <1>5 DEF RequestCompletes
<1>6. ASSUME NEW i \in DOMAIN streams, StreamStep(i) PROVE HeldOnce'
  BY <1>1, <1>6 DEF StreamStep
<1>7. ASSUME NEW w \in Worker, NEW t \in Task, GatherReady(w, t) PROVE HeldOnce'
  BY <1>0, <1>7, <1>t, WorkerFacts, TaskFacts
  DEF GatherReady, Goto, Mine, HeldOnce, ReadyOnce, NewUntouched, NotHeld, Old
<1>8. ASSUME NEW w \in Worker, NEW t \in Task, InitDependencies(w, t) PROVE HeldOnce'
  BY <1>0, <1>8, <1>t, WorkerFacts, TaskFacts
  DEF InitDependencies, Goto, Mine, HeldOnce, ReadyOnce, NewUntouched, NotHeld, Old
<1>9. ASSUME NEW w \in Worker, PauseNotify(w) PROVE HeldOnce'
  BY <1>0, <1>9, <1>t, WorkerFacts, TaskFacts
  DEF PauseNotify, Goto, AfterTask, HeldOnce, ReadyOnce, NewUntouched, NotHeld, Old
<1>10. ASSUME NEW w \in Worker, FinishTask(w) PROVE HeldOnce'
  BY <1>0, <1>10, <1>t, WorkerFacts, TaskFacts
  DEF FinishTask, Goto, AfterTask, HeldOnce, ReadyOnce, NewUntouched, NotHeld, Old
<1> QED BY <1>2, <1>3, <1>4, <1>5, <1>6, <1>7, <1>8, <1>9, <1>10
  DEF Next, WorkerStep, MpiStep, CudaStep, MainStep, Ended

-----------------------------------------------------------------------------
(***************************************************************************)
(* Types.                                                                  *)
(***************************************************************************)
LEMMA NotifyPreTypes ==
  ASSUME CountTypes, EventTypes, NEW S, NotifyPre(S)
  PROVE  /\ pre' \in [Task -> Nat] /\ \A t \in Task : Fits(pre'[t])
         /\ ready' \in [Task -> Int]
<1>1. \A t \in Task : Fits(Down(pre[t])) /\ Down(pre[t]) \in Nat /\ Fits(pre[t]) /\ pre[t] \in Nat
  BY DownFacts DEF CountTypes
<1>2. pre' \in [Task -> Nat] /\ \A t \in Task : Fits(pre'[t])
  BY <1>1 DEF NotifyPre
<1>3. ready \in [Task -> Int]
  BY DEF EventTypes
<1>4. ready' \in [Task -> Int]
  BY <1>3 DEF NotifyPre
<1> QED BY <1>2, <1>4

LEMMA ReachPreTypes ==
  ASSUME CountTypes, EventTypes, NEW t \in Task, ReachPre(t)
  PROVE  /\ pre' \in [Task -> Nat] /\ \A u \in Task : Fits(pre'[u])
         /\ ready' \in [Task -> Int]
<1> DEFINE S == IF pre[t] = 1 THEN followers[t]["pre"] ELSE {}
<1>1. \A u \in Task : Fits(Down(pre[u])) /\ Down(pre[u]) \in Nat /\ Fits(pre[u]) /\ pre[u] \in Nat
  BY DownFacts DEF CountTypes
<1>2. /\ pre' = [u \in Task |-> IF u \in S \union {t} THEN Down(pre[u]) ELSE pre[u]]
      /\ ready' = [u \in Task |-> IF u \in S /\ pre[u] = 2 THEN ready[u] + 1 ELSE ready[u]]
  BY DEF ReachPre
<1> HIDE DEF S
<1>3. ready \in [Task -> Int]
  BY DEF EventTypes
<1> QED BY <1>1, <1>2, <1>3

LEMMA CountDownTypes ==
  ASSUME EventTypes, MainTypes, NEW t \in Task, CountDown(t)
  PROVE  removal_countdown' \in [Task -> Int] /\ task_count' \in Int
<1>1. removal_countdown \in [Task -> Int] /\ task_count \in Int
  BY DEF EventTypes, MainTypes
<1> QED BY <1>1 DEF CountDown

LEMMA NotifyPostTypes ==
  ASSUME CountTypes, EventTypes, MainTypes, NEW t \in Task, NotifyPost(t)
  PROVE  /\ CountTypes' /\ ready' \in [Task -> Int]
         /\ removal_countdown' \in [Task -> Int] /\ task_count' \in Int
<1>1. post' \in [Task -> Nat] /\ \A u \in Task : Fits(post'[u])
  <2>1. post \in [Task -> Nat] /\ (\A u \in Task : Fits(post[u]))
        /\ Fits(Down(post[t])) /\ Down(post[t]) \in Nat
    BY DownFacts DEF CountTypes
  <2>2. post' = [post EXCEPT ![t] = Down(post[t])]
    BY DEF NotifyPost
  <2> QED BY <2>1, <2>2
<1>2. CASE post[t] = 1
  <2>1. NotifyPre(followers[t]["post"]) /\ CountDown(t)
    BY <1>2 DEF NotifyPost
  <2> QED BY <1>1, <2>1, NotifyPreTypes, CountDownTypes DEF CountTypes
<1>3. CASE post[t] # 1
  <2>1. UNCHANGED <<pre, ready, removal_countdown, task_count>>
    BY <1>3 DEF NotifyPost
  <2> QED BY <1>1, <2>1 DEF CountTypes, EventTypes, MainTypes
<1> QED BY <1>2, <1>3

LEMMA AppendFacts ==
  ASSUME NEW S, NEW s \in Seq(S), NEW x \in S
  PROVE  /\ Append(s, x) \in Seq(S) /\ Len(s) \in Nat /\ Len(Append(s, x)) = Len(s) + 1
         /\ DOMAIN s = 1..Len(s) /\ DOMAIN Append(s, x) = 1..(Len(s) + 1)
         /\ \A i \in 1..(Len(s) + 1) : Append(s, x)[i] = IF i = Len(s) + 1 THEN x ELSE s[i]
  OBVIOUS

LEMMA HeadFacts ==
  ASSUME NEW S, NEW s \in Seq(S), s # <<>>
  PROVE  /\ Head(s) = s[1] /\ Head(s) \in S /\ Tail(s) \in Seq(S)
         /\ Len(s) \in Nat /\ Len(s) > 0 /\ Len(Tail(s)) = Len(s) - 1
         /\ DOMAIN s = 1..Len(s) /\ DOMAIN Tail(s) = 1..(Len(s) - 1)
         /\ \A i \in 1..(Len(s) - 1) : Tail(s)[i] = s[i + 1]
  OBVIOUS

LEMMA EdgesFinite ==
  ASSUME NEW t \in Task
  PROVE  IsFiniteSet(Edges(t)) /\ Cardinality(Edges(t)) \in Nat /\ Cardinality(Edges(t)) <= Cardinality(Preds[t])
<1>1. Preds[t] \in SUBSET Task
  BY DispatchAssumption
<1>2. IsFiniteSet(Preds[t])
  BY <1>1, TaskFacts, FS_Subset
<1> DEFINE f == [x \in Edges(t) |-> x[1]]
<1>3. ASSUME NEW x \in Edges(t)
      PROVE  /\ x = <<x[1], x[2]>> /\ x[1] \in Preds[t]
             /\ x[2] = IF DependsOnPre(x[1], t) THEN "pre" ELSE "post"
  BY DEF Edges
<1>4. f \in [Edges(t) -> Preds[t]]
  BY <1>3
<1>5. ASSUME NEW x \in Edges(t), NEW y \in Edges(t), f[x] = f[y] PROVE x = y
  BY <1>3, <1>5
<1> HIDE DEF f
<1>6. f \in Injection(Edges(t), Preds[t])
  BY <1>4, <1>5, Fun_IsInj
<1> QED BY <1>2, <1>6, FS_Injection, FS_CardinalityType

\* The tasks that are notified by the polling workers.
LEMMA PolledTasks ==
  ASSUME Types, WorkersMatch, PoolAligned, RecordsBehind
  PROVE  /\ pc["mpi"] \in PollPC => Current \in Task /\ Current \in Request /\ events = requests
                                    /\ statuses = requests /\ indices[slot] \in 1..Len(requests)
         /\ cuda_events # <<>> => Front \in Task /\ Head(cuda_events) = cuda_events[1]
<1>1. ASSUME pc["mpi"] \in PollPC
      PROVE  Current \in Task /\ Current \in Request /\ indices[slot] \in 1..Len(requests)
  <2>1. slot \in slot..Len(indices)
    BY <1>1 DEF PoolAligned, Types, PoolTypes
  <2>2. indices[slot] \in 1..Len(requests)
    BY <1>1, <2>1 DEF PoolAligned
  <2>3. requests[indices[slot]] \in Request /\ events = requests
    BY <2>2 DEF PoolAligned
  <2>4. requests \in Seq(Task)
    BY DEF Types, PoolTypes
  <2> QED BY <2>2, <2>3, <2>4 DEF Current
<1>2. ASSUME cuda_events # <<>> PROVE Front \in Task /\ Head(cuda_events) = cuda_events[1]
  <2>1. cuda_events \in Seq([event : Nat, task : Task])
    BY DEF Types, CudaTypes
  <2>2. Head(cuda_events) \in [event : Nat, task : Task] /\ Head(cuda_events) = cuda_events[1]
    BY <1>2, <2>1, HeadFacts
  <2> QED BY <2>2
<1> QED BY <1>1, <1>2 DEF PoolAligned

LEMMA CountTypesStep ==
  ASSUME Hypotheses, IInv, [Next]_vars
  PROVE  CountTypes'
<1>0. RequestsOnMpi /\ Types /\ WorkersMatch /\ PoolAligned /\ RecordsBehind
  BY DEF Hypotheses, IInv
<1>t. CountTypes /\ EventTypes /\ MainTypes
  BY <1>0 DEF Types
<1>1. CASE UNCHANGED <<post, pre>>
  BY <1>0, <1>1, <1>t DEF CountTypes
<1>2. CASE UNCHANGED vars
  BY <1>1, <1>2 DEF vars
<1>3. ASSUME NEW w \in Worker,
             (\E t \in Task : GatherReady(w, t)) \/ GatherNothing(w) \/ Compute(w)
             \/ PushRequest(w) \/ Yield(w) \/ PauseFollow(w) \/ PauseAppend(w) \/ SetResult(w)
             \/ WakeMain(w)
      PROVE  CountTypes'
  BY <1>1, <1>3
  DEF GatherReady, GatherNothing, Compute, PushRequest, Yield, PauseFollow, PauseAppend,
      SetResult, WakeMain, Goto
<1>4. ASSUME \/ PollNothing \/ Poll \/ PollStatus \/ Launch \/ CudaPollNothing \/ Emplace
             \/ EndOfProgram \/ EnterWaker \/ TestResult \/ Idle \/ TakeResult \/ Barrier
             \/ Stop \/ Join
      PROVE  CountTypes'
  BY <1>1, <1>4 DEF PollNothing, Poll, PollStatus, Launch, CudaPollNothing, Emplace, EndOfProgram,
      EnterWaker, TestResult, Idle, TakeResult, Barrier, Stop, Join, Goto, MainGoto, OnlyMain
<1>5. ASSUME NEW t \in Task, RequestCompletes(t) PROVE CountTypes'
  BY <1>1, <1>5 DEF RequestCompletes
<1>6. ASSUME NEW i \in DOMAIN streams, StreamStep(i) PROVE CountTypes'
  BY <1>1, <1>6 DEF StreamStep
<1>7. ASSUME NEW w \in Worker, NEW t \in Task, InitDependencies(w, t) PROVE CountTypes'
  <2>1. pre' = [pre EXCEPT ![t] = (pre[t] + Cardinality(Edges(t))) % 65536] /\ UNCHANGED post
    BY <1>7 DEF InitDependencies
  <2>2. pre[t] + Cardinality(Edges(t)) \in Nat
    BY <1>t, EdgesFinite DEF CountTypes
  <2>3. \A n \in Nat : Fits(n % 65536) /\ n % 65536 \in Nat
    BY DEF Fits
  <2> HIDE DEF Fits
  <2> QED BY <1>t, <2>1, <2>2, <2>3 DEF CountTypes
<1>8. ASSUME NEW w \in Worker, Execute(w) PROVE CountTypes'
  <2>1. cur[w] \in Task
    BY <1>0, <1>8, HeldFacts DEF Execute, TaskPC
  <2>2. UNCHANGED post /\ (UNCHANGED pre \/ ReachPre(cur[w]))
    BY <1>8 DEF Execute
  <2> QED BY <1>t, <2>1, <2>2, ReachPreTypes DEF CountTypes
<1>9. ASSUME NEW w \in Worker, GetStatus(w) PROVE CountTypes'
  <2>1. cur[w] \in Task
    BY <1>0, <1>9, HeldFacts DEF GetStatus, TaskPC
  <2>2. UNCHANGED pre /\ post' = [post EXCEPT ![cur[w]] = Up(post[cur[w]])]
    BY <1>9 DEF GetStatus, MakeEvent
  <2>3. Fits(Up(post[cur[w]])) /\ Up(post[cur[w]]) \in Nat
    BY <1>t, <2>1, UpFacts DEF CountTypes
  <2> QED BY <1>t, <2>1, <2>2, <2>3 DEF CountTypes
<1>10. ASSUME NEW w \in Worker, PauseReset(w) PROVE CountTypes'
  <2>1. cur[w] \in Task
    BY <1>0, <1>10, HeldFacts DEF PauseReset, TaskPC
  <2>2. UNCHANGED post /\ pre' = [pre EXCEPT ![cur[w]] = 1]
    BY <1>10 DEF PauseReset
  <2> QED BY <1>t, <2>1, <2>2, UpFacts DEF CountTypes
<1>11. ASSUME NEW w \in Worker, PauseCount(w) PROVE CountTypes'
  <2>1. cur[w] \in Task
    BY <1>0, <1>11, HeldFacts DEF PauseCount, TaskPC
  <2>2. UNCHANGED post /\ pre' = [pre EXCEPT ![cur[w]] = Up(pre[cur[w]])]
    BY <1>11 DEF PauseCount
  <2>3. Fits(Up(pre[cur[w]])) /\ Up(pre[cur[w]]) \in Nat
    BY <1>t, <2>1, UpFacts DEF CountTypes
  <2> QED BY <1>t, <2>1, <2>2, <2>3 DEF CountTypes
<1>12. ASSUME NEW w \in Worker, PauseUp(w) PROVE CountTypes'
  <2>1. cur[w] \in Task
    BY <1>0, <1>12, HeldFacts DEF PauseUp, TaskPC
  <2>2. UNCHANGED post /\ pre' = [pre EXCEPT ![cur[w]] = Up(pre[cur[w]])]
    BY <1>12 DEF PauseUp
  <2>3. Fits(Up(pre[cur[w]])) /\ Up(pre[cur[w]]) \in Nat
    BY <1>t, <2>1, UpFacts DEF CountTypes
  <2> QED BY <1>t, <2>1, <2>2, <2>3 DEF CountTypes
<1>13. ASSUME NEW w \in Worker, PauseNotify(w) PROVE CountTypes'
  BY <1>t, <1>13, NotifyPreTypes DEF PauseNotify, CountTypes
<1>14. ASSUME NEW w \in Worker, FinishTask(w) PROVE CountTypes'
  <2>1. cur[w] \in Task
    BY <1>0, <1>14, HeldFacts DEF FinishTask, TaskPC
  <2> QED BY <1>t, <1>14, <2>1, NotifyPostTypes DEF FinishTask
<1>15. CASE PollResume
  BY <1>t, <1>15, NotifyPreTypes DEF PollResume, CountTypes
<1>16. CASE PollErase
  <2>1. Current \in Task /\ NotifyPost(Current)
    BY <1>0, <1>16, PolledTasks DEF PollErase, Current, PollPC
  <2> QED BY <1>t, <2>1, NotifyPostTypes
<1>17. CASE RecordEvent
  <2>1. cur["cuda"] \in Task
    BY <1>0, <1>17, HeldFacts, WorkerFacts DEF RecordEvent, TaskPC
  <2>2. UNCHANGED pre /\ post' = [post EXCEPT ![cur["cuda"]] = Up(post[cur["cuda"]])]
    BY <1>17 DEF RecordEvent, MakeEvent
  <2>3. Fits(Up(post[cur["cuda"]])) /\ Up(post[cur["cuda"]]) \in Nat
    BY <1>t, <2>1, UpFacts DEF CountTypes
  <2> QED BY <1>t, <2>1, <2>2, <2>3 DEF CountTypes
<1>18. CASE LaunchedPre
  <2>1. cur["cuda"] \in Task
    BY <1>0, <1>18, HeldFacts, WorkerFacts DEF LaunchedPre, TaskPC
  <2>2. UNCHANGED post /\ ReachPre(cur["cuda"])
    BY <1>18 DEF LaunchedPre
  <2> QED BY <1>t, <2>1, <2>2, ReachPreTypes DEF CountTypes
<1>19. CASE CudaPoll
  <2>1. Front \in Task /\ NotifyPost(Front)
    BY <1>0, <1>19, PolledTasks DEF CudaPoll, FrontDone
  <2> QED BY <1>t, <2>1, NotifyPostTypes
<1> QED
  BY <1>2, <1>3, <1>4, <1>5, <1>6, <1>7, <1>8, <1>9, <1>10, <1>11, <1>12, <1>13, <1>14, <1>15,
     <1>16, <1>17, <1>18, <1>19
  DEF Next, WorkerStep, MpiStep, CudaStep, MainStep, Ended

LEMMA EventTypesStep ==
  ASSUME Hypotheses, IInv, [Next]_vars
  PROVE  EventTypes'
<1>0. /\ RequestsOnMpi /\ Types /\ WorkersMatch /\ PoolAligned /\ RecordsBehind
      /\ StreamsMatch /\ MainCounts
  BY DEF Hypotheses, IInv
<1>t. CountTypes /\ EventTypes /\ MainTypes
  BY <1>0 DEF Types
<1>1. CASE UNCHANGED <<emplaced, ext, followers, op, paused, ready, removal_countdown>>
  BY <1>0, <1>1, <1>t DEF EventTypes
<1>2. CASE UNCHANGED vars
  BY <1>1, <1>2 DEF vars
<1>3. ASSUME NEW w \in Worker,
             GatherNothing(w) \/ PushRequest(w) \/ Yield(w) \/ PauseReset(w)
             \/ PauseFollow(w) \/ PauseCount(w) \/ PauseUp(w) \/ SetResult(w) \/ WakeMain(w)
      PROVE  EventTypes'
  BY <1>1, <1>3
  DEF GatherNothing, PushRequest, Yield, PauseReset, PauseFollow, PauseCount, PauseUp,
      SetResult, WakeMain, Goto
<1>4. ASSUME \/ PollNothing \/ Poll \/ CudaPollNothing \/ EndOfProgram \/ EnterWaker
             \/ TestResult \/ Idle \/ Barrier \/ Stop \/ Join
      PROVE  EventTypes'
  BY <1>1, <1>4
  DEF PollNothing, Poll, CudaPollNothing, EndOfProgram, EnterWaker, TestResult, Idle, Barrier,
      Stop, Join, Goto, MainGoto, OnlyMain
<1>5. ASSUME NEW w \in Worker, NEW t \in Task, GatherReady(w, t) PROVE EventTypes'
  <2>2. ready' = [ready EXCEPT ![t] = ready[t] - 1]
    BY <1>5 DEF GatherReady
  <2>3. UNCHANGED <<followers, removal_countdown, paused, ext, emplaced, op>>
    BY <1>5 DEF GatherReady, OnlyMain
  <2> QED BY <1>t, <2>2, <2>3 DEF EventTypes
<1>6. ASSUME NEW w \in Worker, NEW t \in Task, InitDependencies(w, t) PROVE EventTypes'
  <2>1. followers' \in [Task -> [{"pre", "post"} -> SUBSET Task]]
    <3>1. followers' = [p \in Task |-> [e \in {"pre", "post"} |->
            IF <<p, e>> \in Edges(t) THEN followers[p][e] \union {t} ELSE followers[p][e]]]
      BY <1>6 DEF InitDependencies
    <3>2. followers \in [Task -> [{"pre", "post"} -> SUBSET Task]]
      BY <1>t DEF EventTypes
    <3> QED BY <3>1, <3>2
  <2>2. emplaced' = emplaced \ {t} /\ UNCHANGED <<removal_countdown, ext, paused, op, ready>>
    BY <1>6 DEF InitDependencies
  <2> QED BY <1>t, <2>1, <2>2 DEF EventTypes
<1>7. ASSUME NEW w \in Worker, Execute(w) PROVE EventTypes'
  <2>0. cur[w] \in Task /\ ready \in [Task -> Int]
    BY <1>0, <1>t, <1>7, HeldFacts DEF Execute, TaskPC, EventTypes
  <2>1. ready' \in [Task -> Int]
    BY <1>t, <1>7, <2>0, ReachPreTypes DEF Execute
  <2>2. UNCHANGED <<followers, removal_countdown, ext, paused, op, emplaced>>
    BY <1>7 DEF Execute
  <2> QED BY <1>t, <2>1, <2>2 DEF EventTypes
<1>8. ASSUME NEW w \in Worker, Compute(w) PROVE EventTypes'
  <2>1. cur[w] \in Task
    BY <1>0, <1>8, HeldFacts DEF Compute, TaskPC
  <2>2. \/ op' = [op EXCEPT ![cur[w]] = "running"]
        \/ op' = [op EXCEPT ![cur[w]] = "done"]
    BY <1>8 DEF Compute
  <2>3. UNCHANGED <<followers, removal_countdown, paused, ext, emplaced, ready>>
    BY <1>8 DEF Compute, OnlyMain
  <2> QED BY <1>t, <2>1, <2>2, <2>3 DEF EventTypes
<1>9. ASSUME NEW w \in Worker, GetStatus(w) PROVE EventTypes'
  <2>1. cur[w] \in Task
    BY <1>0, <1>9, HeldFacts DEF GetStatus, TaskPC
  <2>2. op' = [op EXCEPT ![cur[w]] = "running"] /\ ext' = [ext EXCEPT ![cur[w]] = "pending"]
    BY <1>9 DEF GetStatus, MakeEvent
  <2>3. UNCHANGED <<followers, removal_countdown, paused, emplaced, ready>>
    BY <1>9 DEF GetStatus, OnlyMain
  <2> QED BY <1>t, <2>1, <2>2, <2>3 DEF EventTypes
<1>10. ASSUME NEW w \in Worker, PauseAppend(w) PROVE EventTypes'
  <2>1. cur[w] \in Task
    BY <1>0, <1>10, HeldFacts DEF PauseAppend, TaskPC
  <2>2. paused' = [paused EXCEPT ![cur[w]] = TRUE]
    BY <1>10 DEF PauseAppend
  <2>3. UNCHANGED <<followers, removal_countdown, ext, op, emplaced, ready>>
    BY <1>10 DEF PauseAppend, OnlyMain
  <2> QED BY <1>t, <2>1, <2>2, <2>3 DEF EventTypes
<1>11. ASSUME NEW w \in Worker, PauseNotify(w) PROVE EventTypes'
  <2>1. ready' \in [Task -> Int]
    BY <1>t, <1>11, NotifyPreTypes DEF PauseNotify
  <2>2. UNCHANGED <<followers, removal_countdown, ext, paused, op, emplaced>>
    BY <1>11 DEF PauseNotify
  <2> QED BY <1>t, <2>1, <2>2 DEF EventTypes
<1>12. ASSUME NEW w \in Worker, FinishTask(w) PROVE EventTypes'
  <2>1. cur[w] \in Task /\ NotifyPost(cur[w])
    BY <1>0, <1>12, HeldFacts DEF FinishTask, TaskPC
  <2>2. ready' \in [Task -> Int] /\ removal_countdown' \in [Task -> Int]
    BY <1>t, <2>1, NotifyPostTypes
  <2>3. UNCHANGED <<followers, ext, paused, op, emplaced>>
    BY <1>12 DEF FinishTask
  <2> QED BY <1>t, <2>2, <2>3 DEF EventTypes
<1>13. CASE PollStatus
  <2>1. Current \in Task
    BY <1>0, <1>13, PolledTasks DEF PollStatus, PollPC
  <2>2. ext' = [ext EXCEPT ![Current] = "reached"]
    BY <1>13 DEF PollStatus, Current
  <2>3. UNCHANGED <<followers, removal_countdown, paused, op, emplaced, ready>>
    BY <1>13 DEF PollStatus, OnlyMain
  <2> QED BY <1>t, <2>1, <2>2, <2>3 DEF EventTypes
<1>14. CASE PollResume
  <2>1. ready' \in [Task -> Int]
    BY <1>t, <1>14, NotifyPreTypes DEF PollResume
  <2>2. UNCHANGED <<followers, removal_countdown, ext, paused, op, emplaced>>
    BY <1>14 DEF PollResume
  <2> QED BY <1>t, <2>1, <2>2 DEF EventTypes
<1>15. CASE PollErase
  <2>1. Current \in Task /\ NotifyPost(Current)
    BY <1>0, <1>15, PolledTasks DEF PollErase, Current, PollPC
  <2>2. ready' \in [Task -> Int] /\ removal_countdown' \in [Task -> Int]
    BY <1>t, <2>1, NotifyPostTypes
  <2>3. UNCHANGED <<followers, ext, paused, op, emplaced>>
    BY <1>15 DEF PollErase
  <2> QED BY <1>t, <2>2, <2>3 DEF EventTypes
<1>16. CASE Launch
  <2>1. cur["cuda"] \in Task
    BY <1>0, <1>16, HeldFacts, WorkerFacts DEF Launch, TaskPC
  <2>2. op' = [op EXCEPT ![cur["cuda"]] = "queued"]
    BY <1>16 DEF Launch
  <2>3. UNCHANGED <<followers, removal_countdown, paused, ext, emplaced, ready>>
    BY <1>16 DEF Launch, OnlyMain
  <2> QED BY <1>t, <2>1, <2>2, <2>3 DEF EventTypes
<1>17. CASE RecordEvent
  <2>1. cur["cuda"] \in Task
    BY <1>0, <1>17, HeldFacts, WorkerFacts DEF RecordEvent, TaskPC
  <2>2. ext' = [ext EXCEPT ![cur["cuda"]] = "pending"]
    BY <1>17 DEF RecordEvent, MakeEvent
  <2>3. UNCHANGED <<followers, removal_countdown, paused, op, emplaced, ready>>
    BY <1>17 DEF RecordEvent, OnlyMain
  <2> QED BY <1>t, <2>1, <2>2, <2>3 DEF EventTypes
<1>18. CASE LaunchedPre
  <2>0. cur["cuda"] \in Task
    BY <1>0, <1>18, HeldFacts, WorkerFacts DEF LaunchedPre, TaskPC
  <2>1. ready' \in [Task -> Int]
    BY <1>t, <1>18, <2>0, ReachPreTypes DEF LaunchedPre
  <2>2. UNCHANGED <<followers, removal_countdown, ext, paused, op, emplaced>>
    BY <1>18 DEF LaunchedPre
  <2> QED BY <1>t, <2>1, <2>2 DEF EventTypes
<1>19. CASE CudaPoll
  <2>1. Front \in Task /\ NotifyPost(Front)
    BY <1>0, <1>19, PolledTasks DEF CudaPoll, FrontDone
  <2>2. ready' \in [Task -> Int] /\ removal_countdown' \in [Task -> Int]
    BY <1>t, <2>1, NotifyPostTypes
  <2>3. UNCHANGED <<followers, paused, op, emplaced>>
    BY <1>19 DEF CudaPoll
  <2>4. ext' = [ext EXCEPT ![Front] = "reached"]
    BY <1>19 DEF CudaPoll
  <2> QED BY <1>t, <2>1, <2>2, <2>3, <2>4 DEF EventTypes
<1>20. ASSUME NEW t \in Task, RequestCompletes(t) PROVE EventTypes'
  <2>2. op' = [op EXCEPT ![t] = "done"]
    BY <1>20 DEF RequestCompletes
  <2>3. UNCHANGED <<followers, removal_countdown, paused, ext, emplaced, ready>>
    BY <1>20 DEF RequestCompletes, OnlyMain
  <2> QED BY <1>t, <2>2, <2>3 DEF EventTypes
<1>21. ASSUME NEW i \in DOMAIN streams, StreamStep(i) PROVE EventTypes'
  <2>1. PICK k \in Task \union {NoTask} :
          \/ op' = op
          \/ k \in Task /\ \E v \in {"running", "done"} : op' = [op EXCEPT ![k] = v]
    <3>1. streams[i] \in Seq(Operation) /\ streams[i] # <<>>
      BY <1>0, <1>21 DEF StreamStep, Types, CudaTypes
    <3>2. Head(streams[i]) = streams[i][1] /\ 1 \in DOMAIN streams[i]
      BY <3>1, HeadFacts
    <3>3. Head(streams[i]).kind = "kernel" => Head(streams[i]).id \in Task
      BY <1>0, <3>2 DEF StreamsMatch, Types, CudaTypes
    <3> QED BY <1>21, <3>3 DEF StreamStep
  <2>2. UNCHANGED <<followers, removal_countdown, ext, paused, emplaced, ready>>
    BY <1>21 DEF StreamStep
  <2> QED BY <1>t, <2>1, <2>2 DEF EventTypes
<1>22. CASE Emplace
  <2>1. main.t \in Task /\ emplaced' = emplaced \union {main.t}
        /\ (UNCHANGED removal_countdown
            \/ removal_countdown' = [removal_countdown EXCEPT ![main.t] = removal_countdown[main.t] - 1])
    BY <1>22 DEF Emplace
  <2>2. UNCHANGED <<followers, ext, paused, op, ready>>
    BY <1>22 DEF Emplace, OnlyMain
  <2> QED BY <1>t, <2>1, <2>2 DEF EventTypes
<1>23. CASE TakeResult
  <2>1. main.t \in Task /\ CountDown(main.t)
    BY <1>0, <1>23 DEF TakeResult, MainCounts
  <2>2. removal_countdown' \in [Task -> Int]
    BY <1>t, <2>1, CountDownTypes
  <2>3. UNCHANGED <<followers, ext, paused, op, emplaced, ready>>
    BY <1>23 DEF TakeResult, OnlyMain
  <2> QED BY <1>t, <2>2, <2>3 DEF EventTypes
<1> QED
  BY <1>2, <1>3, <1>4, <1>5, <1>6, <1>7, <1>8, <1>9, <1>10, <1>11, <1>12, <1>13, <1>14, <1>15,
     <1>16, <1>17, <1>18, <1>19, <1>20, <1>21, <1>22, <1>23
  DEF Next, WorkerStep, MpiStep, CudaStep, MainStep, Ended

LEMMA WorkTypesStep ==
  ASSUME Hypotheses, IInv, [Next]_vars
  PROVE  WorkTypes'
<1>0. Types
  BY DEF Hypotheses, IInv
<1>t. WorkTypes
  BY <1>0 DEF Types
<1>1. CASE UNCHANGED <<back, cur, pc>>
  BY <1>0, <1>1, <1>t DEF WorkTypes
<1>2. CASE UNCHANGED vars
  BY <1>1, <1>2 DEF vars
<1>3. ASSUME \/ Emplace \/ EndOfProgram \/ EnterWaker \/ TestResult \/ Idle \/ TakeResult
             \/ Barrier \/ Stop \/ Join
      PROVE  WorkTypes'
  BY <1>1, <1>3
  DEF Emplace, EndOfProgram, EnterWaker, TestResult, Idle, TakeResult, Barrier, Stop, Join,
      MainGoto, OnlyMain
<1>4. ASSUME NEW t \in Task, RequestCompletes(t) PROVE WorkTypes'
  BY <1>1, <1>4 DEF RequestCompletes
<1>5. ASSUME NEW i \in DOMAIN streams, StreamStep(i) PROVE WorkTypes'
  BY <1>1, <1>5 DEF StreamStep
<1>6. ASSUME NEW w \in Worker, NEW t \in Task, GatherReady(w, t) PROVE WorkTypes'
  BY <1>0, <1>6, <1>t, WorkerFacts DEF GatherReady, Goto, Mine, WorkTypes, WorkerPC
<1>7. ASSUME NEW w \in Worker, NEW t \in Task, InitDependencies(w, t) PROVE WorkTypes'
  BY <1>0, <1>7, <1>t, WorkerFacts DEF InitDependencies, Goto, Mine, WorkTypes, WorkerPC
<1>8. ASSUME NEW w \in Worker, GatherNothing(w) PROVE WorkTypes'
  BY <1>0, <1>8, <1>t, WorkerFacts DEF GatherNothing, Goto, TestStop, WorkTypes, WorkerPC
<1>9. ASSUME NEW w \in Worker, Execute(w) PROVE WorkTypes'
  BY <1>0, <1>9, <1>t, WorkerFacts DEF Execute, Goto, WorkTypes, WorkerPC
<1>10. ASSUME NEW w \in Worker, Compute(w) PROVE WorkTypes'
  BY <1>0, <1>10, <1>t, WorkerFacts DEF Compute, Goto, WorkTypes, WorkerPC
<1>11. ASSUME NEW w \in Worker, GetStatus(w) PROVE WorkTypes'
  BY <1>0, <1>11, <1>t, WorkerFacts DEF GetStatus, Goto, MakeEvent, WorkTypes, WorkerPC
<1>12. ASSUME NEW w \in Worker, PushRequest(w) PROVE WorkTypes'
  BY <1>0, <1>12, <1>t, WorkerFacts DEF PushRequest, Goto, WorkTypes, WorkerPC
<1>13. ASSUME NEW w \in Worker, Yield(w) PROVE WorkTypes'
  BY <1>0, <1>13, <1>t, WorkerFacts DEF Yield, Goto, WorkTypes, WorkerPC
<1>14. ASSUME NEW w \in Worker, PauseReset(w) PROVE WorkTypes'
  BY <1>0, <1>14, <1>t, WorkerFacts DEF PauseReset, Goto, WorkTypes, WorkerPC
<1>15. ASSUME NEW w \in Worker, PauseFollow(w) PROVE WorkTypes'
  BY <1>0, <1>15, <1>t, WorkerFacts DEF PauseFollow, Goto, WorkTypes, WorkerPC
<1>16. ASSUME NEW w \in Worker, PauseAppend(w) PROVE WorkTypes'
  BY <1>0, <1>16, <1>t, WorkerFacts DEF PauseAppend, Goto, WorkTypes, WorkerPC
<1>17. ASSUME NEW w \in Worker, PauseCount(w) PROVE WorkTypes'
  BY <1>0, <1>17, <1>t, WorkerFacts DEF PauseCount, Goto, WorkTypes, WorkerPC
<1>18. ASSUME NEW w \in Worker, PauseUp(w) PROVE WorkTypes'
  BY <1>0, <1>18, <1>t, WorkerFacts DEF PauseUp, Goto, WorkTypes, WorkerPC
<1>19. ASSUME NEW w \in Worker, PauseNotify(w) PROVE WorkTypes'
  BY <1>0, <1>19, <1>t, WorkerFacts DEF PauseNotify, Goto, AfterTask, WorkTypes, WorkerPC
<1>20. ASSUME NEW w \in Worker, SetResult(w) PROVE WorkTypes'
  BY <1>0, <1>20, <1>t, WorkerFacts DEF SetResult, Goto, WorkTypes, WorkerPC
<1>21. ASSUME NEW w \in Worker, WakeMain(w) PROVE WorkTypes'
  BY <1>0, <1>21, <1>t, WorkerFacts DEF WakeMain, Goto, WorkTypes, WorkerPC
<1>22. ASSUME NEW w \in Worker, FinishTask(w) PROVE WorkTypes'
  BY <1>0, <1>22, <1>t, WorkerFacts DEF FinishTask, Goto, AfterTask, WorkTypes, WorkerPC
<1>23. CASE PollNothing
  BY <1>0, <1>23, <1>t, WorkerFacts DEF PollNothing, Goto, AfterPoll, TestStop, WorkTypes, WorkerPC
<1>24. CASE Poll
  BY <1>0, <1>24, <1>t, WorkerFacts DEF Poll, Goto, WorkTypes, WorkerPC
<1>25. CASE PollStatus
  BY <1>0, <1>25, <1>t, WorkerFacts DEF PollStatus, Goto, WorkTypes, WorkerPC
<1>26. CASE PollResume
  BY <1>0, <1>26, <1>t, WorkerFacts DEF PollResume, Goto, WorkTypes, WorkerPC
<1>27. CASE PollErase
  BY <1>0, <1>27, <1>t, WorkerFacts DEF PollErase, Goto, AfterPoll, TestStop, WorkTypes, WorkerPC
<1>28. CASE Launch
  BY <1>0, <1>28, <1>t, WorkerFacts DEF Launch, Goto, WorkTypes, WorkerPC
<1>29. CASE RecordEvent
  BY <1>0, <1>29, <1>t, WorkerFacts DEF RecordEvent, Goto, MakeEvent, WorkTypes, WorkerPC
<1>30. CASE LaunchedPre
  BY <1>0, <1>30, <1>t, WorkerFacts DEF LaunchedPre, Goto, WorkTypes, WorkerPC
<1>31. CASE CudaPollNothing
  BY <1>0, <1>31, <1>t, WorkerFacts
  DEF CudaPollNothing, Goto, AfterPoll, TestStop, WorkTypes, WorkerPC
<1>32. CASE CudaPoll
  BY <1>0, <1>32, <1>t, WorkerFacts DEF CudaPoll, Goto, AfterPoll, TestStop, WorkTypes, WorkerPC
<1> QED
  BY <1>2, <1>3, <1>4, <1>5, <1>6, <1>7, <1>8, <1>9, <1>10, <1>11, <1>12, <1>13, <1>14, <1>15,
     <1>16, <1>17, <1>18, <1>19, <1>20, <1>21, <1>22, <1>23, <1>24, <1>25, <1>26, <1>27, <1>28,
     <1>29, <1>30, <1>31, <1>32
  DEF Next, WorkerStep, MpiStep, CudaStep, MainStep, Ended

LEMMA EraseFacts ==
  ASSUME NEW S, NEW s \in Seq(S), NEW i \in 1..Len(s)
  PROVE  /\ Erase(s, i) \in Seq(S) /\ Len(Erase(s, i)) = Len(s) - 1
         /\ \A j \in 1..(Len(s) - 1) : Erase(s, i)[j] = IF j < i THEN s[j] ELSE s[j + 1]
<1>1. Len(s) \in Nat
  OBVIOUS
<1> DEFINE a == SubSeq(s, 1, i - 1)
           b == SubSeq(s, i + 1, Len(s))
<1>2. a \in Seq(S) /\ Len(a) = i - 1 /\ \A j \in 1..(i - 1) : a[j] = s[j]
  BY <1>1, SubSeqProperties
<1>3. b \in Seq(S) /\ Len(b) = Len(s) - i /\ \A j \in 1..(Len(s) - i) : b[j] = s[i + j]
  BY <1>1, SubSeqProperties
<1> HIDE DEF a, b
<1>4. /\ a \o b \in Seq(S) /\ Len(a \o b) = Len(s) - 1
      /\ \A j \in 1..(Len(s) - 1) : (a \o b)[j] = IF j <= i - 1 THEN a[j] ELSE b[j - (i - 1)]
  <2>1. /\ a \o b \in Seq(S) /\ Len(a \o b) = Len(a) + Len(b)
        /\ \A j \in 1..(Len(a) + Len(b)) : (a \o b)[j] = IF j <= Len(a) THEN a[j] ELSE b[j - Len(a)]
    BY ZenonT(60), <1>2, <1>3, ConcatProperties
  <2>2. Len(a) + Len(b) = Len(s) - 1
    BY <1>1, <1>2, <1>3
  <2> QED BY <1>2, <2>1, <2>2
<1>5. \A j \in 1..(Len(s) - 1) : (a \o b)[j] = IF j < i THEN s[j] ELSE s[j + 1]
  <2> TAKE j \in 1..(Len(s) - 1)
  <2>1. CASE j < i
    BY <1>1, <1>2, <1>4, <2>1
  <2>2. CASE ~ (j < i)
    <3>1. j - (i - 1) \in 1..(Len(s) - i) /\ i + (j - (i - 1)) = j + 1
      BY <1>1, <2>2
    <3>2. b[j - (i - 1)] = s[j + 1]
      BY <1>3, <3>1
    <3> QED BY <1>1, <1>4, <2>2, <3>2
  <2> QED BY <2>1, <2>2
<1>6. Erase(s, i) = a \o b
  BY DEF Erase, a, b
<1> QED BY <1>4, <1>5, <1>6

\* What MPI_Testsome returns.
LEMMA PollFacts ==
  ASSUME Types, NEW s \in Testsome
  PROVE  /\ s \in Seq(Nat) /\ Len(s) \in Nat /\ Len(s) >= 1 /\ DOMAIN s = 1..Len(s)
         /\ \A j \in 1..Len(s) : s[j] \in 1..Len(requests) /\ op[requests[s[j]]] = "done"
         /\ \A j, k \in 1..Len(s) : s[j] = s[k] => j = k
         /\ [i \in DOMAIN s |-> requests[s[i]]] \in Seq(Task)
         /\ Len([i \in DOMAIN s |-> requests[s[i]]]) = Len(s)
<1>1. PICK n \in 1..Cardinality(Completed) : s \in [1..n -> Completed]
  BY DEF Testsome
<1>2. \A j, k \in DOMAIN s : s[j] = s[k] => j = k
  BY DEF Testsome
<1>3. requests \in Seq(Task) /\ Len(requests) \in Nat
  BY DEF Types, PoolTypes
<1>4. Cardinality(Completed) \in Nat
  <2>1. IsFiniteSet(1..Len(requests)) /\ Completed \in SUBSET (1..Len(requests))
    BY <1>3, FS_Interval DEF Completed
  <2> QED BY <2>1, FS_Subset, FS_CardinalityType
<1>5. n \in Nat /\ n >= 1
  BY <1>4
<1>6. \A j \in 1..n : s[j] \in 1..Len(requests) /\ op[requests[s[j]]] = "done"
  BY <1>1 DEF Completed
<1>7. s \in [1..n -> Nat] /\ DOMAIN s = 1..n
  BY <1>1, <1>3 DEF Completed
<1>8. s \in Seq(Nat) /\ Len(s) = n
  BY <1>5, <1>7
<1> DEFINE o == [i \in DOMAIN s |-> requests[s[i]]]
<1>9. o \in [1..n -> Task]
  BY <1>3, <1>6, <1>7
<1>10. o \in Seq(Task) /\ Len(o) = n
  BY <1>5, <1>9
<1> QED BY <1>2, <1>5, <1>6, <1>7, <1>8, <1>10

LEMMA PoolTypesStep ==
  ASSUME Hypotheses, IInv, [Next]_vars
  PROVE  PoolTypes'
<1>0. RequestsOnMpi /\ Types /\ WorkersMatch /\ PoolAligned /\ RecordsBehind
  BY DEF Hypotheses, IInv
<1>t. PoolTypes
  BY <1>0 DEF Types
<1>1. CASE UNCHANGED <<indices, out_statuses, requests, slot, status>>
  BY <1>0, <1>1, <1>t DEF PoolTypes
<1>2. CASE UNCHANGED vars
  BY <1>1, <1>2 DEF vars
<1>3. ASSUME NEW w \in Worker,
             (\E t \in Task : GatherReady(w, t)) \/ (\E t \in Task : InitDependencies(w, t))
             \/ GatherNothing(w) \/ Execute(w) \/ Compute(w) \/ GetStatus(w) \/ Yield(w)
             \/ PauseReset(w) \/ PauseFollow(w) \/ PauseAppend(w) \/ PauseCount(w) \/ PauseUp(w)
             \/ PauseNotify(w) \/ SetResult(w) \/ WakeMain(w) \/ FinishTask(w)
      PROVE  PoolTypes'
  BY <1>1, <1>3
  DEF GatherReady, InitDependencies, GatherNothing, Execute, Compute, GetStatus, Yield,
      PauseReset, PauseFollow, PauseAppend, PauseCount, PauseUp, PauseNotify, SetResult,
      WakeMain, FinishTask, AfterTask, Goto, MakeEvent
<1>4. ASSUME \/ PollNothing \/ PollResume \/ Launch \/ RecordEvent \/ LaunchedPre
             \/ CudaPollNothing \/ CudaPoll \/ Emplace \/ EndOfProgram \/ EnterWaker
             \/ TestResult \/ Idle \/ TakeResult \/ Barrier \/ Stop \/ Join
      PROVE  PoolTypes'
  BY <1>1, <1>4
  DEF PollNothing, PollResume, Launch, RecordEvent, LaunchedPre, CudaPollNothing, CudaPoll,
      Emplace, EndOfProgram, EnterWaker, TestResult, Idle, TakeResult, Barrier, Stop, Join,
      Goto, MainGoto, MakeEvent, OnlyMain
<1>5. ASSUME NEW t \in Task, RequestCompletes(t) PROVE PoolTypes'
  BY <1>1, <1>5 DEF RequestCompletes
<1>6. ASSUME NEW i \in DOMAIN streams, StreamStep(i) PROVE PoolTypes'
  BY <1>1, <1>6 DEF StreamStep
<1>7. ASSUME NEW w \in Worker, PushRequest(w) PROVE PoolTypes'
  <2>1. HasTask(w)
    BY <1>0, <1>7, HeldFacts DEF PushRequest, TaskPC
  <2>2. /\ pc[w] = "push" /\ mutex = "free"
        /\ requests' = Append(requests, cur[w])
        /\ UNCHANGED <<out_statuses, indices, slot, status>>
    BY <1>7 DEF PushRequest, Goto
  <2> QED BY <1>0, <2>1, <2>2, <1>t, AppendFacts DEF PoolTypes
<1>8. CASE Poll
  <2>1. PICK s \in Testsome : indices' = s /\ out_statuses' = [i \in DOMAIN s |-> requests[s[i]]]
    BY <1>8 DEF Poll
  <2>2. s \in Seq(Nat) /\ [i \in DOMAIN s |-> requests[s[i]]] \in Seq(Task)
    BY <1>0, PollFacts
  <2>3. slot' = 1 /\ UNCHANGED <<requests, status>>
    BY <1>8 DEF Poll
  <2> QED BY <1>t, <2>1, <2>2, <2>3 DEF PoolTypes
<1>9. CASE PollStatus
  <2>1. status' = [status EXCEPT ![statuses[indices[slot]]] = out_statuses[slot]]
    BY <1>9 DEF PollStatus, OutStatus
  <2>2. slot \in 1..Len(out_statuses)
    BY <1>0, <1>9 DEF PollStatus, PoolAligned, PollPC
  <2>3. out_statuses[slot] \in Task
    BY <1>t, <2>2 DEF PoolTypes
  <2>4. UNCHANGED <<requests, out_statuses, indices, slot>>
    BY <1>9 DEF PollStatus
  <2> QED BY <1>t, <2>1, <2>3, <2>4 DEF PoolTypes
<1>10. CASE PollErase
  <2>1. Polled
    BY <1>0, <1>10, PolledTasks DEF PollErase, PollPC
  <2>2. /\ pc["mpi"] = "erase"
        /\ requests' = Erase(requests, indices[slot])
        /\ out_statuses' = (IF slot = Len(indices) THEN <<>> ELSE out_statuses)
        /\ indices' = (IF slot = Len(indices) THEN <<>> ELSE Shift(indices[slot]))
        /\ slot' = (IF slot = Len(indices) THEN 1 ELSE slot + 1)
        /\ UNCHANGED <<status>>
    BY <1>10 DEF PollErase, Goto, AfterPoll, TestStop, Current
  <2>4. Erase(requests, indices[slot]) \in Seq(Task)
    BY <1>t, <2>1, EraseFacts DEF PoolTypes
  <2>5. Shift(indices[slot]) \in Seq(Nat)
    <3>1. indices \in Seq(Nat) /\ indices[slot] \in Nat /\ slot \in Nat /\ Len(requests) \in Nat
      BY <1>t, <2>1 DEF PoolTypes
    <3>2. \A j \in DOMAIN indices : indices[j] \in Nat
      BY <3>1
    <3>3. Shift(indices[slot]) \in [DOMAIN indices -> Nat]
      BY SMTT(60), <3>1, <3>2 DEF Shift
    <3>4. DOMAIN indices = 1..Len(indices) /\ Len(indices) \in Nat
      BY <3>1
    <3> QED BY <3>3, <3>4
  <2>6. <<>> \in Seq(Nat) /\ <<>> \in Seq(Task)
    OBVIOUS
  <2> QED BY <1>t, <2>2, <2>4, <2>5, <2>6 DEF PoolTypes
<1> QED BY <1>2, <1>3, <1>4, <1>5, <1>6, <1>7, <1>8, <1>9, <1>10
  DEF Next, WorkerStep, MpiStep, CudaStep, MainStep, Ended

LEMMA CudaTypesStep ==
  ASSUME Hypotheses, IInv, [Next]_vars
  PROVE  CudaTypes'
<1>0. RequestsOnMpi /\ Types /\ WorkersMatch /\ StreamsMatch /\ HeldProgress
  BY DEF Hypotheses, IInv
<1>t. CudaTypes
  BY <1>0 DEF Types
<1>1. CASE UNCHANGED <<created, cuda_events, next_stream, stream_idx, streams, unused>>
  BY <1>0, <1>1, <1>t DEF CudaTypes
<1>2. CASE UNCHANGED vars
  BY <1>1, <1>2 DEF vars
<1>3. ASSUME NEW w \in Worker,
             (\E t \in Task : GatherReady(w, t)) \/ (\E t \in Task : InitDependencies(w, t))
             \/ GatherNothing(w) \/ Execute(w) \/ Compute(w) \/ GetStatus(w) \/ PushRequest(w)
             \/ Yield(w) \/ PauseReset(w) \/ PauseFollow(w) \/ PauseAppend(w) \/ PauseCount(w)
             \/ PauseUp(w) \/ PauseNotify(w) \/ SetResult(w) \/ WakeMain(w) \/ FinishTask(w)
      PROVE  CudaTypes'
  BY <1>1, <1>3
  DEF GatherReady, InitDependencies, GatherNothing, Execute, Compute, GetStatus, PushRequest,
      Yield, PauseReset, PauseFollow, PauseAppend, PauseCount, PauseUp, PauseNotify, SetResult,
      WakeMain, FinishTask, AfterTask, Goto, MakeEvent
<1>4. ASSUME \/ PollNothing \/ Poll \/ PollStatus \/ PollResume \/ PollErase \/ LaunchedPre
             \/ CudaPollNothing \/ Emplace \/ EndOfProgram \/ EnterWaker \/ TestResult \/ Idle
             \/ TakeResult \/ Barrier \/ Stop \/ Join
      PROVE  CudaTypes'
  BY <1>1, <1>4
  DEF PollNothing, Poll, PollStatus, PollResume, PollErase, LaunchedPre, CudaPollNothing,
      Emplace, EndOfProgram, EnterWaker, TestResult, Idle, TakeResult, Barrier, Stop, Join,
      Goto, MainGoto, OnlyMain
<1>5. ASSUME NEW t \in Task, RequestCompletes(t) PROVE CudaTypes'
  BY <1>1, <1>5 DEF RequestCompletes
<1>6. CASE Launch
  <2>1. CudaHasTask
    BY <1>0, <1>6, HeldFacts, WorkerFacts DEF Launch, TaskPC
  <2>2. /\ pc["cuda"] = "body"
        /\ streams' = [streams EXCEPT ![next_stream % NumStreams] =
             Append(streams[next_stream % NumStreams], Kernel(cur["cuda"]))]
        /\ stream_idx' = [stream_idx EXCEPT ![cur["cuda"]] = next_stream % NumStreams]
        /\ next_stream' = next_stream + 1
        /\ UNCHANGED <<cuda_events, unused, created>>
    BY <1>6 DEF Launch, Goto
  <2>4. next_stream % NumStreams \in 0..(NumStreams - 1)
    BY <1>t, DispatchAssumption DEF CudaTypes
  <2>5. Kernel(cur["cuda"]) \in Operation
    BY <2>1, TaskFacts DEF Kernel, Operation
  <2>6. Append(streams[next_stream % NumStreams], Kernel(cur["cuda"])) \in Seq(Operation)
    BY <1>t, <2>4, <2>5, AppendFacts DEF CudaTypes
  <2> HIDE DEF Operation
  <2> QED BY <1>t, <2>1, <2>2, <2>4, <2>6 DEF CudaTypes
<1>7. CASE RecordEvent
  <2>1. CudaHasTask
    BY <1>0, <1>7, HeldFacts, WorkerFacts DEF RecordEvent, TaskPC
  <2>2. /\ pc["cuda"] = "record"
        /\ streams' = [streams EXCEPT ![stream_idx[cur["cuda"]]] =
             Append(streams[stream_idx[cur["cuda"]]], Record(Allocated))]
        /\ cuda_events' = Append(cuda_events, [event |-> Allocated, task |-> cur["cuda"]])
        /\ UNCHANGED <<stream_idx, next_stream>>
    BY <1>7 DEF RecordEvent, Goto, MakeEvent
  <2>4. /\ Allocated \in Nat /\ created' \in Nat /\ unused' \in Seq(Nat)
    <3>1. unused \in Seq(Nat) /\ created \in Nat
      BY <1>t DEF CudaTypes
    <3>2. CASE unused = <<>>
      <4>1. created' = created + 1 /\ UNCHANGED unused
        BY <1>7, <3>2 DEF RecordEvent
      <4> QED BY <3>1, <3>2, <4>1 DEF Allocated
    <3>3. CASE unused # <<>>
      <4>1. unused' = SubSeq(unused, 1, Len(unused) - 1) /\ UNCHANGED created
        BY <1>7, <3>3 DEF RecordEvent
      <4>2. Len(unused) \in Nat /\ Len(unused) \in 1..Len(unused)
        BY <3>1, <3>3, HeadFacts
      <4>3. unused[Len(unused)] \in Nat
        BY <3>1, <4>2
      <4>4. SubSeq(unused, 1, Len(unused) - 1) \in Seq(Nat)
        BY <3>1, <4>2, SubSeqProperties
      <4> QED BY <3>1, <3>3, <4>1, <4>3, <4>4 DEF Allocated
    <3> QED BY <3>2, <3>3
  <2>5. Record(Allocated) \in Operation
    BY <2>4 DEF Record, Operation
  <2>6. stream_idx[cur["cuda"]] \in 0..(NumStreams - 1)
    <3>1. stream_idx[cur["cuda"]] \in {NoStream} \union 0..(NumStreams - 1)
      BY <1>t, <2>1 DEF CudaTypes
    <3>2. stream_idx[cur["cuda"]] # NoStream
      BY <1>0, <2>1, <2>2, WorkerFacts DEF HeldProgress, StreamsMatch
    <3> QED BY <3>1, <3>2
  <2>7. Append(streams[stream_idx[cur["cuda"]]], Record(Allocated)) \in Seq(Operation)
    BY <1>t, <2>5, <2>6, AppendFacts DEF CudaTypes
  <2>8. [event |-> Allocated, task |-> cur["cuda"]] \in [event : Nat, task : Task]
    BY <2>1, <2>4
  <2>9. cuda_events' \in Seq([event : Nat, task : Task])
    BY <1>t, <2>2, <2>8, AppendFacts DEF CudaTypes
  <2>10. streams' \in [0..(NumStreams - 1) -> Seq(Operation)]
    BY <1>t, <2>2, <2>6, <2>7 DEF CudaTypes
  <2>11. UNCHANGED <<stream_idx, next_stream>>
    BY <1>7 DEF RecordEvent
  <2> QED BY <1>t, <2>4, <2>9, <2>10, <2>11 DEF CudaTypes
<1>8. CASE CudaPoll
  <2>1. cuda_events # <<>> /\ unused' = Append(unused, Head(cuda_events).event) /\ cuda_events' = Tail(cuda_events)
    BY <1>8 DEF CudaPoll, FrontDone
  <2>2. UNCHANGED <<streams, stream_idx, next_stream, created>>
    BY <1>8 DEF CudaPoll
  <2>3. cuda_events \in Seq([event : Nat, task : Task]) /\ unused \in Seq(Nat)
    BY <1>t DEF CudaTypes
  <2>4. /\ Head(cuda_events) \in [event : Nat, task : Task]
        /\ Tail(cuda_events) \in Seq([event : Nat, task : Task])
    BY <2>1, <2>3, HeadFacts
  <2>5. Head(cuda_events).event \in Nat
    BY <2>4
  <2>6. unused' \in Seq(Nat)
    BY <2>1, <2>3, <2>5, AppendFacts
  <2> QED BY <1>t, <2>1, <2>2, <2>4, <2>6 DEF CudaTypes
<1>9. ASSUME NEW i \in DOMAIN streams, StreamStep(i) PROVE CudaTypes'
  <2>1. streams[i] # <<>> /\ (UNCHANGED streams \/ streams' = [streams EXCEPT ![i] = Tail(streams[i])])
    BY <1>9 DEF StreamStep
  <2>2. UNCHANGED <<stream_idx, next_stream, cuda_events, unused, created>>
    BY <1>9 DEF StreamStep
  <2>3. streams \in [0..(NumStreams - 1) -> Seq(Operation)] /\ i \in 0..(NumStreams - 1)
    BY <1>t DEF CudaTypes
  <2>4. Tail(streams[i]) \in Seq(Operation)
    BY <2>1, <2>3, HeadFacts
  <2> QED BY <1>t, <2>1, <2>2, <2>3, <2>4 DEF CudaTypes
<1> QED BY <1>2, <1>3, <1>4, <1>5, <1>6, <1>7, <1>8, <1>9
  DEF Next, WorkerStep, MpiStep, CudaStep, MainStep, Ended

LEMMA MainTypesStep ==
  ASSUME Hypotheses, IInv, [Next]_vars
  PROVE  MainTypes'
<1>0. RequestsOnMpi /\ Types /\ WorkersMatch /\ PoolAligned /\ RecordsBehind /\ MainCounts
  BY DEF Hypotheses, IInv
<1>t. CountTypes /\ EventTypes /\ MainTypes
  BY <1>0 DEF Types
<1>1. CASE UNCHANGED <<main, task_count>>
  BY <1>0, <1>1, <1>t DEF MainTypes
<1>2. CASE UNCHANGED vars
  BY <1>1, <1>2 DEF vars
<1>3. ASSUME NEW w \in Worker,
             (\E t \in Task : GatherReady(w, t)) \/ (\E t \in Task : InitDependencies(w, t))
             \/ GatherNothing(w) \/ Execute(w) \/ Compute(w) \/ GetStatus(w) \/ PushRequest(w)
             \/ Yield(w) \/ PauseReset(w) \/ PauseFollow(w) \/ PauseAppend(w) \/ PauseCount(w)
             \/ PauseUp(w) \/ PauseNotify(w) \/ SetResult(w) \/ WakeMain(w)
      PROVE  MainTypes'
  BY <1>1, <1>3
  DEF GatherReady, InitDependencies, GatherNothing, Execute, Compute, GetStatus, PushRequest,
      Yield, PauseReset, PauseFollow, PauseAppend, PauseCount, PauseUp, PauseNotify, SetResult,
      WakeMain, AfterTask, Goto, MakeEvent
<1>4. ASSUME \/ PollNothing \/ Poll \/ PollStatus \/ PollResume \/ Launch \/ RecordEvent
             \/ LaunchedPre \/ CudaPollNothing
      PROVE  MainTypes'
  BY <1>1, <1>4 DEF PollNothing, Poll, PollStatus, PollResume, Launch, RecordEvent, LaunchedPre,
      CudaPollNothing, Goto, MakeEvent
<1>5. ASSUME NEW t \in Task, RequestCompletes(t) PROVE MainTypes'
  BY <1>1, <1>5 DEF RequestCompletes
<1>6. ASSUME NEW i \in DOMAIN streams, StreamStep(i) PROVE MainTypes'
  BY <1>1, <1>6 DEF StreamStep
<1>7. ASSUME NEW w \in Worker, FinishTask(w) PROVE MainTypes'
  <2>1. cur[w] \in Task /\ NotifyPost(cur[w])
    BY <1>0, <1>7, HeldFacts DEF FinishTask, TaskPC
  <2>2. task_count' \in Int
    BY <1>t, <2>1, NotifyPostTypes
  <2>3. UNCHANGED main
    BY <1>7 DEF FinishTask
  <2> QED BY <1>t, <2>2, <2>3 DEF MainTypes
<1>8. CASE PollErase
  <2>1. Current \in Task /\ NotifyPost(Current)
    BY <1>0, <1>8, PolledTasks DEF PollErase, PollPC, Current
  <2>2. task_count' \in Int
    BY <1>t, <2>1, NotifyPostTypes
  <2>3. UNCHANGED main
    BY <1>8 DEF PollErase
  <2> QED BY <1>t, <2>2, <2>3 DEF MainTypes
<1>9. CASE CudaPoll
  <2>1. Front \in Task /\ NotifyPost(Front)
    BY <1>0, <1>9, PolledTasks DEF CudaPoll, FrontDone
  <2>2. task_count' \in Int
    BY <1>t, <2>1, NotifyPostTypes
  <2>3. UNCHANGED main
    BY <1>9 DEF CudaPoll
  <2> QED BY <1>t, <2>2, <2>3 DEF MainTypes
<1>10. CASE Emplace
  BY SMTT(60), <1>0, <1>10, <1>t, TaskFacts
  DEF Emplace, OnlyMain, MainGoto, MainTypes, MainPC, MainCounts, Task
<1>11. CASE EndOfProgram
  BY <1>0, <1>11, <1>t, TaskFacts
  DEF EndOfProgram, OnlyMain, MainGoto, MainTypes, MainPC, MainCounts, Task
<1>12. CASE EnterWaker
  BY <1>0, <1>12, <1>t, TaskFacts
  DEF EnterWaker, OnlyMain, MainGoto, MainTypes, MainPC, MainCounts, Task
<1>13. CASE TestResult
  BY <1>0, <1>13, <1>t, TaskFacts
  DEF TestResult, OnlyMain, MainGoto, MainTypes, MainPC, MainCounts, Task
<1>14. CASE Idle
  BY <1>0, <1>14, <1>t, TaskFacts DEF Idle, OnlyMain, MainGoto, MainTypes, MainPC, MainCounts, Task
<1>15. CASE TakeResult
  <2>1. main.t \in Task /\ CountDown(main.t) /\ main' = [main EXCEPT !.pc = "emplace", !.t = main.t + 1]
    BY <1>0, <1>15 DEF TakeResult, MainCounts
  <2>2. task_count' \in Int
    BY <1>t, <2>1, CountDownTypes
  <2>3. main \in [pc : MainPC, t : 1..(MaxTask + 1), s : Nat] /\ main.t + 1 \in 1..(MaxTask + 1) /\ "emplace" \in MainPC
    BY <1>t, <2>1, TaskFacts DEF MainTypes, MainPC, Task
  <2>4. main' \in [pc : MainPC, t : 1..(MaxTask + 1), s : Nat]
    BY <2>1, <2>3
  <2> QED BY <2>2, <2>4 DEF MainTypes
<1>16. CASE Barrier
  BY <1>0, <1>16, <1>t, TaskFacts
  DEF Barrier, OnlyMain, MainGoto, MainTypes, MainPC, MainCounts, Task
<1>17. CASE Stop
  BY <1>0, <1>17, <1>t, TaskFacts DEF Stop, OnlyMain, MainGoto, MainTypes, MainPC, MainCounts, Task
<1>18. CASE Join
  <2>1. PICK p \in {"end", "stop"} : main' = [main EXCEPT !.pc = p, !.s = main.s + 1]
    BY <1>18 DEF Join
  <2>2. main \in [pc : MainPC, t : 1..(MaxTask + 1), s : Nat] /\ p \in MainPC /\ main.s + 1 \in Nat
    BY <1>t DEF MainTypes, MainPC
  <2>3. main' \in [pc : MainPC, t : 1..(MaxTask + 1), s : Nat]
    BY <2>1, <2>2
  <2>4. UNCHANGED task_count
    BY <1>18 DEF Join
  <2> QED BY <1>t, <2>3, <2>4 DEF MainTypes
<1> QED
  BY <1>2, <1>3, <1>4, <1>5, <1>6, <1>7, <1>8, <1>9, <1>10, <1>11, <1>12, <1>13, <1>14, <1>15,
     <1>16, <1>17, <1>18
  DEF Next, WorkerStep, MpiStep, CudaStep, MainStep, Ended

LEMMA TypesStep ==
  ASSUME Hypotheses, IInv, [Next]_vars
  PROVE  Types'
BY CountTypesStep, EventTypesStep, WorkTypesStep, PoolTypesStep, CudaTypesStep, MainTypesStep DEF Types

-----------------------------------------------------------------------------
(***************************************************************************)
(* A step that reaches an event and releases the tasks in R, which waited  *)
(* for it; c is the task whose pre-event it is, if it is one.              *)
(***************************************************************************)
ReleaseStep(R, c) ==
  \A u \in Task :
    /\ u \notin R => /\ ready'[u] = ready[u] /\ Incoming(u)' = Incoming(u)
                     /\ u # c => pre'[u] = pre[u]
    /\ u \in R => /\ Free(u)' => pre'[u] = 1 /\ ready'[u] = 1
                  /\ ~ Free(u)' => pre'[u] = 1 + Cardinality(Incoming(u)') /\ ready'[u] = 0
                  /\ pre'[u] # 0 /\ pre[u] # 0 /\ u # c /\ ~ Free(u)
                  /\ NotHeld(u) /\ op[u] = "none" /\ ext[u] = "none" /\ stream_idx[u] = NoStream

LEMMA NotifyPostEffect ==
  ASSUME Types, FollowersMatch, WaitingCounted, NEW t \in Task, NotifyPost(t),
         followers' = followers, post[t] # 0
  PROVE  /\ post' = [post EXCEPT ![t] = post[t] - 1]
         /\ \E R \in SUBSET Task : ReleaseStep(R, NoTask)
<1>0. /\ post \in [Task -> Nat] /\ pre \in [Task -> Nat] /\ ready \in [Task -> Int]
      /\ followers \in [Task -> [{"pre", "post"} -> SUBSET Task]] /\ Fits(post[t])
  BY DEF Types, CountTypes, EventTypes
<1>1. post' = [post EXCEPT ![t] = post[t] - 1]
  <2>1. Down(post[t]) = post[t] - 1
    BY <1>0, DownFacts
  <2> QED BY <2>1 DEF NotifyPost
<1>2. CASE post[t] = 1
  <2> DEFINE R == followers[t]["post"]
  <2>1. /\ R \in SUBSET Task
        /\ pre' = [u \in Task |-> IF u \in R THEN Down(pre[u]) ELSE pre[u]]
        /\ ready' = [u \in Task |-> IF u \in R /\ pre[u] = 2 THEN ready[u] + 1 ELSE ready[u]]
    BY <1>0, <1>2 DEF NotifyPost, NotifyPre
  <2>2. post'[t] = 0 /\ post[t] # 0 /\ \A q \in Task : q # t => post'[q] = post[q]
    BY <1>0, <1>1, <1>2
  <2>3. ASSUME NEW u \in R
        PROVE  stream_idx[u] = NoStream
    <3>1. ~ Free(u)
      BY <1>2, FreeFacts
    <3> QED BY <2>1, <3>1 DEF WaitingCounted
  <2>4. \A q \in Task : stream_idx[q] # NoStream => pre'[q] = pre[q]
    BY <2>1, <2>3
  <2>5. ASSUME NEW u \in Task
        PROVE  /\ Incoming(u)' = Incoming(u) \ {<<t, "post">>}
               /\ <<t, "post">> \in Incoming(u) <=> u \in R
    <3> HIDE DEF R
    <3>1. \A e \in {"pre", "post"} : e = "post" =>
            /\ Incoming(u)' = Incoming(u) \ {<<t, e>>}
            /\ <<t, e>> \in Incoming(u) <=> u \in followers[t][e]
      BY <2>2, <2>4, IncomingReleased
    <3> QED BY <3>1 DEF R
  <2>6. ReleaseStep(R, NoTask)
    <3> SUFFICES ASSUME NEW u \in Task
                 PROVE  /\ u \notin R => /\ ready'[u] = ready[u] /\ Incoming(u)' = Incoming(u)
                                         /\ u # NoTask => pre'[u] = pre[u]
                        /\ u \in R =>
                             /\ Free(u)' => pre'[u] = 1 /\ ready'[u] = 1
                             /\ ~ Free(u)' => pre'[u] = 1 + Cardinality(Incoming(u)') /\ ready'[u] = 0
                             /\ pre'[u] # 0 /\ pre[u] # 0 /\ u # NoTask /\ ~ Free(u)
                             /\ NotHeld(u) /\ op[u] = "none" /\ ext[u] = "none" /\ stream_idx[u] = NoStream
      BY DEF ReleaseStep
    <3> HIDE DEF R
    <3>1. CASE u \notin R
      BY <2>1, <2>5, <3>1
    <3>2. CASE u \in R
      <4>1. /\ pre'[u] = Down(pre[u])
            /\ ready'[u] = IF pre[u] = 2 THEN ready[u] + 1 ELSE ready[u]
        BY <2>1, <3>2
      <4>2. <<t, "post">> \in Incoming(u)
        BY <2>5, <3>2
      <4>3. ~ Free(u) /\ u # NoTask
        BY <4>2, TaskFacts DEF Free
      <4>4. "post" \in {"pre", "post"}
        OBVIOUS
      <4> QED BY <2>5, <3>2, <4>1, <4>2, <4>3, <4>4, ReleaseFollowers
    <3> QED BY <3>1, <3>2
  <2> QED BY <1>1, <2>1, <2>6
<1>3. CASE post[t] # 1
  <2>1. pre' = pre /\ ready' = ready
    BY <1>3 DEF NotifyPost
  <2>2. \A p \in Task : (post'[p] = 0) <=> (post[p] = 0)
    BY <1>0, <1>1, <1>3
  <2>3. \A u \in Task : Incoming(u)' = Incoming(u)
    BY <2>1, <2>2, IncomingSame
  <2>4. ReleaseStep({}, NoTask)
    BY <2>1, <2>3 DEF ReleaseStep
  <2> QED BY <1>1, <2>4
<1> QED BY <1>2, <1>3

LEMMA LaunchedPreEffect ==
  ASSUME RequestsOnMpi, Types, WorkersMatch, FollowersMatch, WaitingCounted, HeldPre, LaunchedPre
  PROVE  \E R \in SUBSET Task : ReleaseStep(R, cur["cuda"]) /\ pre'[cur["cuda"]] = 0
<1> DEFINE c == cur["cuda"]
<1>0. /\ pre \in [Task -> Nat] /\ ready \in [Task -> Int]
      /\ followers \in [Task -> [{"pre", "post"} -> SUBSET Task]]
  BY DEF Types, CountTypes, EventTypes
<1>1. c \in Task /\ pre[c] = 1 /\ ReachPre(c) /\ followers' = followers /\ post' = post
  BY HeldFacts, WorkerFacts DEF LaunchedPre, TaskPC, HeldPre
<1> DEFINE R == followers[c]["pre"]
<1>2. /\ R \in SUBSET Task
      /\ pre' = [u \in Task |-> IF u \in R \union {c} THEN Down(pre[u]) ELSE pre[u]]
      /\ ready' = [u \in Task |-> IF u \in R /\ pre[u] = 2 THEN ready[u] + 1 ELSE ready[u]]
  BY <1>0, <1>1 DEF ReachPre
<1>3. Down(1) = 0 /\ pre'[c] = 0
  BY <1>1, <1>2, DownFacts, UpFacts
<1>4. ASSUME NEW u \in R PROVE stream_idx[u] = NoStream /\ u # c
  <2>1. ~ Free(u)
    BY <1>1, FreeFacts
  <2>2. c < u
    BY <1>1 DEF FollowersMatch
  <2>3. u \in Task /\ u \in Nat /\ c \in Nat
    BY <1>1, <1>2, TaskFacts
  <2>4. stream_idx[u] = NoStream
    BY <2>1, <2>3 DEF WaitingCounted
  <2> QED BY <2>2, <2>3, <2>4
<1>5. \A q \in Task : q # c => (stream_idx[q] # NoStream => pre'[q] = pre[q])
  BY <1>2, <1>4
<1> HIDE DEF c
<1>6. ASSUME NEW u \in Task
      PROVE  /\ Incoming(u)' = Incoming(u) \ {<<c, "pre">>}
             /\ <<c, "pre">> \in Incoming(u) <=> u \in R
  <2> HIDE DEF R
  <2>1. \A e \in {"pre", "post"} : e = "pre" =>
          /\ Incoming(u)' = Incoming(u) \ {<<c, e>>}
          /\ <<c, e>> \in Incoming(u) <=> u \in followers[c][e]
    <3>1. \A q \in Task : ((post'[q] = 0) <=> (post[q] = 0))
      BY <1>1
    <3>2. \A q \in Task : q # c => (stream_idx[q] # NoStream => ((pre'[q] = 0) <=> (pre[q] = 0)))
      BY <1>5
    <3>3. pre'[c] = 0 /\ pre[c] # 0 /\ c \in Task /\ followers' = followers
      BY <1>1, <1>3
    <3> QED BY <3>1, <3>2, <3>3, IncomingReleased
  <2> QED BY <2>1 DEF R
<1>7. ReleaseStep(R, c)
  <2> SUFFICES ASSUME NEW u \in Task
               PROVE  /\ u \notin R => /\ ready'[u] = ready[u] /\ Incoming(u)' = Incoming(u)
                                       /\ u # c => pre'[u] = pre[u]
                      /\ u \in R =>
                           /\ Free(u)' => pre'[u] = 1 /\ ready'[u] = 1
                           /\ ~ Free(u)' => pre'[u] = 1 + Cardinality(Incoming(u)') /\ ready'[u] = 0
                           /\ pre'[u] # 0 /\ pre[u] # 0 /\ u # c /\ ~ Free(u)
                           /\ NotHeld(u) /\ op[u] = "none" /\ ext[u] = "none" /\ stream_idx[u] = NoStream
    BY DEF ReleaseStep
  <2>0. u \in R => u # c
    BY <1>4
  <2> HIDE DEF R
  <2>1. CASE u \notin R
    BY <1>2, <1>6, <2>1
  <2>2. CASE u \in R
    <3>1. /\ pre'[u] = Down(pre[u])
          /\ ready'[u] = IF pre[u] = 2 THEN ready[u] + 1 ELSE ready[u]
      BY <1>2, <2>2
    <3>2. <<c, "pre">> \in Incoming(u)
      BY <1>6, <2>2
    <3>3. ~ Free(u)
      BY <3>2 DEF Free
    <3>4. "pre" \in {"pre", "post"}
      OBVIOUS
    <3> QED BY <1>1, <1>6, <2>0, <2>2, <3>1, <3>2, <3>3, <3>4, ReleaseFollowers
  <2> QED BY <2>1, <2>2
<1> QED BY <1>2, <1>3, <1>7 DEF c

\* The post-event of a task that is not finished, or is held by its external event, is
\* not reached.
LEMMA PostPositive ==
  ASSUME Types, PostCounts, NEW t \in Task, ~ Finished(t) \/ Holds(t)
  PROVE  post[t] # 0
BY DEF PostCounts

\* The three places where a post-event is notified.
LEMMA FinishTaskEffect ==
  ASSUME RequestsOnMpi, Types, WorkersMatch, FollowersMatch, WaitingCounted, PostCounts,
         NEW w \in Worker, FinishTask(w)
  PROVE  /\ cur[w] \in Task /\ post[cur[w]] # 0
         /\ post' = [post EXCEPT ![cur[w]] = post[cur[w]] - 1]
         /\ \E R \in SUBSET Task : ReleaseStep(R, NoTask)
<1>1. cur[w] \in Task /\ NotifyPost(cur[w]) /\ followers' = followers
  BY HeldFacts DEF FinishTask, TaskPC
<1>2. ~ Finished(cur[w])
  BY DEF Finished, NotHeld
<1>3. post[cur[w]] # 0
  BY <1>1, <1>2, PostPositive
<1> QED BY <1>1, <1>3, NotifyPostEffect

LEMMA PollEraseEffect ==
  ASSUME Types, WorkersMatch, FollowersMatch, WaitingCounted, PostCounts, PoolAligned, RecordsBehind,
         PollErase
  PROVE  /\ Current \in Task /\ post[Current] # 0
         /\ post' = [post EXCEPT ![Current] = post[Current] - 1]
         /\ \E R \in SUBSET Task : ReleaseStep(R, NoTask)
<1>1. Current \in Task /\ NotifyPost(Current) /\ followers' = followers
  BY PolledTasks DEF PollErase, PollPC, Current
<1>2. Holds(Current)
  BY DEF Holds, PollErase
<1>3. post[Current] # 0
  BY <1>1, <1>2, PostPositive
<1> QED BY <1>1, <1>3, NotifyPostEffect

LEMMA CudaPollEffect ==
  ASSUME Types, WorkersMatch, FollowersMatch, WaitingCounted, PostCounts, PoolAligned, RecordsBehind,
         CudaPoll
  PROVE  LET t == Front
         IN  /\ t \in Task /\ post[t] # 0 /\ ext[t] = "pending" /\ Sched[t] = "cuda"
             /\ post' = [post EXCEPT ![t] = post[t] - 1]
             /\ \E R \in SUBSET Task : ReleaseStep(R, NoTask)
<1> DEFINE t == Front
<1>1. /\ t \in Task /\ NotifyPost(t) /\ followers' = followers
      /\ Head(cuda_events) = cuda_events[1] /\ cuda_events # <<>>
  BY PolledTasks DEF CudaPoll, FrontDone
<1>2. 1 \in DOMAIN cuda_events
  <2>1. cuda_events \in Seq([event : Nat, task : Task])
    BY DEF Types, CudaTypes
  <2> QED BY <1>1, <2>1, HeadFacts
<1>3. ext[t] = "pending" /\ Sched[t] = "cuda"
  BY <1>1, <1>2 DEF RecordsBehind
<1>4. post[t] # 0
  BY <1>1, <1>3, PostPositive DEF Holds
<1> HIDE DEF t
<1>5. /\ post' = [post EXCEPT ![t] = post[t] - 1]
      /\ \E R \in SUBSET Task : ReleaseStep(R, NoTask)
  BY <1>1, <1>4, NotifyPostEffect
<1> QED BY <1>1, <1>3, <1>4, <1>5 DEF t

-----------------------------------------------------------------------------
(***************************************************************************)
(* The workers and the tasks they have.                                    *)
(***************************************************************************)
LEMMA HeldPreStep ==
  ASSUME Hypotheses, IInv, [Next]_vars
  PROVE  HeldPre'
<1>0. /\ RequestsOnMpi /\ Types /\ WorkersMatch /\ NewUntouched /\ FollowersMatch
      /\ WaitingCounted /\ ReadyOnce /\ HeldOnce /\ HeldPre /\ HeldProgress /\ PostCounts
      /\ PoolAligned /\ StreamsMatch /\ RecordsBehind
  BY DEF Hypotheses, IInv
<1>t. /\ pc \in [Worker -> WorkerPC] /\ cur \in [Worker -> Task \union {NoTask}]
      /\ pre \in [Task -> Nat] /\ ready \in [Task -> Int]
  BY <1>0 DEF Types, CountTypes, EventTypes, WorkTypes
<1>1. CASE UNCHANGED <<cur, pc, pre>>
  BY <1>0, <1>1, <1>t DEF HeldPre
<1>2. CASE UNCHANGED vars
  BY <1>1, <1>2 DEF vars
<1>3. ASSUME \/ Emplace \/ EndOfProgram \/ EnterWaker \/ TestResult \/ Idle \/ TakeResult
             \/ Barrier \/ Stop \/ Join
      PROVE  HeldPre'
  BY <1>1, <1>3
  DEF Emplace, EndOfProgram, EnterWaker, TestResult, Idle, TakeResult, Barrier, Stop, Join,
      MainGoto, OnlyMain
<1>4. ASSUME NEW t \in Task, RequestCompletes(t) PROVE HeldPre'
  BY <1>1, <1>4 DEF RequestCompletes
<1>5. ASSUME NEW i \in DOMAIN streams, StreamStep(i) PROVE HeldPre'
  BY <1>1, <1>5 DEF StreamStep
<1>6. ASSUME NEW w \in Worker, NEW t \in Task, GatherReady(w, t) PROVE HeldPre'
  <2>2. /\ pc[w] = "gather" /\ Sched[t] = SchedOf(w) /\ ready[t] > 0
        /\ pc' = [pc EXCEPT ![w] = "execute"]
        /\ cur' = [cur EXCEPT ![w] = t]
        /\ UNCHANGED <<pre>>
    BY <1>6 DEF GatherReady, Goto, Mine
  <2> QED BY <1>0, <2>2, <1>t, WorkerFacts, TaskFacts
    DEF HeldPre, WorkersMatch, HeldOnce, TaskPC, PausePC, PollPC, ReadyOnce, NotHeld
<1>7. ASSUME NEW w \in Worker, NEW t \in Task, InitDependencies(w, t) PROVE HeldPre'
  <2>1. /\ pc[w] = "gather" /\ t \in emplaced
        /\ pre' = [pre EXCEPT ![t] = (pre[t] + Cardinality(Edges(t))) % 65536]
        /\ cur' = (IF Edges(t) = {} THEN [cur EXCEPT ![w] = t] ELSE cur)
        /\ pc' = (IF Edges(t) = {} THEN [pc EXCEPT ![w] = "execute"] ELSE pc)
    BY <1>7 DEF InitDependencies, Goto
  <2>2. pre[t] = 1 /\ NotHeld(t)
    BY <1>0, <2>1 DEF NewUntouched, Old
  <2>3. Edges(t) = {} => Cardinality(Edges(t)) = 0 /\ 1 % 65536 = 1
    BY FS_EmptySet
  <2>4. Edges(t) = {} => pre'[t] = 1
    BY <1>t, <2>1, <2>2, <2>3
  <2>5. \A u \in Task : u # t => pre'[u] = pre[u]
    BY <1>t, <2>1
  <2> QED
    BY <1>0, <1>t, <2>1, <2>2, <2>4, <2>5, TaskFacts DEF HeldPre, WorkersMatch, NotHeld, TaskPC
<1>8. ASSUME NEW w \in Worker, GatherNothing(w) PROVE HeldPre'
  <2>2. /\ pc[w] = "gather"
        /\ \E p \in {"gather", "stopped", "poll"} :
             (p = "poll" => w \notin PoolWorker) /\ pc' = [pc EXCEPT ![w] = p]
        /\ UNCHANGED <<pre, cur>>
    BY <1>8 DEF GatherNothing, Goto, TestStop
  <2> QED BY <1>0, <2>2, <1>t, WorkerFacts, TaskFacts
    DEF HeldPre, WorkersMatch, HeldOnce, TaskPC, PausePC, PollPC
<1>9. ASSUME NEW w \in Worker, Execute(w) PROVE HeldPre'
  <2>1. HasTask(w)
    BY <1>0, <1>9, HeldFacts DEF Execute, TaskPC
  <2>2. /\ pc[w] = "execute"
        /\ pc' = [pc EXCEPT ![w] = IF ext[cur[w]] = "none" THEN "body" ELSE "check"]
        /\ UNCHANGED <<cur>>
    BY <1>9 DEF Execute, Goto
  <2>4. w # "cuda" => pre' = [pre EXCEPT ![cur[w]] = 0]
    BY <1>0, <1>9, ExecuteEffect
  <2>5. w = "cuda" => pre' = pre
    BY <1>9 DEF Execute
  <2>6. \A v \in Worker : v # w /\ cur[v] \in Task => pre'[cur[v]] = pre[cur[v]]
    BY ZenonT(60), <1>0, <1>t, <2>1, <2>4, <2>5, TaskFacts DEF HeldOnce
  <2>7. \A v \in Worker : v # w /\ pc[v] \in TaskPC => cur[v] \in Task
    BY <1>0, <1>t DEF WorkersMatch
  <2>8. w = "cuda" => pre'[cur[w]] = 1 /\ pc'[w] = "body"
    BY <1>0, <1>t, <2>1, <2>2, <2>5, WorkerFacts DEF HeldPre, HeldProgress, Runnable
  <2>9. w # "cuda" => pre'[cur[w]] = 0 /\ pc'[w] \in {"body", "check"}
    BY <1>t, <2>1, <2>2, <2>4
  <2> QED BY <1>0, <1>t, <2>2, <2>6, <2>7, <2>8, <2>9 DEF HeldPre, TaskPC
<1>10. ASSUME NEW w \in Worker, Compute(w) PROVE HeldPre'
  <2>1. HasTask(w)
    BY <1>0, <1>10, HeldFacts DEF Compute, TaskPC
  <2>2. /\ pc[w] = "body" /\ w # "cuda" /\ cur[w] \notin Request
        /\ pc' = (IF op[cur[w]] = "running" THEN [pc EXCEPT ![w] = "result"] ELSE pc)
        /\ UNCHANGED <<pre, cur>>
    BY <1>10 DEF Compute, Goto
  <2> QED BY <1>0, <2>1, <2>2, <1>t, WorkerFacts, TaskFacts
    DEF HeldPre, WorkersMatch, HeldOnce, TaskPC, PausePC, PollPC
<1>11. ASSUME NEW w \in Worker, GetStatus(w) PROVE HeldPre'
  <2>1. HasTask(w)
    BY <1>0, <1>11, HeldFacts DEF GetStatus, TaskPC
  <2>2. /\ pc[w] = "body" /\ cur[w] \in Request
        /\ pc' = [pc EXCEPT ![w] = "push"]
        /\ UNCHANGED <<pre, cur>>
    BY <1>11 DEF GetStatus, Goto, MakeEvent
  <2> QED BY <1>0, <2>1, <2>2, <1>t, WorkerFacts, TaskFacts
    DEF HeldPre, WorkersMatch, HeldOnce, TaskPC, PausePC, PollPC
<1>12. ASSUME NEW w \in Worker, PushRequest(w) PROVE HeldPre'
  <2>1. HasTask(w)
    BY <1>0, <1>12, HeldFacts DEF PushRequest, TaskPC
  <2>2. /\ pc[w] = "push" /\ mutex = "free"
        /\ pc' = [pc EXCEPT ![w] = "check"]
        /\ UNCHANGED <<pre, cur>>
    BY <1>12 DEF PushRequest, Goto
  <2> QED BY <1>0, <2>1, <2>2, <1>t, WorkerFacts, TaskFacts
    DEF HeldPre, WorkersMatch, HeldOnce, TaskPC, PausePC, PollPC
<1>13. ASSUME NEW w \in Worker, Yield(w) PROVE HeldPre'
  <2>1. HasTask(w)
    BY <1>0, <1>13, HeldFacts DEF Yield, TaskPC
  <2>2. /\ pc[w] = "check"
        /\ pc' = [pc EXCEPT ![w] = IF ext[cur[w]] = "reached" THEN "result" ELSE "reset"]
        /\ UNCHANGED <<pre, cur>>
    BY <1>13 DEF Yield, Goto
  <2> QED BY <1>0, <2>1, <2>2, <1>t, WorkerFacts, TaskFacts
    DEF HeldPre, WorkersMatch, HeldOnce, TaskPC, PausePC, PollPC
<1>14. ASSUME NEW w \in Worker, PauseReset(w) PROVE HeldPre'
  <2>1. HasTask(w)
    BY <1>0, <1>14, HeldFacts DEF PauseReset, TaskPC
  <2>2. /\ pc[w] = "reset"
        /\ pre' = [pre EXCEPT ![cur[w]] = 1]
        /\ pc' = [pc EXCEPT ![w] = "follow"]
        /\ UNCHANGED <<cur>>
    BY <1>14 DEF PauseReset, Goto
  <2> QED BY <1>0, <2>1, <2>2, <1>t, WorkerFacts, TaskFacts
    DEF HeldPre, WorkersMatch, HeldOnce, TaskPC, PausePC, PollPC
<1>15. ASSUME NEW w \in Worker, PauseFollow(w) PROVE HeldPre'
  <2>1. HasTask(w)
    BY <1>0, <1>15, HeldFacts DEF PauseFollow, TaskPC
  <2>2. /\ pc[w] = "follow"
        /\ pc' = [pc EXCEPT ![w] = IF ext[cur[w]] = "reached" THEN "up" ELSE "append"]
        /\ UNCHANGED <<pre, cur>>
    BY <1>15 DEF PauseFollow, Goto
  <2> QED BY <1>0, <2>1, <2>2, <1>t, WorkerFacts, TaskFacts
    DEF HeldPre, WorkersMatch, HeldOnce, TaskPC, PausePC, PollPC, HeldProgress
<1>16. ASSUME NEW w \in Worker, PauseAppend(w) PROVE HeldPre'
  <2>1. HasTask(w)
    BY <1>0, <1>16, HeldFacts DEF PauseAppend, TaskPC
  <2>2. /\ pc[w] = "append"
        /\ pc' = [pc EXCEPT ![w] = "count"]
        /\ UNCHANGED <<pre, cur>>
    BY <1>16 DEF PauseAppend, Goto
  <2> QED BY <1>0, <2>1, <2>2, <1>t, WorkerFacts, TaskFacts
    DEF HeldPre, WorkersMatch, HeldOnce, TaskPC, PausePC, PollPC
<1>17. ASSUME NEW w \in Worker, PauseCount(w) PROVE HeldPre'
  <2>1. HasTask(w)
    BY <1>0, <1>17, HeldFacts DEF PauseCount, TaskPC
  <2>2. /\ pc[w] = "count"
        /\ pre' = [pre EXCEPT ![cur[w]] = Up(pre[cur[w]])]
        /\ pc' = [pc EXCEPT ![w] = "up"]
        /\ UNCHANGED <<cur>>
    BY <1>17 DEF PauseCount, Goto
  <2> QED BY <1>0, <2>1, <2>2, <1>t, WorkerFacts, TaskFacts, UpFacts
    DEF HeldPre, WorkersMatch, HeldOnce, TaskPC, PausePC, PollPC
<1>18. ASSUME NEW w \in Worker, PauseUp(w) PROVE HeldPre'
  <2>1. HasTask(w)
    BY <1>0, <1>18, HeldFacts DEF PauseUp, TaskPC
  <2>2. /\ pc[w] = "up"
        /\ pre' = [pre EXCEPT ![cur[w]] = Up(pre[cur[w]])]
        /\ pc' = [pc EXCEPT ![w] = "notify"]
        /\ UNCHANGED <<cur>>
    BY <1>18 DEF PauseUp, Goto
  <2> QED BY <1>0, <2>1, <2>2, <1>t, WorkerFacts, TaskFacts, UpFacts
    DEF HeldPre, WorkersMatch, HeldOnce, TaskPC, PausePC, PollPC
<1>19. ASSUME NEW w \in Worker, PauseNotify(w) PROVE HeldPre'
  <2>1. HasTask(w)
    BY <1>0, <1>19, HeldFacts DEF PauseNotify, TaskPC
  <2>2. /\ pc[w] = "notify"
        /\ pc' = [pc EXCEPT ![w] = IF w \in PoolWorker THEN "gather" ELSE "poll"]
        /\ cur' = [cur EXCEPT ![w] = NoTask]
    BY <1>19 DEF PauseNotify, Goto, AfterTask
  <2>4. pre' = [pre EXCEPT ![cur[w]] = 2]
    BY <1>0, <1>19, PauseNotifyEffect
  <2> QED BY <1>0, <1>t, <2>1, <2>2, <2>4, TaskFacts DEF HeldPre, WorkersMatch, HeldOnce, TaskPC
<1>20. ASSUME NEW w \in Worker, SetResult(w) PROVE HeldPre'
  <2>1. HasTask(w)
    BY <1>0, <1>20, HeldFacts DEF SetResult, TaskPC
  <2>2. /\ pc[w] = "result"
        /\ pc' = [pc EXCEPT ![w] = "wake"]
        /\ UNCHANGED <<pre, cur>>
    BY <1>20 DEF SetResult, Goto
  <2> QED BY <1>0, <2>1, <2>2, <1>t, WorkerFacts, TaskFacts
    DEF HeldPre, WorkersMatch, HeldOnce, TaskPC, PausePC, PollPC
<1>21. ASSUME NEW w \in Worker, WakeMain(w) PROVE HeldPre'
  <2>1. HasTask(w)
    BY <1>0, <1>21, HeldFacts DEF WakeMain, TaskPC
  <2>2. /\ pc[w] = "wake"
        /\ pc' = [pc EXCEPT ![w] = IF w = "cuda" THEN "record" ELSE "post"]
        /\ UNCHANGED <<pre, cur>>
    BY <1>21 DEF WakeMain, Goto
  <2> QED BY <1>0, <2>1, <2>2, <1>t, WorkerFacts, TaskFacts
    DEF HeldPre, WorkersMatch, HeldOnce, TaskPC, PausePC, PollPC
<1>22. ASSUME NEW w \in Worker, FinishTask(w) PROVE HeldPre'
  <2>1. HasTask(w)
    BY <1>0, <1>22, HeldFacts DEF FinishTask, TaskPC
  <2>2. /\ pc[w] = "post"
        /\ pc' = [pc EXCEPT ![w] = IF w \in PoolWorker THEN "gather" ELSE "poll"]
        /\ cur' = [cur EXCEPT ![w] = NoTask]
    BY <1>22 DEF FinishTask, Goto, AfterTask
  <2>4. PICK R \in SUBSET Task : ReleaseStep(R, NoTask)
    BY <1>0, <1>22, FinishTaskEffect
  <2>5. \A v \in Worker : cur[v] \in Task => pre'[cur[v]] = pre[cur[v]]
    BY <2>4, TaskFacts DEF ReleaseStep, NotHeld
  <2> QED BY <1>0, <1>t, <2>1, <2>2, <2>5, WorkerFacts, TaskFacts DEF HeldPre, WorkersMatch, TaskPC
<1>23. CASE PollNothing
  <2>2. /\ pc["mpi"] = "poll"
        /\ \E p \in {"gather", "stopped"} : pc' = [pc EXCEPT !["mpi"] = p]
        /\ UNCHANGED <<pre, cur>>
    BY <1>23 DEF PollNothing, Goto, AfterPoll, TestStop
  <2> QED BY <1>0, <2>2, <1>t, WorkerFacts, TaskFacts
    DEF HeldPre, WorkersMatch, HeldOnce, TaskPC, PausePC, PollPC
<1>24. CASE Poll
  <2>2. /\ pc["mpi"] = "poll" /\ mutex = "free"
        /\ pc' = [pc EXCEPT !["mpi"] = "status"]
        /\ UNCHANGED <<pre, cur>>
    BY <1>24 DEF Poll, Goto
  <2> QED BY <1>0, <2>2, <1>t, WorkerFacts, TaskFacts
    DEF HeldPre, WorkersMatch, HeldOnce, TaskPC, PausePC, PollPC
<1>25. CASE PollStatus
  <2>1. Polled
    BY <1>0, <1>25, PolledTasks DEF PollStatus, PollPC
  <2>2. /\ pc["mpi"] = "status"
        /\ pc' = [pc EXCEPT !["mpi"] = IF paused[Current] THEN "resume" ELSE "erase"]
        /\ UNCHANGED <<pre, cur>>
    BY <1>25 DEF PollStatus, Goto, OutStatus, Current
  <2> QED BY <1>0, <2>1, <2>2, <1>t, WorkerFacts, TaskFacts
    DEF HeldPre, WorkersMatch, HeldOnce, TaskPC, PausePC, PollPC
<1>26. CASE PollResume
  <2>1. Polled
    BY <1>0, <1>26, PolledTasks DEF PollResume, PollPC
  <2>2. /\ pc["mpi"] = "resume"
        /\ pc' = [pc EXCEPT !["mpi"] = "erase"]
        /\ UNCHANGED <<cur>>
    BY <1>26 DEF PollResume, Goto
  <2>4. \A u \in Task : u # Current => pre'[u] = pre[u]
    BY <1>26 DEF PollResume, NotifyPre, Current
  <2>5. \A v \in Worker : cur[v] # Current
    BY <1>0, <2>1, <2>2, WorkerFacts, TaskFacts DEF RequestsOnMpi, WorkersMatch, TaskPC
  <2>6. \A v \in Worker : pc[v] \in TaskPC => cur[v] \in Task
    BY <1>0, <1>t DEF WorkersMatch
  <2> QED BY <1>0, <1>t, <2>2, <2>4, <2>5, <2>6, WorkerFacts DEF HeldPre, TaskPC
<1>27. CASE PollErase
  <2>1. Polled
    BY <1>0, <1>27, PolledTasks DEF PollErase, PollPC
  <2>2. /\ pc["mpi"] = "erase"
        /\ \E p \in (IF slot = Len(indices) THEN {"gather", "stopped"} ELSE {"status"}) :
             pc' = [pc EXCEPT !["mpi"] = p]
        /\ UNCHANGED <<cur>>
    BY <1>27 DEF PollErase, Goto, AfterPoll, TestStop, Current
  <2>4. PICK R \in SUBSET Task : ReleaseStep(R, NoTask)
    BY <1>0, <1>27, PollEraseEffect
  <2>5. \A v \in Worker : cur[v] \in Task => pre'[cur[v]] = pre[cur[v]]
    BY <2>4, TaskFacts DEF ReleaseStep, NotHeld
  <2> QED BY <1>0, <1>t, <2>1, <2>2, <2>5, WorkerFacts, TaskFacts DEF HeldPre, WorkersMatch, TaskPC
<1>28. CASE Launch
  <2>1. CudaHasTask
    BY <1>0, <1>28, HeldFacts, WorkerFacts DEF Launch, TaskPC
  <2>2. /\ pc["cuda"] = "body"
        /\ pc' = [pc EXCEPT !["cuda"] = "result"]
        /\ UNCHANGED <<pre, cur>>
    BY <1>28 DEF Launch, Goto
  <2> QED BY <1>0, <2>1, <2>2, <1>t, WorkerFacts, TaskFacts
    DEF HeldPre, WorkersMatch, HeldOnce, TaskPC, PausePC, PollPC
<1>29. CASE RecordEvent
  <2>1. CudaHasTask
    BY <1>0, <1>29, HeldFacts, WorkerFacts DEF RecordEvent, TaskPC
  <2>2. /\ pc["cuda"] = "record"
        /\ pc' = [pc EXCEPT !["cuda"] = "pre"]
        /\ UNCHANGED <<pre, cur>>
    BY <1>29 DEF RecordEvent, Goto, MakeEvent
  <2> QED BY <1>0, <2>1, <2>2, <1>t, WorkerFacts, TaskFacts
    DEF HeldPre, WorkersMatch, HeldOnce, TaskPC, PausePC, PollPC
<1>30. CASE LaunchedPre
  <2>1. CudaHasTask
    BY <1>0, <1>30, HeldFacts, WorkerFacts DEF LaunchedPre, TaskPC
  <2>2. /\ pc["cuda"] = "pre"
        /\ pc' = [pc EXCEPT !["cuda"] = "post"]
        /\ UNCHANGED <<cur>>
    BY <1>30 DEF LaunchedPre, Goto
  <2>4. PICK R \in SUBSET Task : ReleaseStep(R, cur["cuda"]) /\ pre'[cur["cuda"]] = 0
    BY <1>0, <1>30, LaunchedPreEffect
  <2>5. \A v \in Worker : cur[v] \in Task /\ v # "cuda" => pre'[cur[v]] = pre[cur[v]]
    BY ZenonT(60), <1>0, <2>1, <2>4, WorkerFacts, TaskFacts DEF ReleaseStep, NotHeld, HeldOnce
  <2>6. \A v \in Worker : pc[v] \in TaskPC => cur[v] \in Task
    BY <1>0, <1>t DEF WorkersMatch
  <2> QED BY <1>0, <1>t, <2>2, <2>4, <2>5, <2>6, WorkerFacts DEF HeldPre, TaskPC
<1>31. CASE CudaPollNothing
  <2>2. /\ pc["cuda"] = "poll"
        /\ \E p \in {"gather", "stopped"} : pc' = [pc EXCEPT !["cuda"] = p]
        /\ UNCHANGED <<pre, cur>>
    BY <1>31 DEF CudaPollNothing, Goto, AfterPoll, TestStop
  <2> QED BY <1>0, <2>2, <1>t, WorkerFacts, TaskFacts
    DEF HeldPre, WorkersMatch, HeldOnce, TaskPC, PausePC, PollPC
<1>32. CASE CudaPoll
  <2>1. FrontPolled
    BY <1>0, <1>32, PolledTasks DEF CudaPoll, FrontDone
  <2>2. /\ pc["cuda"] = "poll" /\ FrontDone
        /\ \E p \in {"gather", "stopped"} : pc' = [pc EXCEPT !["cuda"] = p]
        /\ UNCHANGED <<cur>>
    BY <1>32 DEF CudaPoll, Goto, AfterPoll, TestStop
  <2>4. PICK R \in SUBSET Task : ReleaseStep(R, NoTask)
    BY <1>0, <1>32, CudaPollEffect
  <2>5. \A v \in Worker : cur[v] \in Task => pre'[cur[v]] = pre[cur[v]]
    BY <2>4, TaskFacts DEF ReleaseStep, NotHeld
  <2> QED BY <1>0, <1>t, <2>1, <2>2, <2>5, WorkerFacts, TaskFacts DEF HeldPre, WorkersMatch, TaskPC
<1> QED
  BY <1>2, <1>3, <1>4, <1>5, <1>6, <1>7, <1>8, <1>9, <1>10, <1>11, <1>12, <1>13, <1>14, <1>15,
     <1>16, <1>17, <1>18, <1>19, <1>20, <1>21, <1>22, <1>23, <1>24, <1>25, <1>26, <1>27, <1>28,
     <1>29, <1>30, <1>31, <1>32
  DEF Next, WorkerStep, MpiStep, CudaStep, MainStep, Ended

\* What a stream does in one step.
LEMMA StreamEffect ==
  ASSUME Types, StreamsMatch, NEW i \in DOMAIN streams, StreamStep(i)
  PROVE  /\ i \in 0..(NumStreams - 1) /\ streams[i] \in Seq(Operation) /\ streams[i] # <<>>
         /\ \/ /\ streams' = [streams EXCEPT ![i] = Tail(streams[i])] /\ op' = op
               /\ streams[i][1].kind = "record"
            \/ \E k \in Task :
                 /\ streams[i][1] = Kernel(k) /\ stream_idx[k] # NoStream /\ Sched[k] = "cuda" /\ op[k] # "none"
                 /\ \/ op[k] = "queued" /\ op' = [op EXCEPT ![k] = "running"] /\ streams' = streams
                    \/ op[k] # "queued" /\ op' = [op EXCEPT ![k] = "done"]
                       /\ streams' = [streams EXCEPT ![i] = Tail(streams[i])]
<1> DEFINE o == Head(streams[i])
<1>1. i \in 0..(NumStreams - 1) /\ streams[i] \in Seq(Operation) /\ streams[i] # <<>>
  BY DEF StreamStep, Types, CudaTypes
<1>2. o = streams[i][1] /\ 1 \in DOMAIN streams[i] /\ o \in Operation
  BY <1>1, HeadFacts
<1>3. \/ o.kind = "kernel" /\ op[o.id] = "queued" /\ op' = [op EXCEPT ![o.id] = "running"] /\ streams' = streams
      \/ o.kind = "kernel" /\ op[o.id] # "queued" /\ op' = [op EXCEPT ![o.id] = "done"]
         /\ streams' = [streams EXCEPT ![i] = Tail(streams[i])]
      \/ o.kind # "kernel" /\ op' = op /\ streams' = [streams EXCEPT ![i] = Tail(streams[i])]
  BY DEF StreamStep
<1>4. CASE o.kind = "kernel"
  <2>1. o.id \in Task /\ stream_idx[o.id] # NoStream
    BY <1>1, <1>2, <1>4 DEF StreamsMatch
  <2>2. Sched[o.id] = "cuda" /\ op[o.id] # "none"
    BY <2>1 DEF StreamsMatch
  <2>3. o = Kernel(o.id)
    BY <1>2, <1>4 DEF Kernel, Operation
  <2> HIDE DEF o
  <2> QED BY <1>1, <1>2, <1>3, <1>4, <2>1, <2>2, <2>3
<1>5. CASE o.kind # "kernel"
  <2>1. o.kind = "record"
    BY <1>2, <1>5 DEF Operation
  <2> QED BY <1>1, <1>2, <1>3, <1>5, <2>1
<1> QED BY <1>4, <1>5

\* The tasks that the polling workers notify are held by nobody.
LEMMA PolledNotHeld ==
  ASSUME RequestsOnMpi, Types, WorkersMatch, PoolAligned, RecordsBehind
  PROVE  /\ pc["mpi"] \in PollPC => NotHeld(Current)
         /\ pc["cuda"] = "poll" /\ cuda_events # <<>> => NotHeld(Front)
<1>1. ASSUME pc["mpi"] \in PollPC PROVE NotHeld(Current)
  <2>1. Current \in Request /\ Current \in Task
    BY <1>1, PolledTasks
  <2>2. cur["mpi"] = NoTask
    BY <1>1, WorkerFacts DEF WorkersMatch, PollPC, TaskPC
  <2> QED BY <2>1, <2>2, WorkerFacts, TaskFacts DEF NotHeld, RequestsOnMpi, WorkersMatch
<1>2. ASSUME pc["cuda"] = "poll", cuda_events # <<>> PROVE NotHeld(Front)
  <2>1. Front \in Task /\ Head(cuda_events) = cuda_events[1]
    BY <1>2, PolledTasks
  <2>2. 1 \in DOMAIN cuda_events
    <3>1. cuda_events \in Seq([event : Nat, task : Task])
      BY DEF Types, CudaTypes
    <3> QED BY <1>2, <3>1, HeadFacts
  <2>3. Sched[Front] = "cuda"
    BY <2>1, <2>2 DEF RecordsBehind
  <2>4. cur["cuda"] = NoTask
    BY <1>2, WorkerFacts DEF WorkersMatch, TaskPC
  <2> QED BY <2>1, <2>3, <2>4, WorkerFacts, TaskFacts DEF NotHeld, WorkersMatch
<1> QED BY <1>1, <1>2

LEMMA HeldProgressStep ==
  ASSUME Hypotheses, IInv, [Next]_vars
  PROVE  HeldProgress'
<1>0. /\ RequestsOnMpi /\ Types /\ WorkersMatch /\ NewUntouched /\ FollowersMatch
      /\ WaitingCounted /\ ReadyOnce /\ HeldOnce /\ HeldProgress /\ PoolAligned
      /\ StreamsMatch /\ RecordsBehind
  BY DEF Hypotheses, IInv
<1>t. /\ pc \in [Worker -> WorkerPC] /\ cur \in [Worker -> Task \union {NoTask}]
      /\ ext \in [Task -> {"none", "pending", "reached"}] /\ paused \in [Task -> BOOLEAN]
      /\ op \in [Task -> {"none", "queued", "running", "done"}] /\ ready \in [Task -> Int]
      /\ stream_idx \in [Task -> {NoStream} \union 0..(NumStreams - 1)] /\ next_stream \in Nat
  BY <1>0 DEF Types, EventTypes, WorkTypes, CudaTypes
<1>1. CASE UNCHANGED <<cur, ext, op, paused, pc, stream_idx>>
  BY <1>0, <1>1, <1>t DEF HeldProgress, Runnable
<1>2. CASE UNCHANGED vars
  BY <1>1, <1>2 DEF vars
<1>3. ASSUME \/ Emplace \/ EndOfProgram \/ EnterWaker \/ TestResult \/ Idle \/ TakeResult
             \/ Barrier \/ Stop \/ Join
      PROVE  HeldProgress'
  BY <1>1, <1>3
  DEF Emplace, EndOfProgram, EnterWaker, TestResult, Idle, TakeResult, Barrier, Stop, Join,
      MainGoto, OnlyMain
<1>4. ASSUME NEW w \in Worker, NEW t \in Task, GatherReady(w, t) PROVE HeldProgress'
  <2>2. /\ pc[w] = "gather" /\ Sched[t] = SchedOf(w) /\ ready[t] > 0
        /\ pc' = [pc EXCEPT ![w] = "execute"]
        /\ cur' = [cur EXCEPT ![w] = t]
        /\ UNCHANGED <<ext, op, paused, stream_idx>>
    BY <1>4 DEF GatherReady, Goto, Mine
  <2> QED BY <1>0, <2>2, <1>t, WorkerFacts, TaskFacts, DispatchAssumption
    DEF HeldProgress, Runnable, WorkersMatch, HeldOnce, TaskPC, PausePC, PollPC, ReadyOnce,
        NotHeld
<1>5. ASSUME NEW w \in Worker, NEW t \in Task, InitDependencies(w, t) PROVE HeldProgress'
  <2>2. /\ pc[w] = "gather" /\ Sched[t] = SchedOf(w) /\ t \in emplaced
        /\ pc' = (IF Edges(t) = {} THEN [pc EXCEPT ![w] = "execute"] ELSE pc)
        /\ cur' = (IF Edges(t) = {} THEN [cur EXCEPT ![w] = t] ELSE cur)
        /\ UNCHANGED <<ext, op, paused, stream_idx>>
    BY <1>5 DEF InitDependencies, Goto, Mine
  <2> QED BY <1>0, <2>2, <1>t, WorkerFacts, TaskFacts, DispatchAssumption
    DEF HeldProgress, Runnable, WorkersMatch, HeldOnce, TaskPC, PausePC, PollPC, NewUntouched,
        Old
<1>6. ASSUME NEW w \in Worker, GatherNothing(w) PROVE HeldProgress'
  <2>2. /\ pc[w] = "gather"
        /\ \E p \in {"gather", "stopped", "poll"} :
             (p = "poll" => w \notin PoolWorker) /\ pc' = [pc EXCEPT ![w] = p]
        /\ UNCHANGED <<cur, ext, op, paused, stream_idx>>
    BY <1>6 DEF GatherNothing, Goto, TestStop
  <2> QED BY <1>0, <2>2, <1>t, WorkerFacts, TaskFacts, DispatchAssumption
    DEF HeldProgress, Runnable, WorkersMatch, HeldOnce, TaskPC, PausePC, PollPC
<1>7. ASSUME NEW w \in Worker, Execute(w) PROVE HeldProgress'
  <2>1. HasTask(w)
    BY <1>0, <1>7, HeldFacts DEF Execute, TaskPC
  <2>2. /\ pc[w] = "execute"
        /\ pc' = [pc EXCEPT ![w] = IF ext[cur[w]] = "none" THEN "body" ELSE "check"]
        /\ UNCHANGED <<cur, ext, op, paused, stream_idx>>
    BY <1>7 DEF Execute, Goto
  <2> QED BY <1>0, <2>1, <2>2, <1>t, WorkerFacts, TaskFacts, DispatchAssumption
    DEF HeldProgress, Runnable, WorkersMatch, HeldOnce, TaskPC, PausePC, PollPC
<1>8. ASSUME NEW w \in Worker, Compute(w) PROVE HeldProgress'
  <2>1. HasTask(w)
    BY <1>0, <1>8, HeldFacts DEF Compute, TaskPC
  <2>2. /\ pc[w] = "body" /\ w # "cuda" /\ cur[w] \notin Request
        /\ pc' = (IF op[cur[w]] = "running" THEN [pc EXCEPT ![w] = "result"] ELSE pc)
        /\ op' = [op EXCEPT ![cur[w]] = IF op[cur[w]] = "running" THEN "done" ELSE "running"]
        /\ UNCHANGED <<cur, ext, paused, stream_idx>>
    BY <1>8 DEF Compute, Goto
  <2> QED BY <1>0, <2>1, <2>2, <1>t, WorkerFacts, TaskFacts, DispatchAssumption
    DEF HeldProgress, Runnable, WorkersMatch, HeldOnce, TaskPC, PausePC, PollPC
<1>9. ASSUME NEW w \in Worker, GetStatus(w) PROVE HeldProgress'
  <2>1. HasTask(w)
    BY <1>0, <1>9, HeldFacts DEF GetStatus, TaskPC
  <2>2. /\ pc[w] = "body" /\ cur[w] \in Request
        /\ pc' = [pc EXCEPT ![w] = "push"]
        /\ ext' = [ext EXCEPT ![cur[w]] = "pending"]
        /\ op' = [op EXCEPT ![cur[w]] = "running"]
        /\ UNCHANGED <<cur, paused, stream_idx>>
    BY <1>9 DEF GetStatus, Goto, MakeEvent
  <2> QED BY <1>0, <2>1, <2>2, <1>t, WorkerFacts, TaskFacts, DispatchAssumption
    DEF HeldProgress, Runnable, WorkersMatch, HeldOnce, TaskPC, PausePC, PollPC
<1>10. ASSUME NEW w \in Worker, PushRequest(w) PROVE HeldProgress'
  <2>1. HasTask(w)
    BY <1>0, <1>10, HeldFacts DEF PushRequest, TaskPC
  <2>2. /\ pc[w] = "push" /\ mutex = "free"
        /\ pc' = [pc EXCEPT ![w] = "check"]
        /\ UNCHANGED <<cur, ext, op, paused, stream_idx>>
    BY <1>10 DEF PushRequest, Goto
  <2> QED BY <1>0, <2>1, <2>2, <1>t, WorkerFacts, TaskFacts, DispatchAssumption
    DEF HeldProgress, Runnable, WorkersMatch, HeldOnce, TaskPC, PausePC, PollPC
<1>11. ASSUME NEW w \in Worker, Yield(w) PROVE HeldProgress'
  <2>1. HasTask(w)
    BY <1>0, <1>11, HeldFacts DEF Yield, TaskPC
  <2>2. /\ pc[w] = "check"
        /\ pc' = [pc EXCEPT ![w] = IF ext[cur[w]] = "reached" THEN "result" ELSE "reset"]
        /\ UNCHANGED <<cur, ext, op, paused, stream_idx>>
    BY <1>11 DEF Yield, Goto
  <2>4. cur[w] \in Request /\ w = "mpi" /\ ext[cur[w]] \in {"pending", "reached"}
    BY <1>0, <1>t, <2>1, <2>2 DEF WorkersMatch, PausePC, HeldProgress
  <2>5. pc'[w] \in {"result", "reset"} /\ (pc'[w] = "reset" <=> ext[cur[w]] = "pending")
    BY <1>t, <2>2, <2>4
  <2> QED BY <1>0, <1>t, <2>2, <2>4, <2>5 DEF HeldProgress, Runnable
<1>12. ASSUME NEW w \in Worker, PauseReset(w) PROVE HeldProgress'
  <2>1. HasTask(w)
    BY <1>0, <1>12, HeldFacts DEF PauseReset, TaskPC
  <2>2. /\ pc[w] = "reset"
        /\ pc' = [pc EXCEPT ![w] = "follow"]
        /\ UNCHANGED <<cur, ext, op, paused, stream_idx>>
    BY <1>12 DEF PauseReset, Goto
  <2> QED BY <1>0, <2>1, <2>2, <1>t, WorkerFacts, TaskFacts, DispatchAssumption
    DEF HeldProgress, Runnable, WorkersMatch, HeldOnce, TaskPC, PausePC, PollPC
<1>13. ASSUME NEW w \in Worker, PauseFollow(w) PROVE HeldProgress'
  <2>1. HasTask(w)
    BY <1>0, <1>13, HeldFacts DEF PauseFollow, TaskPC
  <2>2. /\ pc[w] = "follow"
        /\ pc' = [pc EXCEPT ![w] = IF ext[cur[w]] = "reached" THEN "up" ELSE "append"]
        /\ UNCHANGED <<cur, ext, op, paused, stream_idx>>
    BY <1>13 DEF PauseFollow, Goto
  <2> QED BY <1>0, <2>1, <2>2, <1>t, WorkerFacts, TaskFacts, DispatchAssumption
    DEF HeldProgress, Runnable, WorkersMatch, HeldOnce, TaskPC, PausePC, PollPC
<1>14. ASSUME NEW w \in Worker, PauseAppend(w) PROVE HeldProgress'
  <2>1. HasTask(w)
    BY <1>0, <1>14, HeldFacts DEF PauseAppend, TaskPC
  <2>2. /\ pc[w] = "append"
        /\ pc' = [pc EXCEPT ![w] = "count"]
        /\ paused' = [paused EXCEPT ![cur[w]] = TRUE]
        /\ UNCHANGED <<cur, ext, op, stream_idx>>
    BY <1>14 DEF PauseAppend, Goto
  <2> QED BY <1>0, <2>1, <2>2, <1>t, WorkerFacts, TaskFacts, DispatchAssumption
    DEF HeldProgress, Runnable, WorkersMatch, HeldOnce, TaskPC, PausePC, PollPC
<1>15. ASSUME NEW w \in Worker, PauseCount(w) PROVE HeldProgress'
  <2>1. HasTask(w)
    BY <1>0, <1>15, HeldFacts DEF PauseCount, TaskPC
  <2>2. /\ pc[w] = "count"
        /\ pc' = [pc EXCEPT ![w] = "up"]
        /\ UNCHANGED <<cur, ext, op, paused, stream_idx>>
    BY <1>15 DEF PauseCount, Goto
  <2> QED BY <1>0, <2>1, <2>2, <1>t, WorkerFacts, TaskFacts, DispatchAssumption
    DEF HeldProgress, Runnable, WorkersMatch, HeldOnce, TaskPC, PausePC, PollPC
<1>16. ASSUME NEW w \in Worker, PauseUp(w) PROVE HeldProgress'
  <2>1. HasTask(w)
    BY <1>0, <1>16, HeldFacts DEF PauseUp, TaskPC
  <2>2. /\ pc[w] = "up"
        /\ pc' = [pc EXCEPT ![w] = "notify"]
        /\ UNCHANGED <<cur, ext, op, paused, stream_idx>>
    BY <1>16 DEF PauseUp, Goto
  <2> QED BY <1>0, <2>1, <2>2, <1>t, WorkerFacts, TaskFacts, DispatchAssumption
    DEF HeldProgress, Runnable, WorkersMatch, HeldOnce, TaskPC, PausePC, PollPC
<1>17. ASSUME NEW w \in Worker, PauseNotify(w) PROVE HeldProgress'
  <2>1. HasTask(w)
    BY <1>0, <1>17, HeldFacts DEF PauseNotify, TaskPC
  <2>2. /\ pc[w] = "notify"
        /\ pc' = [pc EXCEPT ![w] = IF w \in PoolWorker THEN "gather" ELSE "poll"]
        /\ cur' = [cur EXCEPT ![w] = NoTask]
        /\ UNCHANGED <<ext, op, paused, stream_idx>>
    BY <1>17 DEF PauseNotify, Goto, AfterTask
  <2> QED BY <1>0, <2>1, <2>2, <1>t, WorkerFacts, TaskFacts, DispatchAssumption
    DEF HeldProgress, Runnable, WorkersMatch, HeldOnce, TaskPC, PausePC, PollPC
<1>18. ASSUME NEW w \in Worker, SetResult(w) PROVE HeldProgress'
  <2>1. HasTask(w)
    BY <1>0, <1>18, HeldFacts DEF SetResult, TaskPC
  <2>2. /\ pc[w] = "result"
        /\ pc' = [pc EXCEPT ![w] = "wake"]
        /\ UNCHANGED <<cur, ext, op, paused, stream_idx>>
    BY <1>18 DEF SetResult, Goto
  <2> QED BY <1>0, <2>1, <2>2, <1>t, WorkerFacts, TaskFacts, DispatchAssumption
    DEF HeldProgress, Runnable, WorkersMatch, HeldOnce, TaskPC, PausePC, PollPC
<1>19. ASSUME NEW w \in Worker, WakeMain(w) PROVE HeldProgress'
  <2>1. HasTask(w)
    BY <1>0, <1>19, HeldFacts DEF WakeMain, TaskPC
  <2>2. /\ pc[w] = "wake"
        /\ pc' = [pc EXCEPT ![w] = IF w = "cuda" THEN "record" ELSE "post"]
        /\ UNCHANGED <<cur, ext, op, paused, stream_idx>>
    BY <1>19 DEF WakeMain, Goto
  <2> QED BY <1>0, <2>1, <2>2, <1>t, WorkerFacts, TaskFacts, DispatchAssumption
    DEF HeldProgress, Runnable, WorkersMatch, HeldOnce, TaskPC, PausePC, PollPC
<1>20. ASSUME NEW w \in Worker, FinishTask(w) PROVE HeldProgress'
  <2>1. HasTask(w)
    BY <1>0, <1>20, HeldFacts DEF FinishTask, TaskPC
  <2>2. /\ pc[w] = "post"
        /\ pc' = [pc EXCEPT ![w] = IF w \in PoolWorker THEN "gather" ELSE "poll"]
        /\ cur' = [cur EXCEPT ![w] = NoTask]
        /\ UNCHANGED <<ext, op, paused, stream_idx>>
    BY <1>20 DEF FinishTask, Goto, AfterTask
  <2> QED BY <1>0, <2>1, <2>2, <1>t, WorkerFacts, TaskFacts, DispatchAssumption
    DEF HeldProgress, Runnable, WorkersMatch, HeldOnce, TaskPC, PausePC, PollPC
<1>21. CASE PollNothing
  <2>2. /\ pc["mpi"] = "poll"
        /\ \E p \in {"gather", "stopped"} : pc' = [pc EXCEPT !["mpi"] = p]
        /\ UNCHANGED <<cur, ext, op, paused, stream_idx>>
    BY <1>21 DEF PollNothing, Goto, AfterPoll, TestStop
  <2> QED BY <1>0, <2>2, <1>t, WorkerFacts, TaskFacts, DispatchAssumption
    DEF HeldProgress, Runnable, WorkersMatch, HeldOnce, TaskPC, PausePC, PollPC
<1>22. CASE Poll
  <2>2. /\ pc["mpi"] = "poll" /\ mutex = "free"
        /\ pc' = [pc EXCEPT !["mpi"] = "status"]
        /\ UNCHANGED <<cur, ext, op, paused, stream_idx>>
    BY <1>22 DEF Poll, Goto
  <2> QED BY <1>0, <2>2, <1>t, WorkerFacts, TaskFacts, DispatchAssumption
    DEF HeldProgress, Runnable, WorkersMatch, HeldOnce, TaskPC, PausePC, PollPC
<1>23. CASE PollStatus
  <2>1. Polled
    BY <1>0, <1>23, PolledTasks DEF PollStatus, PollPC
  <2>2. /\ pc["mpi"] = "status"
        /\ pc' = [pc EXCEPT !["mpi"] = IF paused[Current] THEN "resume" ELSE "erase"]
        /\ ext' = [ext EXCEPT ![Current] = "reached"]
        /\ UNCHANGED <<cur, op, paused, stream_idx>>
    BY <1>23 DEF PollStatus, Goto, OutStatus, Current
  <2>4. NotHeld(Current)
    BY <1>0, <2>1, <2>2, PolledNotHeld DEF PollPC
  <2>5. \A v \in Worker : cur[v] \in Task => ext'[cur[v]] = ext[cur[v]]
    BY <1>t, <2>1, <2>2, <2>4 DEF NotHeld
  <2> QED BY <1>0, <1>t, <2>2, <2>5, WorkerFacts, TaskFacts
    DEF HeldProgress, Runnable, WorkersMatch, TaskPC, PausePC
<1>24. CASE PollResume
  <2>1. Polled
    BY <1>0, <1>24, PolledTasks DEF PollResume, PollPC
  <2>2. /\ pc["mpi"] = "resume"
        /\ pc' = [pc EXCEPT !["mpi"] = "erase"]
        /\ UNCHANGED <<cur, ext, op, paused, stream_idx>>
    BY <1>24 DEF PollResume, Goto
  <2> QED BY <1>0, <2>1, <2>2, <1>t, WorkerFacts, TaskFacts, DispatchAssumption
    DEF HeldProgress, Runnable, WorkersMatch, HeldOnce, TaskPC, PausePC, PollPC
<1>25. CASE PollErase
  <2>1. Polled
    BY <1>0, <1>25, PolledTasks DEF PollErase, PollPC
  <2>2. /\ pc["mpi"] = "erase"
        /\ \E p \in (IF slot = Len(indices) THEN {"gather", "stopped"} ELSE {"status"}) :
             pc' = [pc EXCEPT !["mpi"] = p]
        /\ UNCHANGED <<cur, ext, op, paused, stream_idx>>
    BY <1>25 DEF PollErase, Goto, AfterPoll, TestStop, Current
  <2> QED BY <1>0, <2>1, <2>2, <1>t, WorkerFacts, TaskFacts, DispatchAssumption
    DEF HeldProgress, Runnable, WorkersMatch, HeldOnce, TaskPC, PausePC, PollPC
<1>26. CASE Launch
  <2>1. CudaHasTask
    BY <1>0, <1>26, HeldFacts, WorkerFacts DEF Launch, TaskPC
  <2>2. /\ pc["cuda"] = "body"
        /\ pc' = [pc EXCEPT !["cuda"] = "result"]
        /\ op' = [op EXCEPT ![cur["cuda"]] = "queued"]
        /\ stream_idx' = [stream_idx EXCEPT ![cur["cuda"]] = next_stream % NumStreams]
        /\ UNCHANGED <<cur, ext, paused>>
    BY <1>26 DEF Launch, Goto
  <2>4. \A v \in Worker : v # "cuda" /\ pc[v] \in TaskPC =>
          /\ cur[v] \in Task /\ cur[v] # cur["cuda"] /\ pc'[v] = pc[v]
          /\ op'[cur[v]] = op[cur[v]] /\ ext'[cur[v]] = ext[cur[v]] /\ stream_idx'[cur[v]] = stream_idx[cur[v]]
    BY <1>0, <1>t, <2>1, <2>2, WorkerFacts DEF HeldOnce, WorkersMatch
  <2>5. ext'[cur["cuda"]] = "none" /\ op'[cur["cuda"]] # "none" /\ pc'["cuda"] = "result"
    BY <1>0, <1>t, <2>1, <2>2, WorkerFacts DEF HeldProgress
  <2>6. \A v \in Worker : v # "cuda" => pc'[v] = pc[v]
    BY <1>t, <2>2
  <2>7. cur["cuda"] \notin Request
    BY <2>1, DispatchAssumption
  <2> QED BY <1>0, <2>2, <2>4, <2>5, <2>6, <2>7 DEF HeldProgress, Runnable, TaskPC
<1>27. CASE RecordEvent
  <2>1. CudaHasTask
    BY <1>0, <1>27, HeldFacts, WorkerFacts DEF RecordEvent, TaskPC
  <2>2. /\ pc["cuda"] = "record"
        /\ pc' = [pc EXCEPT !["cuda"] = "pre"]
        /\ ext' = [ext EXCEPT ![cur["cuda"]] = "pending"]
        /\ UNCHANGED <<cur, op, paused, stream_idx>>
    BY <1>27 DEF RecordEvent, Goto, MakeEvent
  <2>4. \A v \in Worker : v # "cuda" /\ pc[v] \in TaskPC =>
          /\ cur[v] \in Task /\ cur[v] # cur["cuda"] /\ pc'[v] = pc[v]
          /\ op'[cur[v]] = op[cur[v]] /\ ext'[cur[v]] = ext[cur[v]] /\ stream_idx'[cur[v]] = stream_idx[cur[v]]
    BY <1>0, <1>t, <2>1, <2>2, WorkerFacts DEF HeldOnce, WorkersMatch
  <2>5. ext'[cur["cuda"]] # "none" /\ pc'["cuda"] = "pre"
    BY <1>0, <1>t, <2>1, <2>2, WorkerFacts DEF HeldProgress
  <2>6. \A v \in Worker : v # "cuda" => pc'[v] = pc[v]
    BY <1>t, <2>2
  <2>7. cur["cuda"] \notin Request
    BY <2>1, DispatchAssumption
  <2> QED BY <1>0, <2>2, <2>4, <2>5, <2>6, <2>7 DEF HeldProgress, Runnable, TaskPC
<1>28. CASE LaunchedPre
  <2>1. CudaHasTask
    BY <1>0, <1>28, HeldFacts, WorkerFacts DEF LaunchedPre, TaskPC
  <2>2. /\ pc["cuda"] = "pre"
        /\ pc' = [pc EXCEPT !["cuda"] = "post"]
        /\ UNCHANGED <<cur, ext, op, paused, stream_idx>>
    BY <1>28 DEF LaunchedPre, Goto
  <2>4. cur["cuda"] \notin Request
    BY <2>1, DispatchAssumption
  <2> QED BY <1>0, <2>1, <2>2, <2>4, <1>t, WorkerFacts, TaskFacts, DispatchAssumption
    DEF HeldProgress, Runnable, WorkersMatch, HeldOnce, TaskPC, PausePC, PollPC
<1>29. CASE CudaPollNothing
  <2>2. /\ pc["cuda"] = "poll"
        /\ \E p \in {"gather", "stopped"} : pc' = [pc EXCEPT !["cuda"] = p]
        /\ UNCHANGED <<cur, ext, op, paused, stream_idx>>
    BY <1>29 DEF CudaPollNothing, Goto, AfterPoll, TestStop
  <2> QED BY <1>0, <2>2, <1>t, WorkerFacts, TaskFacts, DispatchAssumption
    DEF HeldProgress, Runnable, WorkersMatch, HeldOnce, TaskPC, PausePC, PollPC
<1>30. CASE CudaPoll
  <2>1. FrontPolled
    BY <1>0, <1>30, PolledTasks DEF CudaPoll, FrontDone
  <2>2. /\ pc["cuda"] = "poll" /\ FrontDone
        /\ \E p \in {"gather", "stopped"} : pc' = [pc EXCEPT !["cuda"] = p]
        /\ ext' = [ext EXCEPT ![Front] = "reached"]
        /\ UNCHANGED <<cur, op, paused, stream_idx>>
    BY <1>30 DEF CudaPoll, Goto, AfterPoll, TestStop
  <2>4. NotHeld(Front)
    BY <1>0, <2>1, <2>2, PolledNotHeld DEF PollPC
  <2>5. \A v \in Worker : cur[v] \in Task => ext'[cur[v]] = ext[cur[v]]
    BY <1>t, <2>1, <2>2, <2>4 DEF NotHeld
  <2> QED BY <1>0, <1>t, <2>2, <2>5, WorkerFacts, TaskFacts
    DEF HeldProgress, Runnable, WorkersMatch, TaskPC, PausePC
<1>31. ASSUME NEW t \in Task, RequestCompletes(t) PROVE HeldProgress'
  <2>2. /\ t \in Request /\ op[t] = "running"
        /\ op' = [op EXCEPT ![t] = "done"]
        /\ UNCHANGED <<pc, cur, ext, paused, stream_idx>>
    BY <1>31 DEF RequestCompletes
  <2> QED BY <1>0, <2>2, <1>t, WorkerFacts, TaskFacts, DispatchAssumption
    DEF HeldProgress, Runnable, WorkersMatch, HeldOnce, TaskPC, PausePC, PollPC
<1>32. ASSUME NEW i \in DOMAIN streams, StreamStep(i) PROVE HeldProgress'
  <2>1. op' = op \/ \E k \in Task : /\ stream_idx[k] # NoStream /\ Sched[k] = "cuda" /\ op[k] # "none"
                                   /\ (op' = [op EXCEPT ![k] = "running"] \/ op' = [op EXCEPT ![k] = "done"])
    BY <1>0, <1>32, StreamEffect
  <2>2. UNCHANGED <<pc, cur, ext, paused, stream_idx>>
    BY <1>32 DEF StreamStep
  <2>3. \A t \in Task : (op'[t] # op[t] => stream_idx[t] # NoStream /\ Sched[t] = "cuda" /\ op[t] # "none" /\ op'[t] # "none")
    <3>1. CASE op' = op
      BY <3>1
    <3>2. CASE op' # op
      <4>1. PICK k \in Task : /\ stream_idx[k] # NoStream /\ Sched[k] = "cuda" /\ op[k] # "none"
                             /\ (op' = [op EXCEPT ![k] = "running"] \/ op' = [op EXCEPT ![k] = "done"])
        BY <2>1, <3>2
      <4>2. \A t \in Task : t # k => op'[t] = op[t]
        BY <1>t, <4>1
      <4>3. op'[k] # "none"
        BY <1>t, <4>1
      <4> QED BY <4>1, <4>2, <4>3
    <3> QED BY <3>1, <3>2
  <2>4. \A v \in Worker : pc[v] \in TaskPC => cur[v] \in Task /\ (v = "cuda" <=> Sched[cur[v]] = "cuda")
    BY <1>0, HeldFacts
  <2> QED BY <1>0, <2>2, <2>3, <2>4 DEF HeldProgress, Runnable, TaskPC
<1> QED
  BY <1>2, <1>3, <1>4, <1>5, <1>6, <1>7, <1>8, <1>9, <1>10, <1>11, <1>12, <1>13, <1>14, <1>15,
     <1>16, <1>17, <1>18, <1>19, <1>20, <1>21, <1>22, <1>23, <1>24, <1>25, <1>26, <1>27, <1>28,
     <1>29, <1>30, <1>31, <1>32
  DEF Next, WorkerStep, MpiStep, CudaStep, MainStep, Ended

-----------------------------------------------------------------------------
(***************************************************************************)
(* Tasks that have been touched, and steps that release nobody.            *)
(***************************************************************************)
LEMMA Touched ==
  ASSUME Types, NewUntouched, WaitingCounted, NEW t \in Task,
         \/ ready[t] # 0 \/ ~ NotHeld(t) \/ op[t] # "none" \/ ext[t] # "none"
         \/ stream_idx[t] # NoStream
  PROVE  Old(t) /\ Free(t)
BY DEF NewUntouched, WaitingCounted

\* The task whose request or event is polled waits for nobody and nobody has it.
LEMMA PolledTouched ==
  ASSUME RequestsOnMpi, Types, WorkersMatch, NewUntouched, WaitingCounted, PoolAligned,
         RecordsBehind
  PROVE  /\ pc["mpi"] \in PollPC =>
              /\ Old(Current) /\ Free(Current) /\ NotHeld(Current)
              /\ ext[Current] = IF pc["mpi"] = "status" THEN "pending" ELSE "reached"
         /\ pc["cuda"] = "poll" /\ cuda_events # <<>> =>
              /\ Old(Front) /\ Free(Front) /\ NotHeld(Front) /\ ext[Front] = "pending"
              /\ Sched[Front] = "cuda"
<1>1. ASSUME pc["mpi"] \in PollPC
      PROVE  /\ Old(Current) /\ Free(Current) /\ NotHeld(Current)
             /\ ext[Current] = IF pc["mpi"] = "status" THEN "pending" ELSE "reached"
  <2>1. Current \in Task /\ indices[slot] \in 1..Len(requests) /\ events = requests
    BY <1>1, PolledTasks
  <2>2. ext[Current] = IF pc["mpi"] = "status" THEN "pending" ELSE "reached"
    BY <1>1, <2>1 DEF PoolAligned, Current, PollPC
  <2>3. NotHeld(Current)
    BY <1>1, PolledNotHeld
  <2> QED BY <2>1, <2>2, <2>3, Touched
<1>2. ASSUME pc["cuda"] = "poll", cuda_events # <<>>
      PROVE  /\ Old(Front) /\ Free(Front) /\ NotHeld(Front) /\ ext[Front] = "pending"
             /\ Sched[Front] = "cuda"
  <2>1. Front \in Task /\ Head(cuda_events) = cuda_events[1]
    BY <1>2, PolledTasks
  <2>2. 1 \in DOMAIN cuda_events
    <3>1. cuda_events \in Seq([event : Nat, task : Task])
      BY DEF Types, CudaTypes
    <3> QED BY <1>2, <3>1, HeadFacts
  <2>3. ext[Front] = "pending" /\ Sched[Front] = "cuda"
    BY <2>1, <2>2 DEF RecordsBehind
  <2>4. NotHeld(Front)
    BY <1>2, PolledNotHeld
  <2> QED BY <2>1, <2>3, <2>4, Touched
<1> QED BY <1>1, <1>2

LEMMA WaitingOld ==
  ASSUME NewUntouched, NEW t \in Task, ~ Free(t)
  PROVE  Old(t)
BY FreeFacts DEF NewUntouched

LEMMA HeldTouched ==
  ASSUME Types, NewUntouched, WaitingCounted, NEW w \in Worker, cur[w] \in Task
  PROVE  Old(cur[w]) /\ Free(cur[w]) /\ ~ Finished(cur[w])
<1>1. ~ NotHeld(cur[w])
  BY DEF NotHeld
<1> QED BY <1>1, Touched DEF Finished

LEMMA IncomingKept ==
  ASSUME Hypotheses, IInv, followers' = followers,
         \/ post' = post
         \/ \E t \in Task : post[t] # 0 /\ post' = [post EXCEPT ![t] = Up(post[t])],
         \/ pre' = pre
         \/ \E t \in Task : Sched[t] # "cuda" /\ \A u \in Task : u # t => pre'[u] = pre[u]
  PROVE  SameIncoming
<1>0. Types /\ FollowersMatch /\ StreamsMatch /\ PostCounts
  BY DEF IInv
<1>1. post \in [Task -> Nat]
  BY <1>0 DEF Types, CountTypes
<1>2. ASSUME NEW p \in Task PROVE (post'[p] = 0) <=> (post[p] = 0)
  <2>1. CASE post' = post
    BY <2>1
  <2>2. CASE \E t \in Task : post[t] # 0 /\ post' = [post EXCEPT ![t] = Up(post[t])]
    <3>1. PICK t \in Task : post[t] # 0 /\ post' = [post EXCEPT ![t] = Up(post[t])]
      BY <2>2
    <3>2. post[t] < 4 /\ post[t] \in Nat
      BY <1>0, <1>1 DEF PostCounts
    <3>3. Up(post[t]) = post[t] + 1
      BY <3>2, UpFacts
    <3> QED BY <1>1, <3>1, <3>2, <3>3
  <2> QED BY <2>1, <2>2
<1>3. ASSUME NEW p \in Task, stream_idx[p] # NoStream PROVE pre'[p] = pre[p]
  BY <1>0, <1>3 DEF StreamsMatch
<1> QED BY <1>0, <1>2, <1>3, IncomingSame

\* MPI: the pre-event of the task that is notified gets ready.
LEMMA PollResumeEffect ==
  ASSUME RequestsOnMpi, Types, WorkersMatch, PoolAligned, RecordsBehind, ResumeCounted, PollResume
  PROVE  /\ pre' = [pre EXCEPT ![Current] = 1] /\ ready' = [ready EXCEPT ![Current] = 1]
<1>1. Current \in Task /\ pre[Current] = 2 /\ ready[Current] = 0
  BY PolledTasks DEF PollResume, PollPC, ResumeCounted
<1>2. Down(2) = 1
  BY DownFacts, UpFacts
<1>3. pre \in [Task -> Nat] /\ ready \in [Task -> Int]
  BY DEF Types, CountTypes, EventTypes
<1>4. /\ pre' = [t \in Task |-> IF t = Current THEN Down(pre[t]) ELSE pre[t]]
      /\ ready' = [t \in Task |-> IF t = Current /\ pre[t] = 2 THEN ready[t] + 1 ELSE ready[t]]
  BY DEF PollResume, NotifyPre, Current
<1>5. \A t \in Task : pre'[t] = (IF t = Current THEN 1 ELSE pre[t])
                      /\ ready'[t] = (IF t = Current THEN 1 ELSE ready[t])
  BY <1>1, <1>2, <1>3, <1>4
<1>6. pre' = [pre EXCEPT ![Current] = 1]
  BY ZenonT(60), <1>1, <1>3, <1>4, <1>5
<1>7. ready' = [ready EXCEPT ![Current] = 1]
  BY ZenonT(60), <1>1, <1>3, <1>4, <1>5
<1> QED BY <1>6, <1>7

\* What a task waits for after its dependencies have been initialised.
LEMMA InitEffect ==
  ASSUME Hypotheses, IInv, NEW w \in Worker, NEW t \in Task, InitDependencies(w, t)
  PROVE  /\ Incoming(t)' = Edges(t)
         /\ \A u \in Task : u # t => Incoming(u)' = Incoming(u) /\ (Free(u)' <=> Free(u))
         /\ pre' = [pre EXCEPT ![t] = 1 + Cardinality(Edges(t))]
         /\ Cardinality(Edges(t)) \in Nat
         /\ Edges(t) = {} <=> Free(t)'
         /\ Edges(t) = {} => Cardinality(Edges(t)) = 0
<1>0. Types /\ NewUntouched /\ CountsFit /\ WaitingCounted
  BY DEF IInv, Hypotheses
<1>1. /\ t \in emplaced /\ post' = post
      /\ pre' = [pre EXCEPT ![t] = (pre[t] + Cardinality(Edges(t))) % 65536]
      /\ followers' = [p \in Task |-> [e \in {"pre", "post"} |->
             IF <<p, e>> \in Edges(t) THEN followers[p][e] \union {t} ELSE followers[p][e]]]
  BY DEF InitDependencies
<1>2. pre[t] = 1 /\ \A p \in Task : \A e \in {"pre", "post"} : t \notin followers[p][e]
  BY <1>0, <1>1 DEF NewUntouched, Old
<1>3. Cardinality(Edges(t)) \in Nat /\ Cardinality(Edges(t)) < 65535
  <2>1. IsFiniteSet(Preds[t])
    BY DispatchAssumption, TaskFacts, FS_Subset
  <2>2. Cardinality(Preds[t]) \in Nat
    BY <2>1, FS_CardinalityType
  <2> QED BY <1>0, <2>2, EdgesFinite DEF CountsFit
<1>4. (1 + Cardinality(Edges(t))) % 65536 = 1 + Cardinality(Edges(t))
  BY <1>3
<1>5. pre \in [Task -> Nat] /\ followers \in [Task -> [{"pre", "post"} -> SUBSET Task]]
  BY <1>0 DEF Types, CountTypes, EventTypes
<1>6. pre' = [pre EXCEPT ![t] = 1 + Cardinality(Edges(t))]
  <2> DEFINE n == (pre[t] + Cardinality(Edges(t))) % 65536
  <2>1. n = 1 + Cardinality(Edges(t))
    BY <1>2, <1>4
  <2>2. pre' = [pre EXCEPT ![t] = n]
    BY <1>1
  <2> HIDE DEF n
  <2> QED BY <2>1, <2>2
<1>7. \A p \in Task : (pre'[p] = 0) <=> (pre[p] = 0)
  BY <1>2, <1>3, <1>5, <1>6
<1>8. ASSUME NEW u \in Task, NEW x \in Task \X {"pre", "post"}
      PROVE  (u \in followers'[x[1]][x[2]]) <=> (u \in followers[x[1]][x[2]] \/ (u = t /\ x \in Edges(t)))
  <2>1. x[1] \in Task /\ x[2] \in {"pre", "post"} /\ x = <<x[1], x[2]>>
    OBVIOUS
  <2>2. followers'[x[1]][x[2]] = IF x \in Edges(t) THEN followers[x[1]][x[2]] \union {t}
                                                   ELSE followers[x[1]][x[2]]
    BY <1>1, <2>1
  <2> QED BY <2>2
<1>9. \A u \in Task : Incoming(u) \subseteq Task \X {"pre", "post"}
                      /\ Incoming(u)' \subseteq Task \X {"pre", "post"}
  BY DEF Incoming
<1>10. ASSUME NEW u \in Task, u # t
       PROVE  Incoming(u)' = Incoming(u)
  <2>1. ASSUME NEW x \in Task \X {"pre", "post"}
        PROVE  (x \in Incoming(u)') <=> (x \in Incoming(u))
    <3>1. x[1] \in Task /\ x[2] \in {"pre", "post"}
      OBVIOUS
    <3>2. (u \in followers'[x[1]][x[2]]) <=> (u \in followers[x[1]][x[2]])
      BY <1>8, <1>10
    <3>3. (pre'[x[1]] = 0) <=> (pre[x[1]] = 0)
      BY <1>7, <3>1
    <3> QED BY <1>1, <3>1, <3>2, <3>3 DEF Incoming
  <2> QED BY <1>9, <2>1
<1>11. Incoming(t)' = Edges(t)
  <2>1. Edges(t) \subseteq Task \X {"pre", "post"}
    BY DispatchAssumption DEF Edges
  <2>2. ASSUME NEW x \in Task \X {"pre", "post"}
        PROVE  (x \in Incoming(t)') <=> (x \in Edges(t))
    <3>1. x[1] \in Task /\ x[2] \in {"pre", "post"}
      OBVIOUS
    <3>2. (t \in followers'[x[1]][x[2]]) <=> x \in Edges(t)
      BY <1>2, <1>8, <3>1
    <3>3. (pre'[x[1]] = 0) <=> (pre[x[1]] = 0)
      BY <1>7, <3>1
    <3>4. x \in Edges(t) => (x[2] = "pre" => pre[x[1]] # 0) /\ (x[2] = "post" => post[x[1]] # 0)
      BY DEF Edges
    <3> QED BY <1>1, <3>1, <3>2, <3>3, <3>4 DEF Incoming
  <2> QED BY <1>9, <2>1, <2>2
<1>12. \A u \in Task : u # t => (Free(u)' <=> Free(u))
  BY <1>10 DEF Free
<1>13. Edges(t) = {} <=> Free(t)'
  BY <1>11 DEF Free
<1>14. Edges(t) = {} => Cardinality(Edges(t)) = 0
  BY FS_EmptySet
<1> QED BY <1>3, <1>6, <1>10, <1>11, <1>12, <1>13, <1>14
\* The main thread: which tasks have been emplaced.
LEMMA BornKept ==
  ASSUME Types, EndOfProgram \/ EnterWaker \/ TestResult \/ Idle \/ TakeResult \/ Barrier \/ Stop \/ Join
  PROVE  emplaced' = emplaced /\ \A t \in Task : (Born(t)' <=> Born(t)) /\ (Old(t)' <=> Old(t))
<1>0. main \in [pc : MainPC, t : 1..(MaxTask + 1), s : Nat] /\ MaxTask \in Nat
  BY TaskFacts DEF Types, MainTypes
<1>1. emplaced' = emplaced
  BY DEF EndOfProgram, EnterWaker, TestResult, Idle, TakeResult, Barrier, Stop, Join
<1>2. CASE EndOfProgram
  <2>1. main.t \notin Task /\ main.pc = "emplace" /\ main' = [main EXCEPT !.pc = "barrier"]
    BY <1>2 DEF EndOfProgram, MainGoto
  <2>2. main'.t = main.t /\ \A t \in Task : t # main.t
    BY <1>0, <2>1
  <2> QED BY <1>1, <2>2 DEF Born, Old
<1>3. CASE TakeResult
  <2>1. main.pc = "take" /\ main' = [main EXCEPT !.pc = "emplace", !.t = main.t + 1]
    BY <1>3 DEF TakeResult
  <2>2. main'.pc = "emplace" /\ main'.t = main.t + 1 /\ main.t \in Int
    BY <1>0, <2>1
  <2>3. \A t \in Task : t \in Int
    BY TaskFacts
  <2> QED BY <1>1, <2>1, <2>2, <2>3 DEF Born, Old
<1>4. CASE EnterWaker \/ TestResult \/ Idle \/ Barrier \/ Stop \/ Join
  <2>1. main'.t = main.t /\ main.pc # "emplace" /\ main'.pc # "emplace"
    BY <1>0, <1>4 DEF EnterWaker, TestResult, Idle, Barrier, Stop, Join, MainGoto
  <2> QED BY <1>1, <2>1 DEF Born, Old
<1> QED BY <1>2, <1>3, <1>4

LEMMA EmplaceEffect ==
  ASSUME Types, Emplace
  PROVE  /\ main.t \in Task /\ emplaced' = emplaced \union {main.t}
         /\ \A t \in Task : t = main.t => ~ Born(t) /\ Born(t)' /\ ~ Old(t) /\ ~ Old(t)'
         /\ \A t \in Task : t # main.t => (Born(t)' <=> Born(t)) /\ (Old(t)' <=> Old(t))
<1>0. main \in [pc : MainPC, t : 1..(MaxTask + 1), s : Nat] /\ MaxTask \in Nat
  BY TaskFacts DEF Types, MainTypes
<1>1. /\ main.pc = "emplace" /\ main.t \in Task /\ emplaced' = emplaced \union {main.t}
      /\ main' = [main EXCEPT !.pc = "get"] \/ main' = [main EXCEPT !.t = main.t + 1]
  BY DEF Emplace, MainGoto
<1>2. \/ main'.pc = "get" /\ main'.t = main.t
      \/ main'.pc = "emplace" /\ main'.t = main.t + 1
  BY <1>0, <1>1
<1>3. main.t \in Int /\ \A t \in Task : t \in Int
  BY <1>0, TaskFacts
<1> QED BY <1>1, <1>2, <1>3 DEF Born, Old

LEMMA NewUntouchedStep ==
  ASSUME Hypotheses, IInv, [Next]_vars
  PROVE  NewUntouched'
<1>0. /\ RequestsOnMpi /\ Types /\ WorkersMatch /\ NewUntouched /\ FollowersMatch
      /\ WaitingCounted /\ ReadyOnce /\ HeldOnce /\ HeldPre /\ HeldProgress /\ PostCounts
      /\ ResumeCounted /\ PoolAligned /\ StreamsMatch /\ RecordsBehind
  BY DEF Hypotheses, IInv
<1>t. /\ cur \in [Worker -> Task \union {NoTask}] /\ pre \in [Task -> Nat] /\ post \in [Task -> Nat]
      /\ ext \in [Task -> {"none", "pending", "reached"}] /\ emplaced \subseteq Task
      /\ op \in [Task -> {"none", "queued", "running", "done"}] /\ ready \in [Task -> Int]
      /\ stream_idx \in [Task -> {NoStream} \union 0..(NumStreams - 1)]
      /\ followers \in [Task -> [{"pre", "post"} -> SUBSET Task]]
  BY <1>0 DEF Types, CountTypes, EventTypes, WorkTypes, CudaTypes
<1>1. CASE UNCHANGED <<cur, emplaced, ext, followers, main, op, post, pre, ready, stream_idx>>
  BY <1>0, <1>1, <1>t DEF NewUntouched, Old, Born, NotHeld
<1>2. CASE UNCHANGED vars
  BY <1>1, <1>2 DEF vars
<1>3. ASSUME NEW w \in Worker,
             GatherNothing(w) \/ PushRequest(w) \/ Yield(w) \/ PauseFollow(w)
             \/ PauseAppend(w) \/ SetResult(w) \/ WakeMain(w)
      PROVE  NewUntouched'
  BY <1>1, <1>3
  DEF GatherNothing, PushRequest, Yield, PauseFollow, PauseAppend, SetResult, WakeMain, Goto
<1>4. ASSUME PollNothing \/ Poll \/ CudaPollNothing PROVE NewUntouched'
  BY <1>1, <1>4 DEF PollNothing, Poll, CudaPollNothing, Goto
<1>5. ASSUME NEW w \in Worker, NEW t \in Task, GatherReady(w, t) PROVE NewUntouched'
  <2>2. /\ pc[w] = "gather" /\ Sched[t] = SchedOf(w) /\ ready[t] > 0
        /\ ready' = [ready EXCEPT ![t] = ready[t] - 1]
        /\ cur' = [cur EXCEPT ![w] = t]
        /\ UNCHANGED <<pre, post, op, ext, stream_idx, followers, emplaced, main>>
    BY <1>5 DEF GatherReady, Goto, Mine
  <2>8. Old(t)
    BY <1>0, <1>t, <2>2, Touched
  <2> QED BY <1>0, <1>t, <2>2, <2>8 DEF NewUntouched, Old, Born, NotHeld
<1>6. ASSUME NEW w \in Worker, NEW t \in Task, InitDependencies(w, t) PROVE NewUntouched'
  <2>1. /\ t \in emplaced /\ emplaced' = emplaced \ {t}
        /\ cur' = cur \/ cur' = [cur EXCEPT ![w] = t]
        /\ followers' = [p \in Task |-> [e \in {"pre", "post"} |->
             IF <<p, e>> \in Edges(t) THEN followers[p][e] \union {t} ELSE followers[p][e]]]
    BY <1>6 DEF InitDependencies
  <2>2. UNCHANGED <<post, ready, op, ext, stream_idx, main>>
    BY <1>6 DEF InitDependencies
  <2>3. Old(t)' /\ \A u \in Task : u # t => (Old(u)' <=> Old(u))
    BY <1>0, <2>1, <2>2 DEF NewUntouched, Old, Born
  <2>4. \A u \in Task : u # t => pre'[u] = pre[u]
    BY <1>t, <1>6 DEF InitDependencies
  <2>5. \A u \in Task : u # t => \A p \in Task : \A e \in {"pre", "post"} : u \in followers'[p][e] => u \in followers[p][e]
    BY <1>t, <2>1
  <2>6. \A u \in emplaced' : Born(u)'
    BY <1>0, <2>1, <2>2 DEF NewUntouched, Born
  <2>7. \A u \in Task : u # t /\ NotHeld(u) => NotHeld(u)'
    BY <1>t, <2>1 DEF NotHeld
  <2> QED BY <1>0, <2>2, <2>3, <2>4, <2>5, <2>6, <2>7 DEF NewUntouched
<1>7. ASSUME NEW w \in Worker, Execute(w) PROVE NewUntouched'
  <2>1. HasTask(w)
    BY <1>0, <1>7, HeldFacts DEF Execute, TaskPC
  <2>2. pc[w] = "execute" /\ UNCHANGED <<post, op, ext, stream_idx, followers, emplaced, main, cur>>
    BY <1>7 DEF Execute, Goto
  <2>4. (pre' = pre \/ pre' = [pre EXCEPT ![cur[w]] = 0]) /\ ready' = ready
    <3>1. CASE w = "cuda"
      BY <1>7, <3>1 DEF Execute
    <3>2. CASE w # "cuda"
      BY <1>0, <1>7, <3>2, ExecuteEffect
    <3> QED BY <3>1, <3>2
  <2>8. Old(cur[w])
    BY <1>0, <2>1, HeldTouched
  <2> QED BY <1>0, <1>t, <2>1, <2>2, <2>8, <2>4 DEF NewUntouched, Old, Born, NotHeld
<1>8. ASSUME NEW w \in Worker, Compute(w) PROVE NewUntouched'
  <2>1. HasTask(w)
    BY <1>0, <1>8, HeldFacts DEF Compute, TaskPC
  <2>2. /\ pc[w] = "body" /\ w # "cuda" /\ cur[w] \notin Request
        /\ op' = [op EXCEPT ![cur[w]] = IF op[cur[w]] = "running" THEN "done" ELSE "running"]
        /\ UNCHANGED <<pre, post, ready, ext, stream_idx, followers, emplaced, main, cur>>
    BY <1>8 DEF Compute, Goto
  <2>8. Old(cur[w])
    BY <1>0, <2>1, HeldTouched
  <2> QED BY <1>0, <1>t, <2>1, <2>2, <2>8 DEF NewUntouched, Old, Born, NotHeld
<1>9. ASSUME NEW w \in Worker, GetStatus(w) PROVE NewUntouched'
  <2>1. HasTask(w)
    BY <1>0, <1>9, HeldFacts DEF GetStatus, TaskPC
  <2>2. /\ pc[w] = "body" /\ cur[w] \in Request
        /\ post' = [post EXCEPT ![cur[w]] = Up(post[cur[w]])]
        /\ op' = [op EXCEPT ![cur[w]] = "running"]
        /\ ext' = [ext EXCEPT ![cur[w]] = "pending"]
        /\ UNCHANGED <<pre, ready, stream_idx, followers, emplaced, main, cur>>
    BY <1>9 DEF GetStatus, Goto, MakeEvent
  <2>8. Old(cur[w])
    BY <1>0, <2>1, HeldTouched
  <2> QED BY <1>0, <1>t, <2>1, <2>2, <2>8 DEF NewUntouched, Old, Born, NotHeld
<1>10. ASSUME NEW w \in Worker, PauseReset(w) PROVE NewUntouched'
  <2>1. HasTask(w)
    BY <1>0, <1>10, HeldFacts DEF PauseReset, TaskPC
  <2>2. /\ pc[w] = "reset"
        /\ pre' = [pre EXCEPT ![cur[w]] = 1]
        /\ UNCHANGED <<post, ready, op, ext, stream_idx, followers, emplaced, main, cur>>
    BY <1>10 DEF PauseReset, Goto
  <2>8. Old(cur[w])
    BY <1>0, <2>1, HeldTouched
  <2> QED BY <1>0, <1>t, <2>1, <2>2, <2>8 DEF NewUntouched, Old, Born, NotHeld
<1>11. ASSUME NEW w \in Worker, PauseCount(w) PROVE NewUntouched'
  <2>1. HasTask(w)
    BY <1>0, <1>11, HeldFacts DEF PauseCount, TaskPC
  <2>2. /\ pc[w] = "count"
        /\ pre' = [pre EXCEPT ![cur[w]] = Up(pre[cur[w]])]
        /\ UNCHANGED <<post, ready, op, ext, stream_idx, followers, emplaced, main, cur>>
    BY <1>11 DEF PauseCount, Goto
  <2>8. Old(cur[w])
    BY <1>0, <2>1, HeldTouched
  <2> QED BY <1>0, <1>t, <2>1, <2>2, <2>8 DEF NewUntouched, Old, Born, NotHeld
<1>12. ASSUME NEW w \in Worker, PauseUp(w) PROVE NewUntouched'
  <2>1. HasTask(w)
    BY <1>0, <1>12, HeldFacts DEF PauseUp, TaskPC
  <2>2. /\ pc[w] = "up"
        /\ pre' = [pre EXCEPT ![cur[w]] = Up(pre[cur[w]])]
        /\ UNCHANGED <<post, ready, op, ext, stream_idx, followers, emplaced, main, cur>>
    BY <1>12 DEF PauseUp, Goto
  <2>8. Old(cur[w])
    BY <1>0, <2>1, HeldTouched
  <2> QED BY <1>0, <1>t, <2>1, <2>2, <2>8 DEF NewUntouched, Old, Born, NotHeld
<1>13. ASSUME NEW w \in Worker, PauseNotify(w) PROVE NewUntouched'
  <2>1. HasTask(w)
    BY <1>0, <1>13, HeldFacts DEF PauseNotify, TaskPC
  <2>2. /\ pc[w] = "notify"
        /\ cur' = [cur EXCEPT ![w] = NoTask]
        /\ UNCHANGED <<post, op, ext, stream_idx, followers, emplaced, main>>
    BY <1>13 DEF PauseNotify, Goto, AfterTask
  <2>4. pre' = [pre EXCEPT ![cur[w]] = 2] /\ ready' = ready
    BY <1>0, <1>13, PauseNotifyEffect
  <2>8. Old(cur[w])
    BY <1>0, <2>1, HeldTouched
  <2> QED BY <1>0, <1>t, <2>1, <2>2, <2>8, <2>4, TaskFacts DEF NewUntouched, Old, Born, NotHeld
<1>14. ASSUME NEW w \in Worker, FinishTask(w) PROVE NewUntouched'
  <2>1. HasTask(w)
    BY <1>0, <1>14, HeldFacts DEF FinishTask, TaskPC
  <2>2. /\ pc[w] = "post"
        /\ cur' = [cur EXCEPT ![w] = NoTask]
        /\ UNCHANGED <<op, ext, stream_idx, followers, emplaced, main>>
    BY <1>14 DEF FinishTask, Goto, AfterTask
  <2>4. PICK R \in SUBSET Task : ReleaseStep(R, NoTask)
    BY <1>0, <1>14, FinishTaskEffect
  <2>5. post' = [post EXCEPT ![cur[w]] = post[cur[w]] - 1]
    BY <1>0, <1>14, FinishTaskEffect
  <2>7. \A u \in Task : u \notin R /\ u # NoTask => pre'[u] = pre[u] /\ ready'[u] = ready[u]
    BY <2>4 DEF ReleaseStep
  <2>8. Old(cur[w]) /\ \A u \in R : Old(u)
    <3>1. Old(cur[w])
      BY <1>0, <2>1, HeldTouched
    <3>2. \A u \in R : Old(u)
      BY <1>0, <2>4, WaitingOld DEF ReleaseStep
    <3> QED BY <3>1, <3>2
  <2> QED
    BY <1>0, <1>t, <2>1, <2>2, <2>5, <2>7, <2>8, TaskFacts DEF NewUntouched, Old, Born, NotHeld
<1>15. CASE PollStatus
  <2>1. Polled
    BY <1>0, <1>15, PolledTasks DEF PollStatus, PollPC
  <2>2. /\ pc["mpi"] = "status"
        /\ ext' = [ext EXCEPT ![Current] = "reached"]
        /\ UNCHANGED <<pre, post, ready, op, stream_idx, followers, emplaced, main, cur>>
    BY <1>15 DEF PollStatus, Goto, OutStatus, Current
  <2>5. ext[Current] # "none"
    BY <1>0, <2>1 DEF PoolAligned, Current
  <2>8. Old(Current)
    BY <1>0, <2>1, <2>5, Touched
  <2> QED BY <1>0, <1>t, <2>1, <2>2, <2>8 DEF NewUntouched, Old, Born, NotHeld
<1>16. CASE PollResume
  <2>1. Polled
    BY <1>0, <1>16, PolledTasks DEF PollResume, PollPC
  <2>2. /\ pc["mpi"] = "resume"
        /\ UNCHANGED <<post, op, ext, stream_idx, followers, emplaced, main, cur>>
    BY <1>16 DEF PollResume, Goto
  <2>4. pre' = [pre EXCEPT ![Current] = 1] /\ ready' = [ready EXCEPT ![Current] = 1]
    BY <1>0, <1>16, PollResumeEffect
  <2>5. ext[Current] # "none"
    BY <1>0, <2>1 DEF PoolAligned, Current
  <2>8. Old(Current)
    BY <1>0, <2>1, <2>2, <2>5, Touched
  <2> QED BY <1>0, <1>t, <2>1, <2>2, <2>8, <2>4 DEF NewUntouched, Old, Born, NotHeld
<1>17. CASE PollErase
  <2>1. Polled
    BY <1>0, <1>17, PolledTasks DEF PollErase, PollPC
  <2>2. pc["mpi"] = "erase" /\ UNCHANGED <<op, ext, stream_idx, followers, emplaced, main, cur>>
    BY <1>17 DEF PollErase, Goto, AfterPoll, TestStop, Current
  <2>4. PICK R \in SUBSET Task : ReleaseStep(R, NoTask)
    BY <1>0, <1>17, PollEraseEffect
  <2>5. post' = [post EXCEPT ![Current] = post[Current] - 1]
    BY <1>0, <1>17, PollEraseEffect
  <2>6. ext[Current] # "none"
    BY <1>0, <2>1 DEF PoolAligned, Current
  <2>7. \A u \in Task : u \notin R /\ u # NoTask => pre'[u] = pre[u] /\ ready'[u] = ready[u]
    BY <2>4 DEF ReleaseStep
  <2>8. Old(Current) /\ \A u \in R : Old(u)
    <3>1. Old(Current)
      BY <1>0, <2>1, <2>6, Touched
    <3>2. \A u \in R : Old(u)
      BY <1>0, <2>4, WaitingOld DEF ReleaseStep
    <3> QED BY <3>1, <3>2
  <2> QED
    BY SMTT(60), <1>0, <1>t, <2>1, <2>2, <2>5, <2>7, <2>8, TaskFacts DEF NewUntouched, Old, Born, NotHeld
<1>18. CASE Launch
  <2>1. CudaHasTask
    BY <1>0, <1>18, HeldFacts, WorkerFacts DEF Launch, TaskPC
  <2>2. /\ pc["cuda"] = "body"
        /\ op' = [op EXCEPT ![cur["cuda"]] = "queued"]
        /\ stream_idx' = [stream_idx EXCEPT ![cur["cuda"]] = next_stream % NumStreams]
        /\ UNCHANGED <<pre, post, ready, ext, followers, emplaced, main, cur>>
    BY <1>18 DEF Launch, Goto
  <2>8. Old(cur["cuda"])
    BY <1>0, <2>1, HeldTouched, WorkerFacts
  <2> QED BY <1>0, <1>t, <2>1, <2>2, <2>8 DEF NewUntouched, Old, Born, NotHeld
<1>19. CASE RecordEvent
  <2>1. CudaHasTask
    BY <1>0, <1>19, HeldFacts, WorkerFacts DEF RecordEvent, TaskPC
  <2>2. /\ pc["cuda"] = "record"
        /\ post' = [post EXCEPT ![cur["cuda"]] = Up(post[cur["cuda"]])]
        /\ ext' = [ext EXCEPT ![cur["cuda"]] = "pending"]
        /\ UNCHANGED <<pre, ready, op, stream_idx, followers, emplaced, main, cur>>
    BY <1>19 DEF RecordEvent, Goto, MakeEvent
  <2>8. Old(cur["cuda"])
    BY <1>0, <2>1, HeldTouched, WorkerFacts
  <2> QED BY <1>0, <1>t, <2>1, <2>2, <2>8 DEF NewUntouched, Old, Born, NotHeld
<1>20. CASE LaunchedPre
  <2>1. CudaHasTask
    BY <1>0, <1>20, HeldFacts, WorkerFacts DEF LaunchedPre, TaskPC
  <2>2. pc["cuda"] = "pre" /\ UNCHANGED <<op, ext, stream_idx, followers, emplaced, main, cur>>
    BY <1>20 DEF LaunchedPre, Goto
  <2>4. PICK R \in SUBSET Task : ReleaseStep(R, cur["cuda"])
    BY <1>0, <1>20, LaunchedPreEffect
  <2>5. post' = post
    BY <1>20 DEF LaunchedPre
  <2>7. \A u \in Task : u \notin R /\ u # cur["cuda"] => pre'[u] = pre[u] /\ ready'[u] = ready[u]
    BY <2>4 DEF ReleaseStep
  <2>8. Old(cur["cuda"]) /\ \A u \in R : Old(u)
    <3>1. Old(cur["cuda"])
      BY <1>0, <2>1, HeldTouched, WorkerFacts
    <3>2. \A u \in R : Old(u)
      BY <1>0, <2>4, WaitingOld DEF ReleaseStep
    <3> QED BY <3>1, <3>2
  <2> QED
    BY <1>0, <1>t, <2>1, <2>2, <2>5, <2>7, <2>8, TaskFacts DEF NewUntouched, Old, Born, NotHeld
<1>21. CASE CudaPoll
  <2>1. FrontPolled
    BY <1>0, <1>21, PolledTasks DEF CudaPoll, FrontDone
  <2>2. /\ pc["cuda"] = "poll" /\ FrontDone
        /\ ext' = [ext EXCEPT ![Front] = "reached"]
        /\ UNCHANGED <<op, stream_idx, followers, emplaced, main, cur>>
    BY <1>21 DEF CudaPoll, Goto, AfterPoll, TestStop
  <2>4. PICK R \in SUBSET Task : ReleaseStep(R, NoTask)
    BY <1>0, <1>21, CudaPollEffect
  <2>5. post' = [post EXCEPT ![Front] = post[Front] - 1]
    BY <1>0, <1>21, CudaPollEffect
  <2>6. ext[Front] = "pending"
    BY <1>0, <1>21, CudaPollEffect
  <2>7. \A u \in Task : u \notin R /\ u # NoTask => pre'[u] = pre[u] /\ ready'[u] = ready[u]
    BY <2>4 DEF ReleaseStep
  <2>8. Old(Front) /\ \A u \in R : Old(u)
    <3>1. Old(Front)
      BY <1>0, <2>1, <2>6, Touched
    <3>2. \A u \in R : Old(u)
      BY <1>0, <2>4, WaitingOld DEF ReleaseStep
    <3> QED BY <3>1, <3>2
  <2> QED
    BY <1>0, <1>t, <2>1, <2>2, <2>5, <2>7, <2>8, TaskFacts DEF NewUntouched, Old, Born, NotHeld
<1>22. ASSUME NEW t \in Task, RequestCompletes(t) PROVE NewUntouched'
  <2>2. /\ t \in Request /\ op[t] = "running"
        /\ op' = [op EXCEPT ![t] = "done"]
        /\ UNCHANGED <<pre, post, ready, ext, stream_idx, followers, emplaced, main, cur>>
    BY <1>22 DEF RequestCompletes
  <2>8. Old(t)
    BY <1>0, <2>2, Touched
  <2> QED BY <1>0, <1>t, <2>2, <2>8 DEF NewUntouched, Old, Born, NotHeld
<1>23. ASSUME NEW i \in DOMAIN streams, StreamStep(i) PROVE NewUntouched'
  <2>1. op' = op \/ \E k \in Task : stream_idx[k] # NoStream /\ \A u \in Task : u # k => op'[u] = op[u]
    BY SMTT(60), <1>0, <1>t, <1>23, StreamEffect
  <2>2. UNCHANGED <<pre, post, ready, ext, stream_idx, followers, emplaced, main, cur>>
    BY <1>23 DEF StreamStep
  <2>3. CASE op' = op
    BY <1>1, <2>2, <2>3
  <2>4. ASSUME NEW k \in Task, stream_idx[k] # NoStream, \A u \in Task : u # k => op'[u] = op[u]
        PROVE  NewUntouched'
    <3>1. Old(k)
      BY <1>0, <2>4, Touched
    <3> QED BY <1>0, <2>2, <2>4, <3>1 DEF NewUntouched, Old, Born, NotHeld
  <2> QED BY <2>1, <2>3, <2>4
<1>24. CASE Emplace
  <2>2. UNCHANGED <<pre, post, ready, op, ext, stream_idx, followers, cur>>
    BY <1>24 DEF Emplace, OnlyMain
  <2>3. /\ main.t \in Task /\ emplaced' = emplaced \union {main.t}
        /\ \A t \in Task : t = main.t => Born(t)' /\ ~ Old(t)
        /\ \A t \in Task : t # main.t => (Born(t)' <=> Born(t)) /\ (Old(t)' <=> Old(t))
    BY <1>0, <1>24, EmplaceEffect
  <2>4. \A t \in emplaced' : Born(t)'
    BY <1>0, <1>t, <2>3 DEF NewUntouched
  <2>5. \A t \in Task : ~ Old(t)' => ~ Old(t)
    BY <2>3
  <2> QED BY <1>0, <2>2, <2>4, <2>5 DEF NewUntouched, NotHeld
<1>25. CASE EndOfProgram
  <2>2. UNCHANGED <<pre, post, ready, op, ext, stream_idx, followers, cur>>
    BY <1>25 DEF EndOfProgram, OnlyMain
  <2>3. emplaced' = emplaced /\ \A t \in Task : (Born(t)' <=> Born(t)) /\ (Old(t)' <=> Old(t))
    BY <1>0, <1>25, BornKept
  <2> QED BY <1>0, <1>t, <2>2, <2>3 DEF NewUntouched, NotHeld
<1>26. CASE EnterWaker
  <2>2. UNCHANGED <<pre, post, ready, op, ext, stream_idx, followers, cur>>
    BY <1>26 DEF EnterWaker, OnlyMain
  <2>3. emplaced' = emplaced /\ \A t \in Task : (Born(t)' <=> Born(t)) /\ (Old(t)' <=> Old(t))
    BY <1>0, <1>26, BornKept
  <2> QED BY <1>0, <1>t, <2>2, <2>3 DEF NewUntouched, NotHeld
<1>27. CASE TestResult
  <2>2. UNCHANGED <<pre, post, ready, op, ext, stream_idx, followers, cur>>
    BY <1>27 DEF TestResult, OnlyMain
  <2>3. emplaced' = emplaced /\ \A t \in Task : (Born(t)' <=> Born(t)) /\ (Old(t)' <=> Old(t))
    BY <1>0, <1>27, BornKept
  <2> QED BY <1>0, <1>t, <2>2, <2>3 DEF NewUntouched, NotHeld
<1>28. CASE Idle
  <2>2. UNCHANGED <<pre, post, ready, op, ext, stream_idx, followers, cur>>
    BY <1>28 DEF Idle, OnlyMain
  <2>3. emplaced' = emplaced /\ \A t \in Task : (Born(t)' <=> Born(t)) /\ (Old(t)' <=> Old(t))
    BY <1>0, <1>28, BornKept
  <2> QED BY <1>0, <1>t, <2>2, <2>3 DEF NewUntouched, NotHeld
<1>29. CASE TakeResult
  <2>2. UNCHANGED <<pre, post, ready, op, ext, stream_idx, followers, cur>>
    BY <1>29 DEF TakeResult, OnlyMain
  <2>3. emplaced' = emplaced /\ \A t \in Task : (Born(t)' <=> Born(t)) /\ (Old(t)' <=> Old(t))
    BY <1>0, <1>29, BornKept
  <2> QED BY <1>0, <1>t, <2>2, <2>3 DEF NewUntouched, NotHeld
<1>30. CASE Barrier
  <2>2. UNCHANGED <<pre, post, ready, op, ext, stream_idx, followers, cur>>
    BY <1>30 DEF Barrier, OnlyMain
  <2>3. emplaced' = emplaced /\ \A t \in Task : (Born(t)' <=> Born(t)) /\ (Old(t)' <=> Old(t))
    BY <1>0, <1>30, BornKept
  <2> QED BY <1>0, <1>t, <2>2, <2>3 DEF NewUntouched, NotHeld
<1>31. CASE Stop
  <2>2. UNCHANGED <<pre, post, ready, op, ext, stream_idx, followers, cur>>
    BY <1>31 DEF Stop, OnlyMain
  <2>3. emplaced' = emplaced /\ \A t \in Task : (Born(t)' <=> Born(t)) /\ (Old(t)' <=> Old(t))
    BY <1>0, <1>31, BornKept
  <2> QED BY <1>0, <1>t, <2>2, <2>3 DEF NewUntouched, NotHeld
<1>32. CASE Join
  <2>2. UNCHANGED <<pre, post, ready, op, ext, stream_idx, followers, cur>>
    BY <1>32 DEF Join, OnlyMain
  <2>3. emplaced' = emplaced /\ \A t \in Task : (Born(t)' <=> Born(t)) /\ (Old(t)' <=> Old(t))
    BY <1>0, <1>32, BornKept
  <2> QED BY <1>0, <1>t, <2>2, <2>3 DEF NewUntouched, NotHeld
<1> QED
  BY <1>2, <1>3, <1>4, <1>5, <1>6, <1>7, <1>8, <1>9, <1>10, <1>11, <1>12, <1>13, <1>14, <1>15,
     <1>16, <1>17, <1>18, <1>19, <1>20, <1>21, <1>22, <1>23, <1>24, <1>25, <1>26, <1>27, <1>28,
     <1>29, <1>30, <1>31, <1>32
  DEF Next, WorkerStep, MpiStep, CudaStep, MainStep, Ended

LEMMA FollowersMatchStep ==
  ASSUME Hypotheses, IInv, [Next]_vars
  PROVE  FollowersMatch'
<1>0. /\ RequestsOnMpi /\ Types /\ WorkersMatch /\ NewUntouched /\ FollowersMatch
      /\ WaitingCounted /\ ReadyOnce /\ HeldOnce /\ HeldPre /\ HeldProgress /\ PostCounts
      /\ ResumeCounted /\ PoolAligned /\ StreamsMatch /\ RecordsBehind
  BY DEF Hypotheses, IInv
<1>t. /\ cur \in [Worker -> Task \union {NoTask}] /\ pre \in [Task -> Nat] /\ post \in [Task -> Nat]
      /\ ext \in [Task -> {"none", "pending", "reached"}] /\ emplaced \subseteq Task
      /\ op \in [Task -> {"none", "queued", "running", "done"}] /\ ready \in [Task -> Int]
      /\ stream_idx \in [Task -> {NoStream} \union 0..(NumStreams - 1)]
      /\ next_stream \in Nat
      /\ followers \in [Task -> [{"pre", "post"} -> SUBSET Task]]
  BY <1>0 DEF Types, CountTypes, EventTypes, WorkTypes, CudaTypes
<1>1. CASE UNCHANGED <<followers, stream_idx>>
  BY <1>0, <1>1, <1>t DEF FollowersMatch
<1>2. CASE UNCHANGED vars
  BY <1>1, <1>2 DEF vars
<1>3. ASSUME NEW w \in Worker,
             (\E t \in Task : GatherReady(w, t)) \/ GatherNothing(w) \/ Execute(w)
             \/ Compute(w) \/ GetStatus(w) \/ PushRequest(w) \/ Yield(w) \/ PauseReset(w)
             \/ PauseFollow(w) \/ PauseAppend(w) \/ PauseCount(w) \/ PauseUp(w)
             \/ PauseNotify(w) \/ SetResult(w) \/ WakeMain(w) \/ FinishTask(w)
      PROVE  FollowersMatch'
  BY <1>1, <1>3
  DEF GatherReady, GatherNothing, Execute, Compute, GetStatus, PushRequest, Yield, PauseReset,
      PauseFollow, PauseAppend, PauseCount, PauseUp, PauseNotify, SetResult, WakeMain,
      FinishTask, AfterTask, Goto, MakeEvent
<1>4. ASSUME \/ PollNothing \/ Poll \/ PollStatus \/ PollResume \/ PollErase \/ RecordEvent
             \/ LaunchedPre \/ CudaPollNothing \/ CudaPoll \/ Emplace \/ EndOfProgram
             \/ EnterWaker \/ TestResult \/ Idle \/ TakeResult \/ Barrier \/ Stop \/ Join
      PROVE  FollowersMatch'
  BY <1>1, <1>4 DEF PollNothing, Poll, PollStatus, PollResume, PollErase, RecordEvent, LaunchedPre,
      CudaPollNothing, CudaPoll, Emplace, EndOfProgram, EnterWaker, TestResult, Idle,
      TakeResult, Barrier, Stop, Join, Goto, MainGoto, MakeEvent, OnlyMain
<1>5. ASSUME NEW t \in Task, RequestCompletes(t) PROVE FollowersMatch'
  BY <1>1, <1>5 DEF RequestCompletes
<1>6. ASSUME NEW i \in DOMAIN streams, StreamStep(i) PROVE FollowersMatch'
  BY <1>1, <1>6 DEF StreamStep
<1>7. ASSUME NEW w \in Worker, NEW t \in Task, InitDependencies(w, t) PROVE FollowersMatch'
  <2>1. /\ followers' = [p \in Task |-> [e \in {"pre", "post"} |->
             IF <<p, e>> \in Edges(t) THEN followers[p][e] \union {t} ELSE followers[p][e]]]
        /\ stream_idx' = stream_idx
    BY <1>7 DEF InitDependencies
  <2>2. \A p \in Task : \A e \in {"pre", "post"} : \A u \in followers'[p][e] :
          u \in followers[p][e] \/ (u = t /\ <<p, e>> \in Edges(t))
    BY <1>t, <2>1
  <2>3. \A p \in Task : \A e \in {"pre", "post"} : <<p, e>> \in Edges(t) =>
          p < t /\ (e = "pre" => stream_idx[p] # NoStream)
    BY DispatchAssumption DEF Edges, DependsOnPre
  <2> QED BY <1>0, <2>1, <2>2, <2>3 DEF FollowersMatch
<1>8. CASE Launch
  <2>1. cur["cuda"] \in Task /\ next_stream % NumStreams # NoStream
    BY <1>0, <1>t, <1>8, HeldFacts, WorkerFacts, DispatchAssumption DEF Launch, TaskPC, NoStream
  <2>2. stream_idx' = [stream_idx EXCEPT ![cur["cuda"]] = next_stream % NumStreams] /\ followers' = followers
    BY <1>8 DEF Launch
  <2>3. \A p \in Task : stream_idx[p] # NoStream => stream_idx'[p] # NoStream
    BY <1>t, <2>1, <2>2
  <2> QED BY <1>0, <2>2, <2>3 DEF FollowersMatch
<1> QED BY <1>2, <1>3, <1>4, <1>5, <1>6, <1>7, <1>8
  DEF Next, WorkerStep, MpiStep, CudaStep, MainStep, Ended

-----------------------------------------------------------------------------
(***************************************************************************)
(* Waiting, ready and resting tasks.                                       *)
(***************************************************************************)
LEMMA WaitingCountedStep ==
  ASSUME Hypotheses, IInv, [Next]_vars
  PROVE  WaitingCounted'
<1>0. Parts
  BY DEF Hypotheses, IInv
<1>t. Ranges
  BY <1>0 DEF Types, CountTypes, EventTypes, WorkTypes, CudaTypes
<1>r. ASSUME NEW R \in SUBSET Task, NEW x, x = NoTask \/ Free(x), ReleaseStep(R, x),
             NEW u \in Task, ~ Free(u)'
      PROVE  pre'[u] = 1 + Cardinality(Incoming(u)') /\ ready'[u] = 0 /\ ~ Free(u)
  <2>1. CASE u \in R
    BY <1>r, <2>1 DEF ReleaseStep
  <2>2. CASE u \notin R
    <3>1. ready'[u] = ready[u] /\ Incoming(u)' = Incoming(u)
      BY <1>r, <2>2 DEF ReleaseStep
    <3>2. ~ Free(u)
      BY <1>r, <3>1 DEF Free
    <3>3. pre'[u] = pre[u]
      BY <1>r, <2>2, <3>2, TaskFacts DEF ReleaseStep
    <3> QED BY <1>0, <3>1, <3>2, <3>3 DEF WaitingCounted
  <2> QED BY <2>1, <2>2
<1>1. CASE UNCHANGED <<cur, ext, followers, op, post, pre, ready, stream_idx>>
  <2>1. SameIncoming
    BY <1>1, IncomingKept
  <2> QED BY <1>0, <1>1, <2>1 DEF WaitingCounted, NotHeld
<1>2. CASE UNCHANGED vars
  BY <1>1, <1>2 DEF vars
<1>3. ASSUME NEW w \in Worker,
             GatherNothing(w) \/ PushRequest(w) \/ Yield(w) \/ PauseFollow(w)
             \/ PauseAppend(w) \/ SetResult(w) \/ WakeMain(w)
      PROVE  WaitingCounted'
  BY <1>1, <1>3
  DEF GatherNothing, PushRequest, Yield, PauseFollow, PauseAppend, SetResult, WakeMain, Goto
<1>4. ASSUME \/ PollNothing \/ Poll \/ CudaPollNothing \/ Emplace \/ EndOfProgram \/ EnterWaker
             \/ TestResult \/ Idle \/ TakeResult \/ Barrier \/ Stop \/ Join
      PROVE  WaitingCounted'
  BY <1>1, <1>4
  DEF PollNothing, Poll, CudaPollNothing, Emplace, EndOfProgram, EnterWaker, TestResult, Idle,
      TakeResult, Barrier, Stop, Join, Goto, MainGoto, OnlyMain
<1>5. ASSUME NEW w \in Worker, NEW t \in Task, GatherReady(w, t) PROVE WaitingCounted'
  <2>2. /\ pc[w] = "gather" /\ Sched[t] = SchedOf(w) /\ ready[t] > 0
        /\ ready' = [ready EXCEPT ![t] = ready[t] - 1]
        /\ cur' = [cur EXCEPT ![w] = t]
        /\ UNCHANGED <<pre, post, op, ext, stream_idx, followers>>
    BY <1>5 DEF GatherReady, Goto, Mine
  <2>6. Old(t) /\ Free(t) /\ ready[t] # 0
    BY <1>0, <1>t, <2>2, Touched
  <2>7. SameIncoming
    BY <1>5, IncomingKept DEF GatherReady
  <2> QED BY <1>0, <1>t, <2>2, <2>6, <2>7, TaskFacts DEF WaitingCounted, NotHeld
<1>6. ASSUME NEW w \in Worker, NEW t \in Task, InitDependencies(w, t) PROVE WaitingCounted'
  <2>1. /\ Incoming(t)' = Edges(t)
        /\ \A u \in Task : u # t => Incoming(u)' = Incoming(u) /\ (Free(u)' <=> Free(u))
        /\ pre' = [pre EXCEPT ![t] = 1 + Cardinality(Edges(t))]
        /\ Edges(t) = {} <=> Free(t)'
    BY <1>6, InitEffect
  <2>2. /\ t \in emplaced
        /\ cur' = (IF Edges(t) = {} THEN [cur EXCEPT ![w] = t] ELSE cur)
        /\ UNCHANGED <<ready, op, ext, stream_idx>>
    BY <1>6 DEF InitDependencies
  <2>3. /\ ready[t] = 0 /\ NotHeld(t) /\ op[t] = "none" /\ ext[t] = "none" /\ stream_idx[t] = NoStream
    BY <1>0, <2>2 DEF NewUntouched, Old
  <2> QED BY <1>0, <1>t, <2>1, <2>2, <2>3 DEF WaitingCounted, NotHeld
<1>7. ASSUME NEW w \in Worker, Execute(w) PROVE WaitingCounted'
  <2>1. HasTask(w)
    BY <1>0, <1>7, HeldFacts DEF Execute, TaskPC
  <2>2. pc[w] = "execute" /\ UNCHANGED <<post, op, ext, stream_idx, followers, cur>>
    BY <1>7 DEF Execute, Goto
  <2>4. (pre' = pre \/ (pre' = [pre EXCEPT ![cur[w]] = 0] /\ w # "cuda")) /\ ready' = ready
    <3>1. CASE w = "cuda"
      BY <1>7, <3>1 DEF Execute
    <3>2. CASE w # "cuda"
      BY <1>0, <1>7, <3>2, ExecuteEffect
    <3> QED BY <3>1, <3>2
  <2>6. Underway(cur[w])
    BY <1>0, <2>1, HeldTouched
  <2>7. SameIncoming
    <3>1. UNCHANGED <<post, followers>>
      BY <1>7 DEF Execute
    <3>2. \/ pre' = pre
          \/ \E t \in Task : Sched[t] # "cuda" /\ \A u \in Task : u # t => pre'[u] = pre[u]
      BY <1>t, <2>1, <2>4
    <3> QED BY <3>1, <3>2, IncomingKept
  <2> QED BY <1>0, <1>t, <2>1, <2>2, <2>4, <2>6, <2>7, TaskFacts DEF WaitingCounted, NotHeld
<1>8. ASSUME NEW w \in Worker, Compute(w) PROVE WaitingCounted'
  <2>1. HasTask(w)
    BY <1>0, <1>8, HeldFacts DEF Compute, TaskPC
  <2>2. /\ pc[w] = "body" /\ w # "cuda" /\ cur[w] \notin Request
        /\ op' = [op EXCEPT ![cur[w]] = IF op[cur[w]] = "running" THEN "done" ELSE "running"]
        /\ UNCHANGED <<pre, post, ready, ext, stream_idx, followers, cur>>
    BY <1>8 DEF Compute, Goto
  <2>6. Underway(cur[w])
    BY <1>0, <2>1, HeldTouched
  <2>7. SameIncoming
    BY <1>8, IncomingKept DEF Compute
  <2> QED BY <1>0, <1>t, <2>1, <2>2, <2>6, <2>7, TaskFacts DEF WaitingCounted, NotHeld
<1>9. ASSUME NEW w \in Worker, GetStatus(w) PROVE WaitingCounted'
  <2>1. HasTask(w)
    BY <1>0, <1>9, HeldFacts DEF GetStatus, TaskPC
  <2>2. /\ pc[w] = "body" /\ cur[w] \in Request
        /\ post' = [post EXCEPT ![cur[w]] = Up(post[cur[w]])]
        /\ op' = [op EXCEPT ![cur[w]] = "running"]
        /\ ext' = [ext EXCEPT ![cur[w]] = "pending"]
        /\ UNCHANGED <<pre, ready, stream_idx, followers, cur>>
    BY <1>9 DEF GetStatus, Goto, MakeEvent
  <2>6. Underway(cur[w])
    BY <1>0, <2>1, HeldTouched
  <2>7. SameIncoming
    <3>1. UNCHANGED <<pre, followers>>
      BY <1>9 DEF GetStatus
    <3>2. post[cur[w]] # 0 /\ post' = [post EXCEPT ![cur[w]] = Up(post[cur[w]])]
      BY <1>0, <1>9, <2>1, <2>6, PostPositive DEF GetStatus, MakeEvent
    <3> QED BY <2>1, <3>1, <3>2, IncomingKept
  <2> QED BY <1>0, <1>t, <2>1, <2>2, <2>6, <2>7, TaskFacts DEF WaitingCounted, NotHeld
<1>10. ASSUME NEW w \in Worker, PauseReset(w) PROVE WaitingCounted'
  <2>1. HasTask(w)
    BY <1>0, <1>10, HeldFacts DEF PauseReset, TaskPC
  <2>2. /\ pc[w] = "reset"
        /\ pre' = [pre EXCEPT ![cur[w]] = 1]
        /\ UNCHANGED <<post, ready, op, ext, stream_idx, followers, cur>>
    BY <1>10 DEF PauseReset, Goto
  <2>6. Underway(cur[w])
    BY <1>0, <2>1, HeldTouched
  <2>7. SameIncoming
    <3>1. UNCHANGED <<post, followers>>
      BY <1>10 DEF PauseReset
    <3>2. Sched[cur[w]] # "cuda"
      BY <1>0, <2>1, <2>2, DispatchAssumption DEF WorkersMatch, PausePC
    <3>3. \E t \in Task : Sched[t] # "cuda" /\ \A u \in Task : u # t => pre'[u] = pre[u]
      BY <1>t, <2>1, <2>2, <3>2
    <3> QED BY <3>1, <3>3, IncomingKept
  <2> QED BY <1>0, <1>t, <2>1, <2>2, <2>6, <2>7, TaskFacts DEF WaitingCounted, NotHeld
<1>11. ASSUME NEW w \in Worker, PauseCount(w) PROVE WaitingCounted'
  <2>1. HasTask(w)
    BY <1>0, <1>11, HeldFacts DEF PauseCount, TaskPC
  <2>2. /\ pc[w] = "count"
        /\ pre' = [pre EXCEPT ![cur[w]] = Up(pre[cur[w]])]
        /\ UNCHANGED <<post, ready, op, ext, stream_idx, followers, cur>>
    BY <1>11 DEF PauseCount, Goto
  <2>6. Underway(cur[w])
    BY <1>0, <2>1, HeldTouched
  <2>7. SameIncoming
    <3>1. UNCHANGED <<post, followers>>
      BY <1>11 DEF PauseCount
    <3>2. Sched[cur[w]] # "cuda"
      BY <1>0, <2>1, <2>2, DispatchAssumption DEF WorkersMatch, PausePC
    <3>3. \E t \in Task : Sched[t] # "cuda" /\ \A u \in Task : u # t => pre'[u] = pre[u]
      BY <1>t, <2>1, <2>2, <3>2
    <3> QED BY <3>1, <3>3, IncomingKept
  <2> QED BY <1>0, <1>t, <2>1, <2>2, <2>6, <2>7, TaskFacts DEF WaitingCounted, NotHeld
<1>12. ASSUME NEW w \in Worker, PauseUp(w) PROVE WaitingCounted'
  <2>1. HasTask(w)
    BY <1>0, <1>12, HeldFacts DEF PauseUp, TaskPC
  <2>2. /\ pc[w] = "up"
        /\ pre' = [pre EXCEPT ![cur[w]] = Up(pre[cur[w]])]
        /\ UNCHANGED <<post, ready, op, ext, stream_idx, followers, cur>>
    BY <1>12 DEF PauseUp, Goto
  <2>6. Underway(cur[w])
    BY <1>0, <2>1, HeldTouched
  <2>7. SameIncoming
    <3>1. UNCHANGED <<post, followers>>
      BY <1>12 DEF PauseUp
    <3>2. Sched[cur[w]] # "cuda"
      BY <1>0, <2>1, <2>2, DispatchAssumption DEF WorkersMatch, PausePC
    <3>3. \E t \in Task : Sched[t] # "cuda" /\ \A u \in Task : u # t => pre'[u] = pre[u]
      BY <1>t, <2>1, <2>2, <3>2
    <3> QED BY <3>1, <3>3, IncomingKept
  <2> QED BY <1>0, <1>t, <2>1, <2>2, <2>6, <2>7, TaskFacts DEF WaitingCounted, NotHeld
<1>13. ASSUME NEW w \in Worker, PauseNotify(w) PROVE WaitingCounted'
  <2>1. HasTask(w)
    BY <1>0, <1>13, HeldFacts DEF PauseNotify, TaskPC
  <2>2. /\ pc[w] = "notify"
        /\ cur' = [cur EXCEPT ![w] = NoTask]
        /\ UNCHANGED <<post, op, ext, stream_idx, followers>>
    BY <1>13 DEF PauseNotify, Goto, AfterTask
  <2>4. pre' = [pre EXCEPT ![cur[w]] = 2] /\ ready' = ready
    BY <1>0, <1>13, PauseNotifyEffect
  <2>6. Underway(cur[w])
    BY <1>0, <2>1, HeldTouched
  <2>7. SameIncoming
    <3>1. UNCHANGED <<post, followers>>
      BY <1>13 DEF PauseNotify
    <3>2. Sched[cur[w]] # "cuda"
      BY <1>0, <2>1, <2>2, DispatchAssumption DEF WorkersMatch, PausePC
    <3>3. \E t \in Task : Sched[t] # "cuda" /\ \A u \in Task : u # t => pre'[u] = pre[u]
      BY <1>t, <2>1, <2>4, <3>2
    <3> QED BY <3>1, <3>3, IncomingKept
  <2> QED BY <1>0, <1>t, <2>1, <2>2, <2>4, <2>6, <2>7, TaskFacts DEF WaitingCounted, NotHeld
<1>14. ASSUME NEW w \in Worker, FinishTask(w) PROVE WaitingCounted'
  <2>1. HasTask(w)
    BY <1>0, <1>14, HeldFacts DEF FinishTask, TaskPC
  <2>2. /\ pc[w] = "post"
        /\ cur' = [cur EXCEPT ![w] = NoTask]
        /\ UNCHANGED <<op, ext, stream_idx, followers>>
    BY <1>14 DEF FinishTask, Goto, AfterTask
  <2>4. PICK R \in SUBSET Task : ReleaseStep(R, NoTask)
    BY <1>0, <1>14, FinishTaskEffect
  <2>5. post' = [post EXCEPT ![cur[w]] = post[cur[w]] - 1] /\ post[cur[w]] # 0
    BY <1>0, <1>14, FinishTaskEffect
  <2>6. Underway(cur[w])
    BY <1>0, <2>1, HeldTouched
  <2>8. \A u \in Task : ~ Free(u)' =>
          pre'[u] = 1 + Cardinality(Incoming(u)') /\ ready'[u] = 0 /\ ~ Free(u)
    BY <1>r, <2>4, <2>6, TaskFacts
  <2> QED BY <1>0, <1>t, <2>1, <2>2, <2>6, <2>8, TaskFacts DEF WaitingCounted, NotHeld
<1>15. CASE PollStatus
  <2>1. Polled
    BY <1>0, <1>15, PolledTasks DEF PollStatus, PollPC
  <2>2. /\ pc["mpi"] = "status"
        /\ ext' = [ext EXCEPT ![Current] = "reached"]
        /\ UNCHANGED <<pre, post, ready, op, stream_idx, followers, cur>>
    BY <1>15 DEF PollStatus, Goto, OutStatus, Current
  <2>6. Old(Current) /\ Free(Current) /\ NotHeld(Current) /\ ext[Current] = "pending"
    BY <1>0, <1>15, PolledTouched DEF PollStatus, PollPC
  <2>7. SameIncoming
    BY <1>15, IncomingKept DEF PollStatus
  <2> QED BY <1>0, <1>t, <2>1, <2>2, <2>6, <2>7, TaskFacts DEF WaitingCounted, NotHeld
<1>16. CASE PollResume
  <2>1. Polled
    BY <1>0, <1>16, PolledTasks DEF PollResume, PollPC
  <2>2. pc["mpi"] = "resume" /\ UNCHANGED <<post, op, ext, stream_idx, followers, cur>>
    BY <1>16 DEF PollResume, Goto
  <2>4. pre' = [pre EXCEPT ![Current] = 1] /\ ready' = [ready EXCEPT ![Current] = 1]
    BY <1>0, <1>16, PollResumeEffect
  <2>6. Old(Current) /\ Free(Current) /\ NotHeld(Current) /\ ext[Current] = "reached"
    BY <1>0, <1>16, PolledTouched DEF PollResume, PollPC
  <2>7. SameIncoming
    <3>1. UNCHANGED <<post, followers>>
      BY <1>16 DEF PollResume
    <3>2. Sched[Current] # "cuda"
      BY <2>1, DispatchAssumption
    <3>3. \E t \in Task : Sched[t] # "cuda" /\ \A u \in Task : u # t => pre'[u] = pre[u]
      BY <1>t, <2>1, <2>4, <3>2
    <3> QED BY <3>1, <3>3, IncomingKept
  <2> QED BY <1>0, <1>t, <2>1, <2>2, <2>4, <2>6, <2>7, TaskFacts DEF WaitingCounted, NotHeld
<1>17. CASE PollErase
  <2>1. Polled
    BY <1>0, <1>17, PolledTasks DEF PollErase, PollPC
  <2>2. pc["mpi"] = "erase" /\ UNCHANGED <<op, ext, stream_idx, followers, cur>>
    BY <1>17 DEF PollErase, Goto, AfterPoll, TestStop, Current
  <2>4. PICK R \in SUBSET Task : ReleaseStep(R, NoTask)
    BY <1>0, <1>17, PollEraseEffect
  <2>5. post' = [post EXCEPT ![Current] = post[Current] - 1] /\ post[Current] # 0
    BY <1>0, <1>17, PollEraseEffect
  <2>6. Old(Current) /\ Free(Current) /\ NotHeld(Current) /\ ext[Current] = "reached"
    BY <1>0, <1>17, PolledTouched DEF PollErase, PollPC
  <2>8. \A u \in Task : ~ Free(u)' =>
          pre'[u] = 1 + Cardinality(Incoming(u)') /\ ready'[u] = 0 /\ ~ Free(u)
    BY <1>r, <2>4, <2>6, TaskFacts
  <2> QED BY <1>0, <1>t, <2>1, <2>2, <2>6, <2>8, TaskFacts DEF WaitingCounted, NotHeld
<1>18. CASE Launch
  <2>1. CudaHasTask
    BY <1>0, <1>18, HeldFacts, WorkerFacts DEF Launch, TaskPC
  <2>2. /\ pc["cuda"] = "body"
        /\ op' = [op EXCEPT ![cur["cuda"]] = "queued"]
        /\ stream_idx' = [stream_idx EXCEPT ![cur["cuda"]] = next_stream % NumStreams]
        /\ UNCHANGED <<pre, post, ready, ext, followers, cur>>
    BY <1>18 DEF Launch, Goto
  <2>6. Underway(cur["cuda"])
    BY <1>0, <2>1, HeldTouched, WorkerFacts
  <2>7. SameIncoming
    BY <1>18, IncomingKept DEF Launch
  <2> QED BY <1>0, <1>t, <2>1, <2>2, <2>6, <2>7, TaskFacts DEF WaitingCounted, NotHeld
<1>19. CASE RecordEvent
  <2>1. CudaHasTask
    BY <1>0, <1>19, HeldFacts, WorkerFacts DEF RecordEvent, TaskPC
  <2>2. /\ pc["cuda"] = "record"
        /\ post' = [post EXCEPT ![cur["cuda"]] = Up(post[cur["cuda"]])]
        /\ ext' = [ext EXCEPT ![cur["cuda"]] = "pending"]
        /\ UNCHANGED <<pre, ready, op, stream_idx, followers, cur>>
    BY <1>19 DEF RecordEvent, Goto, MakeEvent
  <2>6. Underway(cur["cuda"])
    BY <1>0, <2>1, HeldTouched, WorkerFacts
  <2>7. SameIncoming
    <3>1. UNCHANGED <<pre, followers>>
      BY <1>19 DEF RecordEvent
    <3>2. post[cur["cuda"]] # 0 /\ post' = [post EXCEPT ![cur["cuda"]] = Up(post[cur["cuda"]])]
      BY <1>0, <1>19, <2>1, <2>6, PostPositive DEF RecordEvent, MakeEvent
    <3> QED BY <2>1, <3>1, <3>2, IncomingKept
  <2> QED BY <1>0, <1>t, <2>1, <2>2, <2>6, <2>7, TaskFacts DEF WaitingCounted, NotHeld
<1>20. CASE LaunchedPre
  <2>1. CudaHasTask
    BY <1>0, <1>20, HeldFacts, WorkerFacts DEF LaunchedPre, TaskPC
  <2>2. pc["cuda"] = "pre" /\ UNCHANGED <<op, ext, stream_idx, followers, cur>>
    BY <1>20 DEF LaunchedPre, Goto
  <2>4. PICK R \in SUBSET Task : ReleaseStep(R, cur["cuda"]) /\ pre'[cur["cuda"]] = 0
    BY <1>0, <1>20, LaunchedPreEffect
  <2>5. post' = post
    BY <1>20 DEF LaunchedPre
  <2>6. Underway(cur["cuda"])
    BY <1>0, <2>1, HeldTouched, WorkerFacts
  <2>8. \A u \in Task : ~ Free(u)' =>
          pre'[u] = 1 + Cardinality(Incoming(u)') /\ ready'[u] = 0 /\ ~ Free(u)
    BY <1>r, <2>4, <2>6, TaskFacts
  <2> QED BY <1>0, <1>t, <2>1, <2>2, <2>6, <2>8, TaskFacts DEF WaitingCounted, NotHeld
<1>21. CASE CudaPoll
  <2>1. FrontPolled
    BY <1>0, <1>21, PolledTasks DEF CudaPoll, FrontDone
  <2>2. /\ pc["cuda"] = "poll" /\ FrontDone
        /\ ext' = [ext EXCEPT ![Front] = "reached"]
        /\ UNCHANGED <<op, stream_idx, followers, cur>>
    BY <1>21 DEF CudaPoll, Goto, AfterPoll, TestStop
  <2>4. PICK R \in SUBSET Task : ReleaseStep(R, NoTask)
    BY <1>0, <1>21, CudaPollEffect
  <2>5. /\ post' = [post EXCEPT ![Front] = post[Front] - 1]
        /\ post[Front] # 0
    BY <1>0, <1>21, CudaPollEffect
  <2>6. /\ Old(Front) /\ Free(Front) /\ NotHeld(Front) /\ ext[Front] = "pending"
        /\ Sched[Front] = "cuda"
    BY <1>0, <1>21, PolledTouched DEF CudaPoll, FrontDone
  <2>8. \A u \in Task : ~ Free(u)' =>
          pre'[u] = 1 + Cardinality(Incoming(u)') /\ ready'[u] = 0 /\ ~ Free(u)
    BY <1>r, <2>4, <2>6, TaskFacts
  <2> QED BY <1>0, <1>t, <2>1, <2>2, <2>6, <2>8, TaskFacts DEF WaitingCounted, NotHeld
<1>22. ASSUME NEW t \in Task, RequestCompletes(t) PROVE WaitingCounted'
  <2>2. /\ t \in Request /\ op[t] = "running"
        /\ op' = [op EXCEPT ![t] = "done"]
        /\ UNCHANGED <<pre, post, ready, ext, stream_idx, followers, cur>>
    BY <1>22 DEF RequestCompletes
  <2>6. Old(t) /\ Free(t) /\ Sched[t] # "cuda"
    BY <1>0, <2>2, Touched, DispatchAssumption
  <2>7. SameIncoming
    BY <1>22, IncomingKept DEF RequestCompletes
  <2> QED BY <1>0, <1>t, <2>2, <2>6, <2>7, TaskFacts DEF WaitingCounted, NotHeld
<1>23. ASSUME NEW i \in DOMAIN streams, StreamStep(i) PROVE WaitingCounted'
  <2>1. op' = op \/ \E k \in Task : /\ stream_idx[k] # NoStream /\ Sched[k] = "cuda"
                                   /\ \A u \in Task : u # k => op'[u] = op[u]
    BY SMTT(60), <1>0, <1>t, <1>23, StreamEffect
  <2>2. UNCHANGED <<pre, post, ready, ext, stream_idx, followers, cur>>
    BY <1>23 DEF StreamStep
  <2>3. SameIncoming
    BY <2>2, IncomingKept
  <2> QED BY <1>0, <2>1, <2>2, <2>3 DEF WaitingCounted, NotHeld
<1> QED
  BY <1>2, <1>3, <1>4, <1>5, <1>6, <1>7, <1>8, <1>9, <1>10, <1>11, <1>12, <1>13, <1>14, <1>15,
     <1>16, <1>17, <1>18, <1>19, <1>20, <1>21, <1>22, <1>23
  DEF Next, WorkerStep, MpiStep, CudaStep, MainStep, Ended

LEMMA ReadyOnceStep ==
  ASSUME Hypotheses, IInv, [Next]_vars
  PROVE  ReadyOnce'
<1>0. Parts
  BY DEF Hypotheses, IInv
<1>t. Ranges
  BY <1>0 DEF Types, CountTypes, EventTypes, WorkTypes, CudaTypes
<1>1. CASE UNCHANGED <<cur, ext, op, pre, ready, stream_idx>>
  BY <1>0, <1>1, <1>t DEF ReadyOnce, NotHeld, Runnable
<1>2. CASE UNCHANGED vars
  BY <1>1, <1>2 DEF vars
<1>3. ASSUME NEW w \in Worker,
             GatherNothing(w) \/ PushRequest(w) \/ Yield(w) \/ PauseFollow(w)
             \/ PauseAppend(w) \/ SetResult(w) \/ WakeMain(w)
      PROVE  ReadyOnce'
  BY <1>1, <1>3
  DEF GatherNothing, PushRequest, Yield, PauseFollow, PauseAppend, SetResult, WakeMain, Goto
<1>4. ASSUME \/ PollNothing \/ Poll \/ CudaPollNothing \/ Emplace \/ EndOfProgram \/ EnterWaker
             \/ TestResult \/ Idle \/ TakeResult \/ Barrier \/ Stop \/ Join
      PROVE  ReadyOnce'
  BY <1>1, <1>4
  DEF PollNothing, Poll, CudaPollNothing, Emplace, EndOfProgram, EnterWaker, TestResult, Idle,
      TakeResult, Barrier, Stop, Join, Goto, MainGoto, OnlyMain
<1>5. ASSUME NEW w \in Worker, NEW t \in Task, GatherReady(w, t) PROVE ReadyOnce'
  <2>2. /\ pc[w] = "gather" /\ Sched[t] = SchedOf(w) /\ ready[t] > 0
        /\ ready' = [ready EXCEPT ![t] = ready[t] - 1]
        /\ cur' = [cur EXCEPT ![w] = t]
        /\ UNCHANGED <<pre, op, ext, stream_idx>>
    BY <1>5 DEF GatherReady, Goto, Mine
  <2>6. Old(t) /\ Free(t) /\ ready[t] # 0
    BY <1>0, <1>t, <2>2, Touched
  <2> QED BY <1>0, <1>t, <2>2, <2>6, TaskFacts DEF ReadyOnce, NotHeld, Runnable
<1>6. ASSUME NEW w \in Worker, NEW t \in Task, InitDependencies(w, t) PROVE ReadyOnce'
  <2>1. pre' = [pre EXCEPT ![t] = 1 + Cardinality(Edges(t))]
    BY <1>6, InitEffect
  <2>2. /\ t \in emplaced
        /\ cur' = (IF Edges(t) = {} THEN [cur EXCEPT ![w] = t] ELSE cur)
        /\ UNCHANGED <<ready, op, ext, stream_idx>>
    BY <1>6 DEF InitDependencies
  <2>3. ready[t] = 0
    BY <1>0, <2>2 DEF NewUntouched, Old
  <2> QED BY <1>0, <1>t, <2>1, <2>2, <2>3 DEF ReadyOnce, NotHeld, Runnable
<1>7. ASSUME NEW w \in Worker, Execute(w) PROVE ReadyOnce'
  <2>1. HasTask(w)
    BY <1>0, <1>7, HeldFacts DEF Execute, TaskPC
  <2>2. pc[w] = "execute" /\ UNCHANGED <<op, ext, stream_idx, cur>>
    BY <1>7 DEF Execute, Goto
  <2>4. (pre' = pre \/ (pre' = [pre EXCEPT ![cur[w]] = 0] /\ w # "cuda")) /\ ready' = ready
    <3>1. CASE w = "cuda"
      BY <1>7, <3>1 DEF Execute
    <3>2. CASE w # "cuda"
      BY <1>0, <1>7, <3>2, ExecuteEffect
    <3> QED BY <3>1, <3>2
  <2>6. Underway(cur[w])
    BY <1>0, <2>1, HeldTouched
  <2> QED BY <1>0, <1>t, <2>1, <2>2, <2>4, <2>6, TaskFacts DEF ReadyOnce, NotHeld, Runnable
<1>8. ASSUME NEW w \in Worker, Compute(w) PROVE ReadyOnce'
  <2>1. HasTask(w)
    BY <1>0, <1>8, HeldFacts DEF Compute, TaskPC
  <2>2. /\ pc[w] = "body" /\ w # "cuda" /\ cur[w] \notin Request
        /\ op' = [op EXCEPT ![cur[w]] = IF op[cur[w]] = "running" THEN "done" ELSE "running"]
        /\ UNCHANGED <<pre, ready, ext, stream_idx, cur>>
    BY <1>8 DEF Compute, Goto
  <2>6. Underway(cur[w])
    BY <1>0, <2>1, HeldTouched
  <2> QED BY <1>0, <1>t, <2>1, <2>2, <2>6, TaskFacts DEF ReadyOnce, NotHeld, Runnable
<1>9. ASSUME NEW w \in Worker, GetStatus(w) PROVE ReadyOnce'
  <2>1. HasTask(w)
    BY <1>0, <1>9, HeldFacts DEF GetStatus, TaskPC
  <2>2. /\ pc[w] = "body" /\ cur[w] \in Request
        /\ op' = [op EXCEPT ![cur[w]] = "running"]
        /\ ext' = [ext EXCEPT ![cur[w]] = "pending"]
        /\ UNCHANGED <<pre, ready, stream_idx, cur>>
    BY <1>9 DEF GetStatus, Goto, MakeEvent
  <2>6. Underway(cur[w])
    BY <1>0, <2>1, HeldTouched
  <2> QED BY <1>0, <1>t, <2>1, <2>2, <2>6, TaskFacts DEF ReadyOnce, NotHeld, Runnable
<1>10. ASSUME NEW w \in Worker, PauseReset(w) PROVE ReadyOnce'
  <2>1. HasTask(w)
    BY <1>0, <1>10, HeldFacts DEF PauseReset, TaskPC
  <2>2. /\ pc[w] = "reset"
        /\ pre' = [pre EXCEPT ![cur[w]] = 1]
        /\ UNCHANGED <<ready, op, ext, stream_idx, cur>>
    BY <1>10 DEF PauseReset, Goto
  <2>6. Underway(cur[w])
    BY <1>0, <2>1, HeldTouched
  <2> QED BY <1>0, <1>t, <2>1, <2>2, <2>6, TaskFacts DEF ReadyOnce, NotHeld, Runnable
<1>11. ASSUME NEW w \in Worker, PauseCount(w) PROVE ReadyOnce'
  <2>1. HasTask(w)
    BY <1>0, <1>11, HeldFacts DEF PauseCount, TaskPC
  <2>2. /\ pc[w] = "count"
        /\ pre' = [pre EXCEPT ![cur[w]] = Up(pre[cur[w]])]
        /\ UNCHANGED <<ready, op, ext, stream_idx, cur>>
    BY <1>11 DEF PauseCount, Goto
  <2>6. Underway(cur[w])
    BY <1>0, <2>1, HeldTouched
  <2> QED BY <1>0, <1>t, <2>1, <2>2, <2>6, TaskFacts DEF ReadyOnce, NotHeld, Runnable
<1>12. ASSUME NEW w \in Worker, PauseUp(w) PROVE ReadyOnce'
  <2>1. HasTask(w)
    BY <1>0, <1>12, HeldFacts DEF PauseUp, TaskPC
  <2>2. /\ pc[w] = "up"
        /\ pre' = [pre EXCEPT ![cur[w]] = Up(pre[cur[w]])]
        /\ UNCHANGED <<ready, op, ext, stream_idx, cur>>
    BY <1>12 DEF PauseUp, Goto
  <2>6. Underway(cur[w])
    BY <1>0, <2>1, HeldTouched
  <2> QED BY <1>0, <1>t, <2>1, <2>2, <2>6, TaskFacts DEF ReadyOnce, NotHeld, Runnable
<1>13. ASSUME NEW w \in Worker, PauseNotify(w) PROVE ReadyOnce'
  <2>1. HasTask(w)
    BY <1>0, <1>13, HeldFacts DEF PauseNotify, TaskPC
  <2>2. /\ pc[w] = "notify"
        /\ cur' = [cur EXCEPT ![w] = NoTask]
        /\ UNCHANGED <<op, ext, stream_idx>>
    BY <1>13 DEF PauseNotify, Goto, AfterTask
  <2>4. pre' = [pre EXCEPT ![cur[w]] = 2] /\ ready' = ready
    BY <1>0, <1>13, PauseNotifyEffect
  <2>6. Underway(cur[w])
    BY <1>0, <2>1, HeldTouched
  <2> QED BY <1>0, <1>t, <2>1, <2>2, <2>4, <2>6, TaskFacts DEF ReadyOnce, NotHeld, Runnable
<1>14. ASSUME NEW w \in Worker, FinishTask(w) PROVE ReadyOnce'
  <2>1. HasTask(w)
    BY <1>0, <1>14, HeldFacts DEF FinishTask, TaskPC
  <2>2. /\ pc[w] = "post"
        /\ cur' = [cur EXCEPT ![w] = NoTask]
        /\ UNCHANGED <<op, ext, stream_idx>>
    BY <1>14 DEF FinishTask, Goto, AfterTask
  <2>4. PICK R \in SUBSET Task : ReleaseStep(R, NoTask)
    BY <1>0, <1>14, FinishTaskEffect
  <2>6. Underway(cur[w])
    BY <1>0, <2>1, HeldTouched
  <2>8. ASSUME NEW u \in Task
        PROVE  \/ ready'[u] = 0
               \/ ready'[u] = ready[u] /\ (ready[u] = 1 => pre'[u] = pre[u])
               \/ ready'[u] = 1 /\ pre'[u] = 1 /\ ~ Free(u)
    <3>1. CASE u \in R
      BY <2>4, <3>1 DEF ReleaseStep
    <3>2. CASE u \notin R
      BY <1>0, <2>4, <3>2, TaskFacts, WorkerFacts DEF ReleaseStep, ReadyOnce, NotHeld
    <3> QED BY <3>1, <3>2
  <2>9. ASSUME NEW u \in Task, ~ Free(u)
        PROVE  NotHeld(u) /\ op[u] = "none" /\ ext[u] = "none" /\ stream_idx[u] = NoStream
    BY <1>0, <2>9 DEF WaitingCounted
  <2> QED BY <1>0, <1>t, <2>1, <2>2, <2>6, <2>8, <2>9, TaskFacts DEF ReadyOnce, NotHeld, Runnable
<1>15. CASE PollStatus
  <2>1. Polled
    BY <1>0, <1>15, PolledTasks DEF PollStatus, PollPC
  <2>2. /\ pc["mpi"] = "status"
        /\ ext' = [ext EXCEPT ![Current] = "reached"]
        /\ UNCHANGED <<pre, ready, op, stream_idx, cur>>
    BY <1>15 DEF PollStatus, Goto, OutStatus, Current
  <2>6. Old(Current) /\ Free(Current) /\ NotHeld(Current) /\ ext[Current] = "pending"
    BY <1>0, <1>15, PolledTouched DEF PollStatus, PollPC
  <2> QED BY <1>0, <1>t, <2>1, <2>2, <2>6, TaskFacts DEF ReadyOnce, NotHeld, Runnable
<1>16. CASE PollResume
  <2>1. Polled
    BY <1>0, <1>16, PolledTasks DEF PollResume, PollPC
  <2>2. pc["mpi"] = "resume" /\ UNCHANGED <<op, ext, stream_idx, cur>>
    BY <1>16 DEF PollResume, Goto
  <2>4. pre' = [pre EXCEPT ![Current] = 1] /\ ready' = [ready EXCEPT ![Current] = 1]
    BY <1>0, <1>16, PollResumeEffect
  <2>6. Old(Current) /\ Free(Current) /\ NotHeld(Current) /\ ext[Current] = "reached"
    BY <1>0, <1>16, PolledTouched DEF PollResume, PollPC
  <2> QED BY <1>0, <1>t, <2>1, <2>2, <2>4, <2>6, TaskFacts DEF ReadyOnce, NotHeld, Runnable
<1>17. CASE PollErase
  <2>1. Polled
    BY <1>0, <1>17, PolledTasks DEF PollErase, PollPC
  <2>2. pc["mpi"] = "erase" /\ UNCHANGED <<op, ext, stream_idx, cur>>
    BY <1>17 DEF PollErase, Goto, AfterPoll, TestStop, Current
  <2>4. PICK R \in SUBSET Task : ReleaseStep(R, NoTask)
    BY <1>0, <1>17, PollEraseEffect
  <2>6. Old(Current) /\ Free(Current) /\ NotHeld(Current) /\ ext[Current] = "reached"
    BY <1>0, <1>17, PolledTouched DEF PollErase, PollPC
  <2>8. ASSUME NEW u \in Task
        PROVE  \/ ready'[u] = 0
               \/ ready'[u] = ready[u] /\ (ready[u] = 1 => pre'[u] = pre[u])
               \/ ready'[u] = 1 /\ pre'[u] = 1 /\ ~ Free(u)
    <3>1. CASE u \in R
      BY <2>4, <3>1 DEF ReleaseStep
    <3>2. CASE u \notin R
      BY <1>0, <2>4, <3>2, TaskFacts, WorkerFacts DEF ReleaseStep, ReadyOnce, NotHeld
    <3> QED BY <3>1, <3>2
  <2>9. ASSUME NEW u \in Task, ~ Free(u)
        PROVE  NotHeld(u) /\ op[u] = "none" /\ ext[u] = "none" /\ stream_idx[u] = NoStream
    BY <1>0, <2>9 DEF WaitingCounted
  <2> QED BY <1>0, <1>t, <2>1, <2>2, <2>6, <2>8, <2>9, TaskFacts DEF ReadyOnce, NotHeld, Runnable
<1>18. CASE Launch
  <2>1. CudaHasTask
    BY <1>0, <1>18, HeldFacts, WorkerFacts DEF Launch, TaskPC
  <2>2. /\ pc["cuda"] = "body"
        /\ op' = [op EXCEPT ![cur["cuda"]] = "queued"]
        /\ stream_idx' = [stream_idx EXCEPT ![cur["cuda"]] = next_stream % NumStreams]
        /\ UNCHANGED <<pre, ready, ext, cur>>
    BY <1>18 DEF Launch, Goto
  <2>6. Underway(cur["cuda"])
    BY <1>0, <2>1, HeldTouched, WorkerFacts
  <2>7. ready[cur["cuda"]] = 0
    BY <1>0, <2>1, WorkerFacts DEF ReadyOnce, NotHeld
  <2> QED BY <1>0, <1>t, <2>1, <2>2, <2>6, <2>7, TaskFacts DEF ReadyOnce, NotHeld, Runnable
<1>19. CASE RecordEvent
  <2>1. CudaHasTask
    BY <1>0, <1>19, HeldFacts, WorkerFacts DEF RecordEvent, TaskPC
  <2>2. /\ pc["cuda"] = "record"
        /\ ext' = [ext EXCEPT ![cur["cuda"]] = "pending"]
        /\ UNCHANGED <<pre, ready, op, stream_idx, cur>>
    BY <1>19 DEF RecordEvent, Goto, MakeEvent
  <2>6. Underway(cur["cuda"])
    BY <1>0, <2>1, HeldTouched, WorkerFacts
  <2>7. ready[cur["cuda"]] = 0
    BY <1>0, <2>1, WorkerFacts DEF ReadyOnce, NotHeld
  <2> QED BY <1>0, <1>t, <2>1, <2>2, <2>6, <2>7, TaskFacts DEF ReadyOnce, NotHeld, Runnable
<1>20. CASE LaunchedPre
  <2>1. CudaHasTask
    BY <1>0, <1>20, HeldFacts, WorkerFacts DEF LaunchedPre, TaskPC
  <2>2. pc["cuda"] = "pre" /\ UNCHANGED <<op, ext, stream_idx, cur>>
    BY <1>20 DEF LaunchedPre, Goto
  <2>4. PICK R \in SUBSET Task : ReleaseStep(R, cur["cuda"]) /\ pre'[cur["cuda"]] = 0
    BY <1>0, <1>20, LaunchedPreEffect
  <2>6. Underway(cur["cuda"])
    BY <1>0, <2>1, HeldTouched, WorkerFacts
  <2>8. ASSUME NEW u \in Task
        PROVE  \/ ready'[u] = 0
               \/ ready'[u] = ready[u] /\ (ready[u] = 1 => pre'[u] = pre[u])
               \/ ready'[u] = 1 /\ pre'[u] = 1 /\ ~ Free(u)
    <3>1. CASE u \in R
      BY <2>4, <3>1 DEF ReleaseStep
    <3>2. CASE u \notin R
      BY <1>0, <2>4, <3>2, TaskFacts, WorkerFacts DEF ReleaseStep, ReadyOnce, NotHeld
    <3> QED BY <3>1, <3>2
  <2>9. ASSUME NEW u \in Task, ~ Free(u)
        PROVE  NotHeld(u) /\ op[u] = "none" /\ ext[u] = "none" /\ stream_idx[u] = NoStream
    BY <1>0, <2>9 DEF WaitingCounted
  <2> QED BY <1>0, <1>t, <2>1, <2>2, <2>6, <2>8, <2>9, TaskFacts DEF ReadyOnce, NotHeld, Runnable
<1>21. CASE CudaPoll
  <2>1. FrontPolled
    BY <1>0, <1>21, PolledTasks DEF CudaPoll, FrontDone
  <2>2. /\ pc["cuda"] = "poll" /\ FrontDone
        /\ ext' = [ext EXCEPT ![Front] = "reached"]
        /\ UNCHANGED <<op, stream_idx, cur>>
    BY <1>21 DEF CudaPoll, Goto, AfterPoll, TestStop
  <2>4. PICK R \in SUBSET Task : ReleaseStep(R, NoTask)
    BY <1>0, <1>21, CudaPollEffect
  <2>6. /\ Old(Front) /\ Free(Front) /\ NotHeld(Front) /\ ext[Front] = "pending"
        /\ Sched[Front] = "cuda"
    BY <1>0, <1>21, PolledTouched DEF CudaPoll, FrontDone
  <2>8. ASSUME NEW u \in Task
        PROVE  \/ ready'[u] = 0
               \/ ready'[u] = ready[u] /\ (ready[u] = 1 => pre'[u] = pre[u])
               \/ ready'[u] = 1 /\ pre'[u] = 1 /\ ~ Free(u)
    <3>1. CASE u \in R
      BY <2>4, <3>1 DEF ReleaseStep
    <3>2. CASE u \notin R
      BY <1>0, <2>4, <3>2, TaskFacts, WorkerFacts DEF ReleaseStep, ReadyOnce, NotHeld
    <3> QED BY <3>1, <3>2
  <2>9. ASSUME NEW u \in Task, ~ Free(u)
        PROVE  NotHeld(u) /\ op[u] = "none" /\ ext[u] = "none" /\ stream_idx[u] = NoStream
    BY <1>0, <2>9 DEF WaitingCounted
  <2> QED BY <1>0, <1>t, <2>1, <2>2, <2>6, <2>8, <2>9, TaskFacts DEF ReadyOnce, NotHeld, Runnable
<1>22. ASSUME NEW t \in Task, RequestCompletes(t) PROVE ReadyOnce'
  <2>2. /\ t \in Request /\ op[t] = "running"
        /\ op' = [op EXCEPT ![t] = "done"]
        /\ UNCHANGED <<pre, ready, ext, stream_idx, cur>>
    BY <1>22 DEF RequestCompletes
  <2>6. Old(t) /\ Free(t) /\ Sched[t] # "cuda"
    BY <1>0, <2>2, Touched, DispatchAssumption
  <2> QED BY <1>0, <1>t, <2>2, <2>6, TaskFacts DEF ReadyOnce, NotHeld, Runnable
<1>23. ASSUME NEW i \in DOMAIN streams, StreamStep(i) PROVE ReadyOnce'
  <2>1. op' = op \/ \E k \in Task : /\ stream_idx[k] # NoStream /\ Sched[k] = "cuda"
                                   /\ \A u \in Task : u # k => op'[u] = op[u]
    BY <1>0, <1>t, <1>23, StreamEffect
  <2>2. UNCHANGED <<pre, ready, ext, stream_idx, cur>>
    BY <1>23 DEF StreamStep
  <2> QED BY <1>0, <2>1, <2>2, DispatchAssumption DEF ReadyOnce, NotHeld, Runnable
<1> QED
  BY <1>2, <1>3, <1>4, <1>5, <1>6, <1>7, <1>8, <1>9, <1>10, <1>11, <1>12, <1>13, <1>14, <1>15,
     <1>16, <1>17, <1>18, <1>19, <1>20, <1>21, <1>22, <1>23
  DEF Next, WorkerStep, MpiStep, CudaStep, MainStep, Ended

LEMMA RestDoneStep ==
  ASSUME Hypotheses, IInv, [Next]_vars
  PROVE  RestDone'
<1>0. Parts
  BY DEF Hypotheses, IInv
<1>t. Ranges
  BY <1>0 DEF Types, CountTypes, EventTypes, WorkTypes, CudaTypes
<1>1. CASE UNCHANGED <<cur, emplaced, ext, followers, main, op, paused, post, pre, ready>>
  <2>1. \A u \in Task : Free(u)' <=> Free(u)
    BY <1>1, IncomingKept
  <2> QED BY <1>0, <1>1, <2>1 DEF RestDone, Parked, Old, Born, NotHeld
<1>2. CASE UNCHANGED vars
  BY <1>1, <1>2 DEF vars
<1>3. ASSUME NEW w \in Worker,
             GatherNothing(w) \/ PushRequest(w) \/ Yield(w) \/ PauseFollow(w) \/ SetResult(w)
             \/ WakeMain(w)
      PROVE  RestDone'
  BY <1>1, <1>3 DEF GatherNothing, PushRequest, Yield, PauseFollow, SetResult, WakeMain, Goto
<1>4. ASSUME PollNothing \/ Poll \/ CudaPollNothing PROVE RestDone'
  BY <1>1, <1>4 DEF PollNothing, Poll, CudaPollNothing, Goto
<1>5. ASSUME NEW w \in Worker, NEW t \in Task, GatherReady(w, t) PROVE RestDone'
  <2>2. /\ pc[w] = "gather" /\ Sched[t] = SchedOf(w) /\ ready[t] > 0
        /\ ready' = [ready EXCEPT ![t] = ready[t] - 1]
        /\ cur' = [cur EXCEPT ![w] = t]
        /\ UNCHANGED <<pre, post, op, ext, paused, followers, emplaced, main>>
    BY <1>5 DEF GatherReady, Goto, Mine
  <2>6. Old(t) /\ Free(t) /\ ready[t] # 0
    BY <1>0, <1>t, <2>2, Touched
  <2>7. SameIncoming
    BY <1>5, IncomingKept DEF GatherReady
  <2>8. \A u \in Task : Old(u)' <=> Old(u)
    BY <1>5, <2>2 DEF Old, Born
  <2>9. \A u \in Task : NotHeld(u)' => NotHeld(u) /\ u # t
    <3>1. cur[w] = NoTask
      BY <1>0, <2>2 DEF WorkersMatch, TaskPC
    <3> QED BY <1>t, <2>2, <3>1, TaskFacts DEF NotHeld
  <2> QED BY <1>0, <1>t, <2>2, <2>6, <2>7, <2>8, <2>9, TaskFacts DEF RestDone, Parked
<1>6. ASSUME NEW w \in Worker, NEW t \in Task, InitDependencies(w, t) PROVE RestDone'
  <2>1. /\ \A u \in Task : u # t => (Free(u)' <=> Free(u))
        /\ pre' = [pre EXCEPT ![t] = 1 + Cardinality(Edges(t))]
        /\ Edges(t) = {} <=> Free(t)'
    BY <1>6, InitEffect
  <2>2. /\ cur' = (IF Edges(t) = {} THEN [cur EXCEPT ![w] = t] ELSE cur)
        /\ emplaced' = emplaced \ {t}
        /\ UNCHANGED <<ready, op, ext, paused, main>>
    BY <1>6 DEF InitDependencies
  <2>3. \A u \in Task : u # t => (Old(u)' <=> Old(u))
    BY <2>2 DEF Old, Born
  <2>4. \A u \in Task : NotHeld(u)' => (u = t => ~ Free(u)') /\ (NotHeld(u) \/ u = t)
    <3>1. cur[w] = NoTask
      BY <1>0, <1>6 DEF InitDependencies, WorkersMatch, TaskPC
    <3> QED BY <1>t, <2>1, <2>2, <3>1, TaskFacts DEF NotHeld
  <2>5. \A u \in Task : u # t /\ NotHeld(u)' => NotHeld(u)
    BY <2>4
  <2>6. \A u \in Task : u # t => pre'[u] = pre[u]
    BY <1>t, <2>1
  <2>7. UNCHANGED <<ready, op, ext, paused>>
    BY <2>2
  <2> QED BY <1>0, <2>1, <2>3, <2>4, <2>5, <2>6, <2>7 DEF RestDone, Parked
<1>7. ASSUME NEW w \in Worker, Execute(w) PROVE RestDone'
  <2>1. HasTask(w)
    BY <1>0, <1>7, HeldFacts DEF Execute, TaskPC
  <2>2. pc[w] = "execute" /\ UNCHANGED <<post, op, ext, paused, followers, emplaced, main, cur>>
    BY <1>7 DEF Execute, Goto
  <2>4. (pre' = pre \/ (pre' = [pre EXCEPT ![cur[w]] = 0] /\ w # "cuda")) /\ ready' = ready
    <3>1. CASE w = "cuda"
      BY <1>7, <3>1 DEF Execute
    <3>2. CASE w # "cuda"
      BY <1>0, <1>7, <3>2, ExecuteEffect
    <3> QED BY <3>1, <3>2
  <2>6. Underway(cur[w])
    BY <1>0, <2>1, HeldTouched
  <2>7. SameIncoming
    <3>1. UNCHANGED <<post, followers>>
      BY <1>7 DEF Execute
    <3>2. \/ pre' = pre
          \/ \E t \in Task : Sched[t] # "cuda" /\ \A u \in Task : u # t => pre'[u] = pre[u]
      BY <1>t, <2>1, <2>4
    <3> QED BY <3>1, <3>2, IncomingKept
  <2>8. \A u \in Task : Old(u)' <=> Old(u)
    BY <1>7, <2>2 DEF Old, Born
  <2>9. \A u \in Task : (NotHeld(u)' <=> NotHeld(u)) /\ (u = cur[w] => ~ NotHeld(u))
    BY <2>2, WorkerFacts DEF NotHeld
  <2> QED BY <1>0, <1>t, <2>1, <2>2, <2>4, <2>6, <2>7, <2>8, <2>9, TaskFacts DEF RestDone, Parked
<1>8. ASSUME NEW w \in Worker, Compute(w) PROVE RestDone'
  <2>1. HasTask(w)
    BY <1>0, <1>8, HeldFacts DEF Compute, TaskPC
  <2>2. /\ pc[w] = "body" /\ w # "cuda" /\ cur[w] \notin Request
        /\ op' = [op EXCEPT ![cur[w]] = IF op[cur[w]] = "running" THEN "done" ELSE "running"]
        /\ UNCHANGED <<pre, post, ready, ext, paused, followers, emplaced, main, cur>>
    BY <1>8 DEF Compute, Goto
  <2>6. Underway(cur[w])
    BY <1>0, <2>1, HeldTouched
  <2>7. SameIncoming
    BY <1>8, IncomingKept DEF Compute
  <2>8. \A u \in Task : Old(u)' <=> Old(u)
    BY <1>8, <2>2 DEF Old, Born
  <2>9. \A u \in Task : (NotHeld(u)' <=> NotHeld(u)) /\ (u = cur[w] => ~ NotHeld(u))
    BY <2>2, WorkerFacts DEF NotHeld
  <2> QED BY <1>0, <1>t, <2>1, <2>2, <2>6, <2>7, <2>8, <2>9, TaskFacts DEF RestDone, Parked
<1>9. ASSUME NEW w \in Worker, GetStatus(w) PROVE RestDone'
  <2>1. HasTask(w)
    BY <1>0, <1>9, HeldFacts DEF GetStatus, TaskPC
  <2>2. /\ pc[w] = "body" /\ cur[w] \in Request
        /\ post' = [post EXCEPT ![cur[w]] = Up(post[cur[w]])]
        /\ op' = [op EXCEPT ![cur[w]] = "running"]
        /\ ext' = [ext EXCEPT ![cur[w]] = "pending"]
        /\ UNCHANGED <<pre, ready, paused, followers, emplaced, main, cur>>
    BY <1>9 DEF GetStatus, Goto, MakeEvent
  <2>6. Underway(cur[w])
    BY <1>0, <2>1, HeldTouched
  <2>7. SameIncoming
    <3>1. UNCHANGED <<pre, followers>>
      BY <1>9 DEF GetStatus
    <3>2. post[cur[w]] # 0 /\ post' = [post EXCEPT ![cur[w]] = Up(post[cur[w]])]
      BY <1>0, <1>9, <2>1, <2>6, PostPositive DEF GetStatus, MakeEvent
    <3> QED BY <2>1, <3>1, <3>2, IncomingKept
  <2>8. \A u \in Task : Old(u)' <=> Old(u)
    BY <1>9, <2>2 DEF Old, Born
  <2>9. \A u \in Task : (NotHeld(u)' <=> NotHeld(u)) /\ (u = cur[w] => ~ NotHeld(u))
    BY <2>2, WorkerFacts DEF NotHeld
  <2> QED BY <1>0, <1>t, <2>1, <2>2, <2>6, <2>7, <2>8, <2>9, TaskFacts DEF RestDone, Parked
<1>10. ASSUME NEW w \in Worker, PauseReset(w) PROVE RestDone'
  <2>1. HasTask(w)
    BY <1>0, <1>10, HeldFacts DEF PauseReset, TaskPC
  <2>2. /\ pc[w] = "reset"
        /\ pre' = [pre EXCEPT ![cur[w]] = 1]
        /\ UNCHANGED <<post, ready, op, ext, paused, followers, emplaced, main, cur>>
    BY <1>10 DEF PauseReset, Goto
  <2>6. Underway(cur[w])
    BY <1>0, <2>1, HeldTouched
  <2>7. SameIncoming
    <3>1. UNCHANGED <<post, followers>>
      BY <1>10 DEF PauseReset
    <3>2. Sched[cur[w]] # "cuda"
      BY <1>0, <2>1, <2>2, DispatchAssumption DEF WorkersMatch, PausePC
    <3>3. \E t \in Task : Sched[t] # "cuda" /\ \A u \in Task : u # t => pre'[u] = pre[u]
      BY <1>t, <2>1, <2>2, <3>2
    <3> QED BY <3>1, <3>3, IncomingKept
  <2>8. \A u \in Task : Old(u)' <=> Old(u)
    BY <1>10, <2>2 DEF Old, Born
  <2>9. \A u \in Task : (NotHeld(u)' <=> NotHeld(u)) /\ (u = cur[w] => ~ NotHeld(u))
    BY <2>2, WorkerFacts DEF NotHeld
  <2> QED BY <1>0, <1>t, <2>1, <2>2, <2>6, <2>7, <2>8, <2>9, TaskFacts DEF RestDone, Parked
<1>11. ASSUME NEW w \in Worker, PauseAppend(w) PROVE RestDone'
  <2>1. HasTask(w)
    BY <1>0, <1>11, HeldFacts DEF PauseAppend, TaskPC
  <2>2. /\ pc[w] = "append"
        /\ paused' = [paused EXCEPT ![cur[w]] = TRUE]
        /\ UNCHANGED <<pre, post, ready, op, ext, followers, emplaced, main, cur>>
    BY <1>11 DEF PauseAppend, Goto
  <2>6. Underway(cur[w])
    BY <1>0, <2>1, HeldTouched
  <2>7. SameIncoming
    BY <1>11, IncomingKept DEF PauseAppend
  <2>8. \A u \in Task : Old(u)' <=> Old(u)
    BY <1>11, <2>2 DEF Old, Born
  <2>9. \A u \in Task : (NotHeld(u)' <=> NotHeld(u)) /\ (u = cur[w] => ~ NotHeld(u))
    BY <2>2, WorkerFacts DEF NotHeld
  <2> QED BY <1>0, <1>t, <2>1, <2>2, <2>6, <2>7, <2>8, <2>9, TaskFacts DEF RestDone, Parked
<1>12. ASSUME NEW w \in Worker, PauseCount(w) PROVE RestDone'
  <2>1. HasTask(w)
    BY <1>0, <1>12, HeldFacts DEF PauseCount, TaskPC
  <2>2. /\ pc[w] = "count"
        /\ pre' = [pre EXCEPT ![cur[w]] = Up(pre[cur[w]])]
        /\ UNCHANGED <<post, ready, op, ext, paused, followers, emplaced, main, cur>>
    BY <1>12 DEF PauseCount, Goto
  <2>6. Underway(cur[w])
    BY <1>0, <2>1, HeldTouched
  <2>7. SameIncoming
    <3>1. UNCHANGED <<post, followers>>
      BY <1>12 DEF PauseCount
    <3>2. Sched[cur[w]] # "cuda"
      BY <1>0, <2>1, <2>2, DispatchAssumption DEF WorkersMatch, PausePC
    <3>3. \E t \in Task : Sched[t] # "cuda" /\ \A u \in Task : u # t => pre'[u] = pre[u]
      BY <1>t, <2>1, <2>2, <3>2
    <3> QED BY <3>1, <3>3, IncomingKept
  <2>8. \A u \in Task : Old(u)' <=> Old(u)
    BY <1>12, <2>2 DEF Old, Born
  <2>9. \A u \in Task : (NotHeld(u)' <=> NotHeld(u)) /\ (u = cur[w] => ~ NotHeld(u))
    BY <2>2, WorkerFacts DEF NotHeld
  <2> QED BY <1>0, <1>t, <2>1, <2>2, <2>6, <2>7, <2>8, <2>9, TaskFacts DEF RestDone, Parked
<1>13. ASSUME NEW w \in Worker, PauseUp(w) PROVE RestDone'
  <2>1. HasTask(w)
    BY <1>0, <1>13, HeldFacts DEF PauseUp, TaskPC
  <2>2. /\ pc[w] = "up"
        /\ pre' = [pre EXCEPT ![cur[w]] = Up(pre[cur[w]])]
        /\ UNCHANGED <<post, ready, op, ext, paused, followers, emplaced, main, cur>>
    BY <1>13 DEF PauseUp, Goto
  <2>6. Underway(cur[w])
    BY <1>0, <2>1, HeldTouched
  <2>7. SameIncoming
    <3>1. UNCHANGED <<post, followers>>
      BY <1>13 DEF PauseUp
    <3>2. Sched[cur[w]] # "cuda"
      BY <1>0, <2>1, <2>2, DispatchAssumption DEF WorkersMatch, PausePC
    <3>3. \E t \in Task : Sched[t] # "cuda" /\ \A u \in Task : u # t => pre'[u] = pre[u]
      BY <1>t, <2>1, <2>2, <3>2
    <3> QED BY <3>1, <3>3, IncomingKept
  <2>8. \A u \in Task : Old(u)' <=> Old(u)
    BY <1>13, <2>2 DEF Old, Born
  <2>9. \A u \in Task : (NotHeld(u)' <=> NotHeld(u)) /\ (u = cur[w] => ~ NotHeld(u))
    BY <2>2, WorkerFacts DEF NotHeld
  <2> QED BY <1>0, <1>t, <2>1, <2>2, <2>6, <2>7, <2>8, <2>9, TaskFacts DEF RestDone, Parked
<1>14. ASSUME NEW w \in Worker, PauseNotify(w) PROVE RestDone'
  <2>1. HasTask(w)
    BY <1>0, <1>14, HeldFacts DEF PauseNotify, TaskPC
  <2>2. /\ pc[w] = "notify"
        /\ cur' = [cur EXCEPT ![w] = NoTask]
        /\ UNCHANGED <<post, op, ext, paused, followers, emplaced, main>>
    BY <1>14 DEF PauseNotify, Goto, AfterTask
  <2>4. pre' = [pre EXCEPT ![cur[w]] = 2] /\ ready' = ready
    BY <1>0, <1>14, PauseNotifyEffect
  <2>6. Underway(cur[w])
    BY <1>0, <2>1, HeldTouched
  <2>7. SameIncoming
    <3>1. UNCHANGED <<post, followers>>
      BY <1>14 DEF PauseNotify
    <3>2. Sched[cur[w]] # "cuda"
      BY <1>0, <2>1, <2>2, DispatchAssumption DEF WorkersMatch, PausePC
    <3>3. \E t \in Task : Sched[t] # "cuda" /\ \A u \in Task : u # t => pre'[u] = pre[u]
      BY <1>t, <2>1, <2>4, <3>2
    <3> QED BY <3>1, <3>3, IncomingKept
  <2>8. \A u \in Task : (Old(u)' <=> Old(u)) /\ (u # cur[w] => (NotHeld(u)' <=> NotHeld(u)))
    BY <1>t, <2>2, TaskFacts DEF Old, Born, NotHeld
  <2>9. cur[w] \in Request /\ paused[cur[w]]
    BY <1>0, <2>2 DEF WorkersMatch, PausePC, HeldProgress
  <2> QED BY <1>0, <1>t, <2>1, <2>2, <2>4, <2>7, <2>8, <2>9 DEF RestDone, Parked
<1>15. ASSUME NEW w \in Worker, FinishTask(w) PROVE RestDone'
  <2>1. HasTask(w)
    BY <1>0, <1>15, HeldFacts DEF FinishTask, TaskPC
  <2>2. /\ pc[w] = "post"
        /\ cur' = [cur EXCEPT ![w] = NoTask]
        /\ UNCHANGED <<op, ext, paused, followers, emplaced, main>>
    BY <1>15 DEF FinishTask, Goto, AfterTask
  <2>4. PICK R \in SUBSET Task : ReleaseStep(R, NoTask)
    BY <1>0, <1>15, FinishTaskEffect
  <2>5. post' = [post EXCEPT ![cur[w]] = post[cur[w]] - 1] /\ post[cur[w]] # 0
    BY <1>0, <1>15, FinishTaskEffect
  <2>6. Underway(cur[w])
    BY <1>0, <2>1, HeldTouched
  <2>7. /\ pre[cur[w]] = 0
        /\ cur[w] \in Request => ext[cur[w]] = "reached"
        /\ Sched[cur[w]] = "cuda" => ext[cur[w]] # "none"
        /\ cur[w] \notin Request /\ Sched[cur[w]] # "cuda" => op[cur[w]] = "done"
    BY <1>0, <2>1, <2>2 DEF HeldPre, HeldProgress
  <2>8. \A u \in Task : (Old(u)' <=> Old(u)) /\ (u # cur[w] => (NotHeld(u)' <=> NotHeld(u)))
    BY <1>t, <2>2, TaskFacts DEF Old, Born, NotHeld
  <2>9. ASSUME NEW u \in Task, Free(u)', ready'[u] = 0, NotHeld(u)'
        PROVE  Free(u) /\ ready[u] = 0 /\ pre'[u] = pre[u]
    <3>1. u \notin R
      BY <2>4, <2>9 DEF ReleaseStep
    <3>2. ready'[u] = ready[u] /\ Incoming(u)' = Incoming(u) /\ pre'[u] = pre[u]
      BY <2>7, <2>4, <2>9, <3>1, TaskFacts DEF ReleaseStep
    <3> QED BY <2>9, <3>2 DEF Free
  <2> QED
    BY <1>0, <1>t, <2>7, <2>1, <2>2, <2>6, <2>8, <2>9, DispatchAssumption DEF RestDone, Parked
<1>16. CASE PollStatus
  <2>1. Polled
    BY <1>0, <1>16, PolledTasks DEF PollStatus, PollPC
  <2>2. /\ pc["mpi"] = "status"
        /\ ext' = [ext EXCEPT ![Current] = "reached"]
        /\ UNCHANGED <<pre, post, ready, op, paused, followers, emplaced, main, cur>>
    BY <1>16 DEF PollStatus, Goto, OutStatus, Current
  <2>6. Old(Current) /\ Free(Current) /\ NotHeld(Current) /\ ext[Current] = "pending"
    BY <1>0, <1>16, PolledTouched DEF PollStatus, PollPC
  <2>7. SameIncoming
    BY <1>16, IncomingKept DEF PollStatus
  <2>8. \A u \in Task : Old(u)' <=> Old(u)
    BY <1>16, <2>2 DEF Old, Born
  <2>9. \A u \in Task : NotHeld(u)' <=> NotHeld(u)
    BY <2>2 DEF NotHeld
  <2> QED BY <1>0, <1>t, <2>1, <2>2, <2>6, <2>7, <2>8, <2>9, TaskFacts DEF RestDone, Parked
<1>17. CASE PollResume
  <2>1. Polled
    BY <1>0, <1>17, PolledTasks DEF PollResume, PollPC
  <2>2. pc["mpi"] = "resume" /\ UNCHANGED <<post, op, ext, paused, followers, emplaced, main, cur>>
    BY <1>17 DEF PollResume, Goto
  <2>4. pre' = [pre EXCEPT ![Current] = 1] /\ ready' = [ready EXCEPT ![Current] = 1]
    BY <1>0, <1>17, PollResumeEffect
  <2>6. Old(Current) /\ Free(Current) /\ NotHeld(Current) /\ ext[Current] = "reached"
    BY <1>0, <1>17, PolledTouched DEF PollResume, PollPC
  <2>7. SameIncoming
    <3>1. UNCHANGED <<post, followers>>
      BY <1>17 DEF PollResume
    <3>2. Sched[Current] # "cuda"
      BY <2>1, DispatchAssumption
    <3>3. \E t \in Task : Sched[t] # "cuda" /\ \A u \in Task : u # t => pre'[u] = pre[u]
      BY <1>t, <2>1, <2>4, <3>2
    <3> QED BY <3>1, <3>3, IncomingKept
  <2>8. \A u \in Task : Old(u)' <=> Old(u)
    BY <1>17, <2>2 DEF Old, Born
  <2>9. \A u \in Task : NotHeld(u)' <=> NotHeld(u)
    BY <2>2 DEF NotHeld
  <2> QED BY <1>0, <1>t, <2>1, <2>2, <2>4, <2>6, <2>7, <2>8, <2>9, TaskFacts DEF RestDone, Parked
<1>18. CASE PollErase
  <2>1. Polled
    BY <1>0, <1>18, PolledTasks DEF PollErase, PollPC
  <2>2. pc["mpi"] = "erase" /\ UNCHANGED <<op, ext, paused, followers, emplaced, main, cur>>
    BY <1>18 DEF PollErase, Goto, AfterPoll, TestStop, Current
  <2>4. PICK R \in SUBSET Task : ReleaseStep(R, NoTask)
    BY <1>0, <1>18, PollEraseEffect
  <2>5. post' = [post EXCEPT ![Current] = post[Current] - 1] /\ post[Current] # 0
    BY <1>0, <1>18, PollEraseEffect
  <2>6. Old(Current) /\ Free(Current) /\ NotHeld(Current) /\ ext[Current] = "reached"
    BY <1>0, <1>18, PolledTouched DEF PollErase, PollPC
  <2>8. \A u \in Task : (Old(u)' <=> Old(u)) /\ (NotHeld(u)' <=> NotHeld(u))
    BY <2>2 DEF Old, Born, NotHeld
  <2>9. ASSUME NEW u \in Task, Free(u)', ready'[u] = 0, NotHeld(u)'
        PROVE  Free(u) /\ ready[u] = 0 /\ pre'[u] = pre[u]
    <3>1. u \notin R
      BY <2>4, <2>9 DEF ReleaseStep
    <3>2. ready'[u] = ready[u] /\ Incoming(u)' = Incoming(u) /\ pre'[u] = pre[u]
      BY <2>4, <2>9, <3>1, TaskFacts DEF ReleaseStep
    <3> QED BY <2>9, <3>2 DEF Free
  <2> QED BY <1>0, <1>t, <2>1, <2>2, <2>6, <2>8, <2>9, DispatchAssumption DEF RestDone, Parked
<1>19. CASE Launch
  <2>1. CudaHasTask
    BY <1>0, <1>19, HeldFacts, WorkerFacts DEF Launch, TaskPC
  <2>2. /\ pc["cuda"] = "body"
        /\ op' = [op EXCEPT ![cur["cuda"]] = "queued"]
        /\ UNCHANGED <<pre, post, ready, ext, paused, followers, emplaced, main, cur>>
    BY <1>19 DEF Launch, Goto
  <2>6. Underway(cur["cuda"])
    BY <1>0, <2>1, HeldTouched, WorkerFacts
  <2>7. SameIncoming
    BY <1>19, IncomingKept DEF Launch
  <2>8. \A u \in Task : Old(u)' <=> Old(u)
    BY <1>19, <2>2 DEF Old, Born
  <2>9. \A u \in Task : (NotHeld(u)' <=> NotHeld(u)) /\ (u = cur["cuda"] => ~ NotHeld(u))
    BY <2>2, WorkerFacts DEF NotHeld
  <2> QED BY <1>0, <1>t, <2>1, <2>2, <2>6, <2>7, <2>8, <2>9, TaskFacts DEF RestDone, Parked
<1>20. CASE RecordEvent
  <2>1. CudaHasTask
    BY <1>0, <1>20, HeldFacts, WorkerFacts DEF RecordEvent, TaskPC
  <2>2. /\ pc["cuda"] = "record"
        /\ post' = [post EXCEPT ![cur["cuda"]] = Up(post[cur["cuda"]])]
        /\ ext' = [ext EXCEPT ![cur["cuda"]] = "pending"]
        /\ UNCHANGED <<pre, ready, op, paused, followers, emplaced, main, cur>>
    BY <1>20 DEF RecordEvent, Goto, MakeEvent
  <2>6. Underway(cur["cuda"])
    BY <1>0, <2>1, HeldTouched, WorkerFacts
  <2>7. SameIncoming
    <3>1. UNCHANGED <<pre, followers>>
      BY <1>20 DEF RecordEvent
    <3>2. post[cur["cuda"]] # 0 /\ post' = [post EXCEPT ![cur["cuda"]] = Up(post[cur["cuda"]])]
      BY <1>0, <1>20, <2>1, <2>6, PostPositive DEF RecordEvent, MakeEvent
    <3> QED BY <2>1, <3>1, <3>2, IncomingKept
  <2>8. \A u \in Task : Old(u)' <=> Old(u)
    BY <1>20, <2>2 DEF Old, Born
  <2>9. \A u \in Task : (NotHeld(u)' <=> NotHeld(u)) /\ (u = cur["cuda"] => ~ NotHeld(u))
    BY <2>2, WorkerFacts DEF NotHeld
  <2> QED BY <1>0, <1>t, <2>1, <2>2, <2>6, <2>7, <2>8, <2>9, TaskFacts DEF RestDone, Parked
<1>21. CASE LaunchedPre
  <2>1. CudaHasTask
    BY <1>0, <1>21, HeldFacts, WorkerFacts DEF LaunchedPre, TaskPC
  <2>2. pc["cuda"] = "pre" /\ UNCHANGED <<op, ext, paused, followers, emplaced, main, cur>>
    BY <1>21 DEF LaunchedPre, Goto
  <2>4. PICK R \in SUBSET Task : ReleaseStep(R, cur["cuda"]) /\ pre'[cur["cuda"]] = 0
    BY <1>0, <1>21, LaunchedPreEffect
  <2>5. post' = post
    BY <1>21 DEF LaunchedPre
  <2>6. Underway(cur["cuda"])
    BY <1>0, <2>1, HeldTouched, WorkerFacts
  <2>8. \A u \in Task : (Old(u)' <=> Old(u)) /\ (NotHeld(u)' <=> NotHeld(u))
    BY <2>2 DEF Old, Born, NotHeld
  <2>7. \A u \in Task : NotHeld(u)' => u # cur["cuda"]
    BY <2>2, WorkerFacts DEF NotHeld
  <2>9. ASSUME NEW u \in Task, Free(u)', ready'[u] = 0, NotHeld(u)'
        PROVE  Free(u) /\ ready[u] = 0 /\ pre'[u] = pre[u]
    <3>1. u \notin R
      BY <2>4, <2>9 DEF ReleaseStep
    <3>2. ready'[u] = ready[u] /\ Incoming(u)' = Incoming(u) /\ pre'[u] = pre[u]
      BY <2>7, <2>4, <2>9, <3>1, TaskFacts DEF ReleaseStep
    <3> QED BY <2>9, <3>2 DEF Free
  <2> QED
    BY <1>0, <1>t, <2>7, <2>1, <2>2, <2>6, <2>8, <2>9, DispatchAssumption DEF RestDone, Parked
<1>22. CASE CudaPoll
  <2>1. FrontPolled
    BY <1>0, <1>22, PolledTasks DEF CudaPoll, FrontDone
  <2>2. /\ pc["cuda"] = "poll" /\ FrontDone
        /\ ext' = [ext EXCEPT ![Front] = "reached"]
        /\ UNCHANGED <<op, paused, followers, emplaced, main, cur>>
    BY <1>22 DEF CudaPoll, Goto, AfterPoll, TestStop
  <2>4. PICK R \in SUBSET Task : ReleaseStep(R, NoTask)
    BY <1>0, <1>22, CudaPollEffect
  <2>5. /\ post' = [post EXCEPT ![Front] = post[Front] - 1]
        /\ post[Front] # 0
    BY <1>0, <1>22, CudaPollEffect
  <2>6. /\ Old(Front) /\ Free(Front) /\ NotHeld(Front) /\ ext[Front] = "pending"
        /\ Sched[Front] = "cuda"
    BY <1>0, <1>22, PolledTouched DEF CudaPoll, FrontDone
  <2>8. \A u \in Task : (Old(u)' <=> Old(u)) /\ (NotHeld(u)' <=> NotHeld(u))
    BY <2>2 DEF Old, Born, NotHeld
  <2>9. ASSUME NEW u \in Task, Free(u)', ready'[u] = 0, NotHeld(u)'
        PROVE  Free(u) /\ ready[u] = 0 /\ pre'[u] = pre[u]
    <3>1. u \notin R
      BY <2>4, <2>9 DEF ReleaseStep
    <3>2. ready'[u] = ready[u] /\ Incoming(u)' = Incoming(u) /\ pre'[u] = pre[u]
      BY <2>4, <2>9, <3>1, TaskFacts DEF ReleaseStep
    <3> QED BY <2>9, <3>2 DEF Free
  <2> QED BY <1>0, <1>t, <2>1, <2>2, <2>6, <2>8, <2>9, DispatchAssumption DEF RestDone, Parked
<1>23. ASSUME NEW t \in Task, RequestCompletes(t) PROVE RestDone'
  <2>2. /\ t \in Request /\ op[t] = "running"
        /\ op' = [op EXCEPT ![t] = "done"]
        /\ UNCHANGED <<pre, post, ready, ext, paused, followers, emplaced, main, cur>>
    BY <1>23 DEF RequestCompletes
  <2>6. Old(t) /\ Free(t) /\ Sched[t] # "cuda"
    BY <1>0, <2>2, Touched, DispatchAssumption
  <2>7. SameIncoming
    BY <1>23, IncomingKept DEF RequestCompletes
  <2>8. \A u \in Task : Old(u)' <=> Old(u)
    BY <1>23, <2>2 DEF Old, Born
  <2>9. \A u \in Task : NotHeld(u)' <=> NotHeld(u)
    BY <2>2 DEF NotHeld
  <2> QED BY <1>0, <1>t, <2>2, <2>6, <2>7, <2>8, <2>9, DispatchAssumption, TaskFacts
    DEF RestDone, Parked
<1>24. ASSUME NEW i \in DOMAIN streams, StreamStep(i) PROVE RestDone'
  <2>1. op' = op \/ \E k \in Task : /\ stream_idx[k] # NoStream /\ Sched[k] = "cuda"
                                   /\ \A u \in Task : u # k => op'[u] = op[u]
    BY <1>0, <1>t, <1>24, StreamEffect
  <2>2. UNCHANGED <<pre, post, ready, ext, paused, followers, emplaced, main, cur>>
    BY <1>24 DEF StreamStep
  <2>3. \A u \in Task : Free(u)' <=> Free(u)
    BY <2>2, IncomingKept
  <2>4. \A u \in Task : (Old(u)' <=> Old(u)) /\ (NotHeld(u)' <=> NotHeld(u))
    BY <2>2 DEF Old, Born, NotHeld
  <2> QED BY <1>0, <2>1, <2>2, <2>3, <2>4 DEF RestDone, Parked
<1>25. CASE Emplace
  <2>2. UNCHANGED <<pre, post, ready, op, ext, paused, followers, cur>>
    BY <1>25 DEF Emplace, OnlyMain
  <2>3. \A u \in Task : (Free(u)' <=> Free(u)) /\ (NotHeld(u)' <=> NotHeld(u))
    BY <2>2, IncomingKept DEF NotHeld
  <2>4. \A t \in Task : Old(t)' => Old(t)
    BY <1>0, <1>25, EmplaceEffect
  <2> QED BY <1>0, <2>2, <2>3, <2>4 DEF RestDone, Parked
<1>26. CASE EndOfProgram
  <2>2. UNCHANGED <<pre, post, ready, op, ext, paused, followers, cur>>
    BY <1>26 DEF EndOfProgram, OnlyMain
  <2>3. \A u \in Task : (Free(u)' <=> Free(u)) /\ (NotHeld(u)' <=> NotHeld(u))
    BY <2>2, IncomingKept DEF NotHeld
  <2>4. \A t \in Task : Old(t)' => Old(t)
    BY <1>0, <1>26, BornKept
  <2> QED BY <1>0, <2>2, <2>3, <2>4 DEF RestDone, Parked
<1>27. CASE EnterWaker
  <2>2. UNCHANGED <<pre, post, ready, op, ext, paused, followers, cur>>
    BY <1>27 DEF EnterWaker, OnlyMain
  <2>3. \A u \in Task : (Free(u)' <=> Free(u)) /\ (NotHeld(u)' <=> NotHeld(u))
    BY <2>2, IncomingKept DEF NotHeld
  <2>4. \A t \in Task : Old(t)' => Old(t)
    BY <1>0, <1>27, BornKept
  <2> QED BY <1>0, <2>2, <2>3, <2>4 DEF RestDone, Parked
<1>28. CASE TestResult
  <2>2. UNCHANGED <<pre, post, ready, op, ext, paused, followers, cur>>
    BY <1>28 DEF TestResult, OnlyMain
  <2>3. \A u \in Task : (Free(u)' <=> Free(u)) /\ (NotHeld(u)' <=> NotHeld(u))
    BY <2>2, IncomingKept DEF NotHeld
  <2>4. \A t \in Task : Old(t)' => Old(t)
    BY <1>0, <1>28, BornKept
  <2> QED BY <1>0, <2>2, <2>3, <2>4 DEF RestDone, Parked
<1>29. CASE Idle
  <2>2. UNCHANGED <<pre, post, ready, op, ext, paused, followers, cur>>
    BY <1>29 DEF Idle, OnlyMain
  <2>3. \A u \in Task : (Free(u)' <=> Free(u)) /\ (NotHeld(u)' <=> NotHeld(u))
    BY <2>2, IncomingKept DEF NotHeld
  <2>4. \A t \in Task : Old(t)' => Old(t)
    BY <1>0, <1>29, BornKept
  <2> QED BY <1>0, <2>2, <2>3, <2>4 DEF RestDone, Parked
<1>30. CASE TakeResult
  <2>2. UNCHANGED <<pre, post, ready, op, ext, paused, followers, cur>>
    BY <1>30 DEF TakeResult, OnlyMain
  <2>3. \A u \in Task : (Free(u)' <=> Free(u)) /\ (NotHeld(u)' <=> NotHeld(u))
    BY <2>2, IncomingKept DEF NotHeld
  <2>4. \A t \in Task : Old(t)' => Old(t)
    BY <1>0, <1>30, BornKept
  <2> QED BY <1>0, <2>2, <2>3, <2>4 DEF RestDone, Parked
<1>31. CASE Barrier
  <2>2. UNCHANGED <<pre, post, ready, op, ext, paused, followers, cur>>
    BY <1>31 DEF Barrier, OnlyMain
  <2>3. \A u \in Task : (Free(u)' <=> Free(u)) /\ (NotHeld(u)' <=> NotHeld(u))
    BY <2>2, IncomingKept DEF NotHeld
  <2>4. \A t \in Task : Old(t)' => Old(t)
    BY <1>0, <1>31, BornKept
  <2> QED BY <1>0, <2>2, <2>3, <2>4 DEF RestDone, Parked
<1>32. CASE Stop
  <2>2. UNCHANGED <<pre, post, ready, op, ext, paused, followers, cur>>
    BY <1>32 DEF Stop, OnlyMain
  <2>3. \A u \in Task : (Free(u)' <=> Free(u)) /\ (NotHeld(u)' <=> NotHeld(u))
    BY <2>2, IncomingKept DEF NotHeld
  <2>4. \A t \in Task : Old(t)' => Old(t)
    BY <1>0, <1>32, BornKept
  <2> QED BY <1>0, <2>2, <2>3, <2>4 DEF RestDone, Parked
<1>33. CASE Join
  <2>2. UNCHANGED <<pre, post, ready, op, ext, paused, followers, cur>>
    BY <1>33 DEF Join, OnlyMain
  <2>3. \A u \in Task : (Free(u)' <=> Free(u)) /\ (NotHeld(u)' <=> NotHeld(u))
    BY <2>2, IncomingKept DEF NotHeld
  <2>4. \A t \in Task : Old(t)' => Old(t)
    BY <1>0, <1>33, BornKept
  <2> QED BY <1>0, <2>2, <2>3, <2>4 DEF RestDone, Parked
<1> QED
  BY <1>2, <1>3, <1>4, <1>5, <1>6, <1>7, <1>8, <1>9, <1>10, <1>11, <1>12, <1>13, <1>14, <1>15,
     <1>16, <1>17, <1>18, <1>19, <1>20, <1>21, <1>22, <1>23, <1>24, <1>25, <1>26, <1>27, <1>28,
     <1>29, <1>30, <1>31, <1>32, <1>33
  DEF Next, WorkerStep, MpiStep, CudaStep, MainStep, Ended

-----------------------------------------------------------------------------
(***************************************************************************)
(* The counts of the post-events, and the paused tasks.                    *)
(***************************************************************************)
LEMMA PostCountsStep ==
  ASSUME Hypotheses, IInv, [Next]_vars
  PROVE  PostCounts'
<1>0. Parts
  BY DEF Hypotheses, IInv
<1>t. Ranges
  BY <1>0 DEF Types, CountTypes, EventTypes, WorkTypes, CudaTypes
<1>1. CASE UNCHANGED <<cur, events, ext, indices, pc, post, pre, slot>>
  BY <1>0, <1>1 DEF PostCounts, Finished, Holds, Current, NotHeld
<1>2. CASE UNCHANGED vars
  BY <1>1, <1>2 DEF vars
<1>3. ASSUME \/ Emplace \/ EndOfProgram \/ EnterWaker \/ TestResult \/ Idle \/ TakeResult
             \/ Barrier \/ Stop \/ Join
      PROVE  PostCounts'
  BY <1>1, <1>3
  DEF Emplace, EndOfProgram, EnterWaker, TestResult, Idle, TakeResult, Barrier, Stop, Join,
      MainGoto, OnlyMain
<1>4. ASSUME NEW t \in Task, RequestCompletes(t) PROVE PostCounts'
  BY <1>1, <1>4 DEF RequestCompletes
<1>5. ASSUME NEW i \in DOMAIN streams, StreamStep(i) PROVE PostCounts'
  BY <1>1, <1>5 DEF StreamStep
<1>6. ASSUME NEW w \in Worker, NEW t \in Task, GatherReady(w, t) PROVE PostCounts'
  <2>2. /\ pc[w] = "gather" /\ Sched[t] = SchedOf(w) /\ ready[t] > 0
        /\ cur' = [cur EXCEPT ![w] = t]
        /\ pc' = [pc EXCEPT ![w] = "execute"]
        /\ UNCHANGED <<post, pre, ext, events, indices, slot>>
    BY <1>6 DEF GatherReady, Goto, Mine
  <2>6. Old(t) /\ Free(t) /\ ready[t] # 0
    BY <1>0, <1>t, <2>2, Touched
  <2>8. \A u \in Task : Holds(u)' <=> Holds(u)
    BY <1>t, <2>2, WorkerFacts DEF Holds, Current
  <2>9. \A u \in Task : Finished(u)' <=> Finished(u)
    <3>1. pre[t] = 1 /\ cur[w] = NoTask
      BY <1>0, <2>2, <2>6 DEF ReadyOnce, WorkersMatch, TaskPC
    <3> QED BY <1>t, <2>2, <3>1, TaskFacts DEF Finished, NotHeld
  <2> QED BY <1>0, <2>2, <2>8, <2>9 DEF PostCounts
<1>7. ASSUME NEW w \in Worker, NEW t \in Task, InitDependencies(w, t) PROVE PostCounts'
  <2>1. pre' = [pre EXCEPT ![t] = 1 + Cardinality(Edges(t))] /\ Cardinality(Edges(t)) \in Nat
    BY <1>7, InitEffect
  <2>2. /\ t \in emplaced /\ pc[w] = "gather"
        /\ cur' = (IF Edges(t) = {} THEN [cur EXCEPT ![w] = t] ELSE cur)
        /\ pc' = (IF Edges(t) = {} THEN [pc EXCEPT ![w] = "execute"] ELSE pc)
        /\ UNCHANGED <<post, ext, events, indices, slot>>
    BY <1>7 DEF InitDependencies, Goto
  <2>3. pre[t] = 1 /\ cur[w] = NoTask
    BY <1>0, <2>2 DEF NewUntouched, Old, WorkersMatch, TaskPC
  <2>4. 1 + Cardinality(Edges(t)) # 0
    BY <2>1
  <2>5. \A u \in Task : Holds(u)' <=> Holds(u)
    BY <1>t, <2>2, WorkerFacts DEF Holds, Current
  <2>6. \A u \in Task : (pre'[u] = 0) <=> (pre[u] = 0)
    BY <1>t, <2>1, <2>3, <2>4
  <2>7. \A u \in Task : u # t => (NotHeld(u)' <=> NotHeld(u))
    BY <1>t, <2>2, <2>3, TaskFacts DEF NotHeld
  <2>8. \A u \in Task : Finished(u)' <=> Finished(u)
    BY <2>3, <2>6, <2>7 DEF Finished
  <2>9. post' = post
    BY <2>2
  <2> QED BY <1>0, <2>5, <2>8, <2>9 DEF PostCounts
<1>8. ASSUME NEW w \in Worker, GatherNothing(w) PROVE PostCounts'
  <2>2. /\ pc[w] = "gather"
        /\ \E p \in {"gather", "stopped", "poll"} :
             (p = "poll" => w \notin PoolWorker) /\ pc' = [pc EXCEPT ![w] = p]
        /\ UNCHANGED <<post, pre, cur, ext, events, indices, slot>>
    BY <1>8 DEF GatherNothing, Goto, TestStop
  <2>8. \A u \in Task : Holds(u)' <=> Holds(u)
    BY <1>t, <2>2, WorkerFacts DEF Holds, Current
  <2>9. \A u \in Task : Finished(u)' <=> Finished(u)
    BY <1>t, <2>2 DEF Finished, NotHeld
  <2> QED BY <1>0, <2>2, <2>8, <2>9 DEF PostCounts
<1>9. ASSUME NEW w \in Worker, Execute(w) PROVE PostCounts'
  <2>1. HasTask(w)
    BY <1>0, <1>9, HeldFacts DEF Execute, TaskPC
  <2>2. /\ pc[w] = "execute"
        /\ pc' = [pc EXCEPT ![w] = IF ext[cur[w]] = "none" THEN "body" ELSE "check"]
        /\ UNCHANGED <<post, cur, ext, events, indices, slot>>
    BY <1>9 DEF Execute, Goto
  <2>4. (pre' = pre \/ (pre' = [pre EXCEPT ![cur[w]] = 0] /\ w # "cuda")) /\ ready' = ready
    <3>1. CASE w = "cuda"
      BY <1>9, <3>1 DEF Execute
    <3>2. CASE w # "cuda"
      BY <1>0, <1>9, <3>2, ExecuteEffect
    <3> QED BY <3>1, <3>2
  <2>6. Underway(cur[w])
    BY <1>0, <2>1, HeldTouched
  <2>8. \A u \in Task : Holds(u)' <=> Holds(u)
    BY <1>t, <2>1, <2>2, WorkerFacts DEF Holds, Current
  <2>9. \A u \in Task : Finished(u)' <=> Finished(u)
    BY <1>t, <2>1, <2>2, <2>4, <2>6 DEF Finished, NotHeld
  <2> QED BY <1>0, <2>2, <2>8, <2>9 DEF PostCounts
<1>10. ASSUME NEW w \in Worker, Compute(w) PROVE PostCounts'
  <2>1. HasTask(w)
    BY <1>0, <1>10, HeldFacts DEF Compute, TaskPC
  <2>2. /\ pc[w] = "body" /\ w # "cuda" /\ cur[w] \notin Request
        /\ pc' = (IF op[cur[w]] = "running" THEN [pc EXCEPT ![w] = "result"] ELSE pc)
        /\ UNCHANGED <<post, pre, cur, ext, events, indices, slot>>
    BY <1>10 DEF Compute, Goto
  <2>6. Underway(cur[w])
    BY <1>0, <2>1, HeldTouched
  <2>8. \A u \in Task : Holds(u)' <=> Holds(u)
    BY <1>t, <2>1, <2>2, WorkerFacts DEF Holds, Current
  <2>9. \A u \in Task : Finished(u)' <=> Finished(u)
    BY <1>t, <2>1, <2>2, <2>6 DEF Finished, NotHeld
  <2> QED BY <1>0, <2>2, <2>8, <2>9 DEF PostCounts
<1>11. ASSUME NEW w \in Worker, GetStatus(w) PROVE PostCounts'
  <2>1. HasTask(w)
    BY <1>0, <1>11, HeldFacts DEF GetStatus, TaskPC
  <2>2. /\ pc[w] = "body" /\ cur[w] \in Request
        /\ post' = [post EXCEPT ![cur[w]] = Up(post[cur[w]])]
        /\ ext' = [ext EXCEPT ![cur[w]] = "pending"]
        /\ pc' = [pc EXCEPT ![w] = "push"]
        /\ UNCHANGED <<pre, cur, events, indices, slot>>
    BY <1>11 DEF GetStatus, Goto, MakeEvent
  <2>6. Underway(cur[w])
    BY <1>0, <2>1, HeldTouched
  <2>7. ext[cur[w]] = "none"
    BY <1>0, <2>1, <2>2, WorkerFacts DEF HeldProgress
  <2>8. \A u \in Task : /\ (u # cur[w] => (Holds(u)' <=> Holds(u)))
                        /\ (u = cur[w] => Holds(u)' /\ ~ Holds(u))
    <3>1. w = "mpi"
      BY <2>1, <2>2
    <3> QED BY <1>t, <2>1, <2>2, <2>7, <3>1, WorkerFacts DEF Holds
  <2>9. \A u \in Task : Finished(u)' <=> Finished(u)
    BY <2>2 DEF Finished, NotHeld
  <2>10. post[cur[w]] = 1 /\ Up(1) = 2
    BY <1>0, <2>1, <2>6, <2>8, UpFacts DEF PostCounts
  <2>11. \A u \in Task : post'[u] = IF u = cur[w] THEN 2 ELSE post[u]
    BY <1>t, <2>2, <2>10
  <2>12. ~ Finished(cur[w])
    BY <2>6
  <2> QED BY <1>0, <2>8, <2>9, <2>10, <2>11, <2>12 DEF PostCounts
<1>12. ASSUME NEW w \in Worker, PushRequest(w) PROVE PostCounts'
  <2>1. HasTask(w)
    BY <1>0, <1>12, HeldFacts DEF PushRequest, TaskPC
  <2>2. /\ pc[w] = "push" /\ mutex = "free"
        /\ pc' = [pc EXCEPT ![w] = "check"]
        /\ events' = Append(events, cur[w])
        /\ UNCHANGED <<post, pre, cur, ext, indices, slot>>
    BY <1>12 DEF PushRequest, Goto
  <2>6. Underway(cur[w])
    BY <1>0, <2>1, HeldTouched
  <2>8. \A u \in Task : Holds(u)' <=> Holds(u)
    <3>1. w = "mpi"
      BY <1>0, <2>1, <2>2 DEF WorkersMatch, PausePC
    <3> QED BY <1>t, <2>2, <3>1, WorkerFacts DEF Holds
  <2>9. \A u \in Task : Finished(u)' <=> Finished(u)
    BY <1>t, <2>1, <2>2, <2>6 DEF Finished, NotHeld
  <2> QED BY <1>0, <2>2, <2>8, <2>9 DEF PostCounts
<1>13. ASSUME NEW w \in Worker, Yield(w) PROVE PostCounts'
  <2>1. HasTask(w)
    BY <1>0, <1>13, HeldFacts DEF Yield, TaskPC
  <2>2. /\ pc[w] = "check"
        /\ pc' = [pc EXCEPT ![w] = IF ext[cur[w]] = "reached" THEN "result" ELSE "reset"]
        /\ UNCHANGED <<post, pre, cur, ext, events, indices, slot>>
    BY <1>13 DEF Yield, Goto
  <2>6. Underway(cur[w])
    BY <1>0, <2>1, HeldTouched
  <2>8. \A u \in Task : Holds(u)' <=> Holds(u)
    BY <1>t, <2>1, <2>2, WorkerFacts DEF Holds, Current
  <2>9. \A u \in Task : Finished(u)' <=> Finished(u)
    BY <1>t, <2>1, <2>2, <2>6 DEF Finished, NotHeld
  <2> QED BY <1>0, <2>2, <2>8, <2>9 DEF PostCounts
<1>14. ASSUME NEW w \in Worker, PauseReset(w) PROVE PostCounts'
  <2>1. HasTask(w)
    BY <1>0, <1>14, HeldFacts DEF PauseReset, TaskPC
  <2>2. /\ pc[w] = "reset"
        /\ pre' = [pre EXCEPT ![cur[w]] = 1]
        /\ pc' = [pc EXCEPT ![w] = "follow"]
        /\ UNCHANGED <<post, cur, ext, events, indices, slot>>
    BY <1>14 DEF PauseReset, Goto
  <2>6. Underway(cur[w])
    BY <1>0, <2>1, HeldTouched
  <2>8. \A u \in Task : Holds(u)' <=> Holds(u)
    BY <1>t, <2>1, <2>2, WorkerFacts DEF Holds, Current
  <2>9. \A u \in Task : Finished(u)' <=> Finished(u)
    BY <1>t, <2>1, <2>2, <2>6 DEF Finished, NotHeld
  <2> QED BY <1>0, <2>2, <2>8, <2>9 DEF PostCounts
<1>15. ASSUME NEW w \in Worker, PauseFollow(w) PROVE PostCounts'
  <2>1. HasTask(w)
    BY <1>0, <1>15, HeldFacts DEF PauseFollow, TaskPC
  <2>2. /\ pc[w] = "follow"
        /\ pc' = [pc EXCEPT ![w] = IF ext[cur[w]] = "reached" THEN "up" ELSE "append"]
        /\ UNCHANGED <<post, pre, cur, ext, events, indices, slot>>
    BY <1>15 DEF PauseFollow, Goto
  <2>6. Underway(cur[w])
    BY <1>0, <2>1, HeldTouched
  <2>8. \A u \in Task : Holds(u)' <=> Holds(u)
    BY <1>t, <2>1, <2>2, WorkerFacts DEF Holds, Current
  <2>9. \A u \in Task : Finished(u)' <=> Finished(u)
    BY <1>t, <2>1, <2>2, <2>6 DEF Finished, NotHeld
  <2> QED BY <1>0, <2>2, <2>8, <2>9 DEF PostCounts
<1>16. ASSUME NEW w \in Worker, PauseAppend(w) PROVE PostCounts'
  <2>1. HasTask(w)
    BY <1>0, <1>16, HeldFacts DEF PauseAppend, TaskPC
  <2>2. /\ pc[w] = "append"
        /\ pc' = [pc EXCEPT ![w] = "count"]
        /\ UNCHANGED <<post, pre, cur, ext, events, indices, slot>>
    BY <1>16 DEF PauseAppend, Goto
  <2>6. Underway(cur[w])
    BY <1>0, <2>1, HeldTouched
  <2>8. \A u \in Task : Holds(u)' <=> Holds(u)
    BY <1>t, <2>1, <2>2, WorkerFacts DEF Holds, Current
  <2>9. \A u \in Task : Finished(u)' <=> Finished(u)
    BY <1>t, <2>1, <2>2, <2>6 DEF Finished, NotHeld
  <2> QED BY <1>0, <2>2, <2>8, <2>9 DEF PostCounts
<1>17. ASSUME NEW w \in Worker, PauseCount(w) PROVE PostCounts'
  <2>1. HasTask(w)
    BY <1>0, <1>17, HeldFacts DEF PauseCount, TaskPC
  <2>2. /\ pc[w] = "count"
        /\ pre' = [pre EXCEPT ![cur[w]] = Up(pre[cur[w]])]
        /\ pc' = [pc EXCEPT ![w] = "up"]
        /\ UNCHANGED <<post, cur, ext, events, indices, slot>>
    BY <1>17 DEF PauseCount, Goto
  <2>6. Underway(cur[w])
    BY <1>0, <2>1, HeldTouched
  <2>8. \A u \in Task : Holds(u)' <=> Holds(u)
    BY <1>t, <2>1, <2>2, WorkerFacts DEF Holds, Current
  <2>9. \A u \in Task : Finished(u)' <=> Finished(u)
    BY <1>t, <2>1, <2>2, <2>6 DEF Finished, NotHeld
  <2> QED BY <1>0, <2>2, <2>8, <2>9 DEF PostCounts
<1>18. ASSUME NEW w \in Worker, PauseUp(w) PROVE PostCounts'
  <2>1. HasTask(w)
    BY <1>0, <1>18, HeldFacts DEF PauseUp, TaskPC
  <2>2. /\ pc[w] = "up"
        /\ pre' = [pre EXCEPT ![cur[w]] = Up(pre[cur[w]])]
        /\ pc' = [pc EXCEPT ![w] = "notify"]
        /\ UNCHANGED <<post, cur, ext, events, indices, slot>>
    BY <1>18 DEF PauseUp, Goto
  <2>6. Underway(cur[w])
    BY <1>0, <2>1, HeldTouched
  <2>8. \A u \in Task : Holds(u)' <=> Holds(u)
    BY <1>t, <2>1, <2>2, WorkerFacts DEF Holds, Current
  <2>9. \A u \in Task : Finished(u)' <=> Finished(u)
    BY <1>t, <2>1, <2>2, <2>6 DEF Finished, NotHeld
  <2> QED BY <1>0, <2>2, <2>8, <2>9 DEF PostCounts
<1>19. ASSUME NEW w \in Worker, PauseNotify(w) PROVE PostCounts'
  <2>1. HasTask(w)
    BY <1>0, <1>19, HeldFacts DEF PauseNotify, TaskPC
  <2>2. /\ pc[w] = "notify"
        /\ cur' = [cur EXCEPT ![w] = NoTask]
        /\ pc' = [pc EXCEPT ![w] = IF w \in PoolWorker THEN "gather" ELSE "poll"]
        /\ UNCHANGED <<post, ext, events, indices, slot>>
    BY <1>19 DEF PauseNotify, Goto, AfterTask
  <2>4. pre' = [pre EXCEPT ![cur[w]] = 2] /\ ready' = ready
    BY <1>0, <1>19, PauseNotifyEffect
  <2>6. Underway(cur[w])
    BY <1>0, <2>1, HeldTouched
  <2>8. \A u \in Task : Holds(u)' <=> Holds(u)
    BY <1>t, <2>1, <2>2, WorkerFacts DEF Holds, Current
  <2>9. \A u \in Task : Finished(u)' <=> Finished(u)
    BY <1>t, <2>1, <2>2, <2>4, TaskFacts DEF Finished, NotHeld
  <2> QED BY <1>0, <2>2, <2>8, <2>9 DEF PostCounts
<1>20. ASSUME NEW w \in Worker, SetResult(w) PROVE PostCounts'
  <2>1. HasTask(w)
    BY <1>0, <1>20, HeldFacts DEF SetResult, TaskPC
  <2>2. /\ pc[w] = "result"
        /\ pc' = [pc EXCEPT ![w] = "wake"]
        /\ UNCHANGED <<post, pre, cur, ext, events, indices, slot>>
    BY <1>20 DEF SetResult, Goto
  <2>6. Underway(cur[w])
    BY <1>0, <2>1, HeldTouched
  <2>8. \A u \in Task : Holds(u)' <=> Holds(u)
    BY <1>t, <2>1, <2>2, WorkerFacts DEF Holds, Current
  <2>9. \A u \in Task : Finished(u)' <=> Finished(u)
    BY <1>t, <2>1, <2>2, <2>6 DEF Finished, NotHeld
  <2> QED BY <1>0, <2>2, <2>8, <2>9 DEF PostCounts
<1>21. ASSUME NEW w \in Worker, WakeMain(w) PROVE PostCounts'
  <2>1. HasTask(w)
    BY <1>0, <1>21, HeldFacts DEF WakeMain, TaskPC
  <2>2. /\ pc[w] = "wake"
        /\ pc' = [pc EXCEPT ![w] = IF w = "cuda" THEN "record" ELSE "post"]
        /\ UNCHANGED <<post, pre, cur, ext, events, indices, slot>>
    BY <1>21 DEF WakeMain, Goto
  <2>6. Underway(cur[w])
    BY <1>0, <2>1, HeldTouched
  <2>8. \A u \in Task : Holds(u)' <=> Holds(u)
    BY <1>t, <2>1, <2>2, WorkerFacts DEF Holds, Current
  <2>9. \A u \in Task : Finished(u)' <=> Finished(u)
    BY <1>t, <2>1, <2>2, <2>6 DEF Finished, NotHeld
  <2> QED BY <1>0, <2>2, <2>8, <2>9 DEF PostCounts
<1>22. ASSUME NEW w \in Worker, FinishTask(w) PROVE PostCounts'
  <2>1. HasTask(w)
    BY <1>0, <1>22, HeldFacts DEF FinishTask, TaskPC
  <2>2. /\ pc[w] = "post"
        /\ cur' = [cur EXCEPT ![w] = NoTask]
        /\ pc' = [pc EXCEPT ![w] = IF w \in PoolWorker THEN "gather" ELSE "poll"]
        /\ UNCHANGED <<ext, events, indices, slot>>
    BY <1>22 DEF FinishTask, Goto, AfterTask
  <2>4. PICK R \in SUBSET Task : ReleaseStep(R, NoTask)
    BY <1>0, <1>22, FinishTaskEffect
  <2>5. post' = [post EXCEPT ![cur[w]] = post[cur[w]] - 1] /\ post[cur[w]] # 0
    BY <1>0, <1>22, FinishTaskEffect
  <2>6. Underway(cur[w])
    BY <1>0, <2>1, HeldTouched
  <2>7. pre[cur[w]] = 0
    BY <1>0, <2>2 DEF HeldPre
  <2>8. \A u \in Task : Holds(u)' <=> Holds(u)
    BY <1>t, <2>2, WorkerFacts DEF Holds, Current
  <2>9. \A u \in Task : u # cur[w] => (Finished(u)' <=> Finished(u))
    BY <1>t, <2>2, <2>4, TaskFacts DEF Finished, NotHeld, ReleaseStep
  <2>10. \A u \in Task : u = cur[w] => Finished(u)' /\ ~ Finished(u)
    <3>1. pre'[cur[w]] = 0
      BY <2>1, <2>4, <2>7 DEF ReleaseStep
    <3> QED BY <1>0, <1>t, <2>1, <2>2, <2>6, <3>1, TaskFacts DEF Finished, NotHeld, HeldOnce
  <2>11. \A u \in Task : post'[u] = (IF u = cur[w] THEN post[u] - 1 ELSE post[u]) /\ post[u] \in Nat
    BY <1>t, <2>1, <2>5
  <2> QED BY <1>0, <2>8, <2>9, <2>10, <2>11 DEF PostCounts
<1>23. CASE PollNothing
  <2>2. /\ pc["mpi"] = "poll"
        /\ \E p \in {"gather", "stopped"} : pc' = [pc EXCEPT !["mpi"] = p]
        /\ UNCHANGED <<post, pre, cur, ext, events, indices, slot>>
    BY <1>23 DEF PollNothing, Goto, AfterPoll, TestStop
  <2>8. \A u \in Task : Holds(u)' <=> Holds(u)
    BY <1>t, <2>2, WorkerFacts DEF Holds, Current
  <2>9. \A u \in Task : Finished(u)' <=> Finished(u)
    BY <1>t, <2>2 DEF Finished, NotHeld
  <2> QED BY <1>0, <2>2, <2>8, <2>9 DEF PostCounts
<1>24. CASE Poll
  <2>2. /\ pc["mpi"] = "poll" /\ mutex = "free"
        /\ pc' = [pc EXCEPT !["mpi"] = "status"]
        /\ \E s \in Testsome : indices' = s /\ out_statuses' = [i \in DOMAIN s |-> requests[s[i]]]
        /\ slot' = 1
        /\ UNCHANGED <<post, pre, cur, ext, events>>
    BY <1>24 DEF Poll, Goto
  <2>8. \A u \in Task : Holds(u)' <=> Holds(u)
    BY <1>t, <2>2, WorkerFacts DEF Holds
  <2>9. \A u \in Task : Finished(u)' <=> Finished(u)
    BY <1>t, <2>2 DEF Finished, NotHeld
  <2> QED BY <1>0, <2>2, <2>8, <2>9 DEF PostCounts
<1>25. CASE PollStatus
  <2>1. Polled
    BY <1>0, <1>25, PolledTasks DEF PollStatus, PollPC
  <2>2. /\ pc["mpi"] = "status"
        /\ ext' = [ext EXCEPT ![Current] = "reached"]
        /\ pc' = [pc EXCEPT !["mpi"] = IF paused[Current] THEN "resume" ELSE "erase"]
        /\ UNCHANGED <<post, pre, cur, events, indices, slot>>
    BY <1>25 DEF PollStatus, Goto, OutStatus, Current
  <2>6. Old(Current) /\ Free(Current) /\ NotHeld(Current) /\ ext[Current] = "pending"
    BY <1>0, <1>25, PolledTouched DEF PollStatus, PollPC
  <2>8. \A u \in Task : Holds(u)' <=> Holds(u)
    BY <1>0, <1>t, <2>1, <2>2, <2>6, WorkerFacts DEF Holds, Current
  <2>9. \A u \in Task : Finished(u)' <=> Finished(u)
    BY <1>t, <2>1, <2>2, <2>6 DEF Finished, NotHeld
  <2> QED BY <1>0, <2>2, <2>8, <2>9 DEF PostCounts
<1>26. CASE PollResume
  <2>1. Polled
    BY <1>0, <1>26, PolledTasks DEF PollResume, PollPC
  <2>2. /\ pc["mpi"] = "resume"
        /\ pc' = [pc EXCEPT !["mpi"] = "erase"]
        /\ UNCHANGED <<post, cur, ext, events, indices, slot>>
    BY <1>26 DEF PollResume, Goto
  <2>4. pre' = [pre EXCEPT ![Current] = 1] /\ ready' = [ready EXCEPT ![Current] = 1]
    BY <1>0, <1>26, PollResumeEffect
  <2>6. Old(Current) /\ Free(Current) /\ NotHeld(Current) /\ ext[Current] = "reached"
    BY <1>0, <1>26, PolledTouched DEF PollResume, PollPC
  <2>8. \A u \in Task : Holds(u)' <=> Holds(u)
    BY <1>t, <2>1, <2>2, WorkerFacts DEF Holds, Current
  <2>9. \A u \in Task : Finished(u)' <=> Finished(u)
    <3>1. pre[Current] = 2
      BY <1>0, <2>2 DEF ResumeCounted
    <3> QED BY <1>t, <2>1, <2>2, <2>4, <3>1 DEF Finished, NotHeld
  <2> QED BY <1>0, <2>2, <2>8, <2>9 DEF PostCounts
<1>27. CASE PollErase
  <2>1. Polled
    BY <1>0, <1>27, PolledTasks DEF PollErase, PollPC
  <2>2. /\ pc["mpi"] = "erase"
        /\ \E p \in (IF slot = Len(indices) THEN {"gather", "stopped"} ELSE {"status"}) :
             pc' = [pc EXCEPT !["mpi"] = p]
        /\ events' = Erase(events, indices[slot])
        /\ indices' = (IF slot = Len(indices) THEN <<>> ELSE Shift(indices[slot]))
        /\ slot' = (IF slot = Len(indices) THEN 1 ELSE slot + 1)
        /\ UNCHANGED <<cur, ext>>
    BY <1>27 DEF PollErase, Goto, AfterPoll, TestStop, Current
  <2>4. PICK R \in SUBSET Task : ReleaseStep(R, NoTask)
    BY <1>0, <1>27, PollEraseEffect
  <2>5. post' = [post EXCEPT ![Current] = post[Current] - 1] /\ post[Current] # 0
    BY <1>0, <1>27, PollEraseEffect
  <2>6. Old(Current) /\ Free(Current) /\ NotHeld(Current) /\ ext[Current] = "reached"
    BY <1>0, <1>27, PolledTouched DEF PollErase, PollPC
  <2>8. \A u \in Task : /\ (u # Current => (Holds(u)' <=> Holds(u)))
                        /\ (u = Current => ~ Holds(u)' /\ Holds(u))
    <3>1. pc'["mpi"] \notin {"resume", "erase"}
      BY <1>t, <2>2, WorkerFacts
    <3> QED BY <1>t, <2>1, <2>2, <2>6, <3>1 DEF Holds
  <2>9. \A u \in Task : Finished(u)' <=> Finished(u)
    BY <1>t, <2>2, <2>4, TaskFacts DEF Finished, NotHeld, ReleaseStep
  <2>11. \A u \in Task : post'[u] = (IF u = Current THEN post[u] - 1 ELSE post[u]) /\ post[u] \in Nat
    BY <1>t, <2>1, <2>5
  <2> QED BY <1>0, <2>8, <2>9, <2>11 DEF PostCounts
<1>28. CASE Launch
  <2>1. CudaHasTask
    BY <1>0, <1>28, HeldFacts, WorkerFacts DEF Launch, TaskPC
  <2>2. /\ pc["cuda"] = "body"
        /\ pc' = [pc EXCEPT !["cuda"] = "result"]
        /\ UNCHANGED <<post, pre, cur, ext, events, indices, slot>>
    BY <1>28 DEF Launch, Goto
  <2>6. Underway(cur["cuda"])
    BY <1>0, <2>1, HeldTouched, WorkerFacts
  <2>8. \A u \in Task : Holds(u)' <=> Holds(u)
    BY <1>t, <2>1, <2>2, WorkerFacts DEF Holds, Current
  <2>9. \A u \in Task : Finished(u)' <=> Finished(u)
    BY <1>t, <2>1, <2>2, <2>6 DEF Finished, NotHeld
  <2> QED BY <1>0, <2>2, <2>8, <2>9 DEF PostCounts
<1>29. CASE RecordEvent
  <2>1. CudaHasTask
    BY <1>0, <1>29, HeldFacts, WorkerFacts DEF RecordEvent, TaskPC
  <2>2. /\ pc["cuda"] = "record"
        /\ post' = [post EXCEPT ![cur["cuda"]] = Up(post[cur["cuda"]])]
        /\ ext' = [ext EXCEPT ![cur["cuda"]] = "pending"]
        /\ pc' = [pc EXCEPT !["cuda"] = "pre"]
        /\ UNCHANGED <<pre, cur, events, indices, slot>>
    BY <1>29 DEF RecordEvent, Goto, MakeEvent
  <2>6. Underway(cur["cuda"])
    BY <1>0, <2>1, HeldTouched, WorkerFacts
  <2>7. ext[cur["cuda"]] = "none"
    BY <1>0, <2>1, <2>2, WorkerFacts DEF HeldProgress
  <2>8. \A u \in Task : /\ (u # cur["cuda"] => (Holds(u)' <=> Holds(u)))
                        /\ (u = cur["cuda"] => Holds(u)' /\ ~ Holds(u))
    <3>1. pc["mpi"] \in PollPC => Current \in Request
      BY <1>0, PolledTasks
    <3>2. cur["cuda"] \notin Request
      BY <2>1, DispatchAssumption
    <3> QED BY <1>t, <2>1, <2>2, <2>7, <3>1, <3>2, WorkerFacts DEF Holds, Current, PollPC
  <2>9. \A u \in Task : Finished(u)' <=> Finished(u)
    BY <2>2 DEF Finished, NotHeld
  <2>10. post[cur["cuda"]] = 1 /\ Up(1) = 2
    BY <1>0, <2>1, <2>6, <2>8, UpFacts DEF PostCounts
  <2>11. \A u \in Task : post'[u] = IF u = cur["cuda"] THEN 2 ELSE post[u]
    BY <1>t, <2>2, <2>10
  <2>12. ~ Finished(cur["cuda"])
    BY <2>6
  <2> QED BY <1>0, <2>8, <2>9, <2>10, <2>11, <2>12 DEF PostCounts
<1>30. CASE LaunchedPre
  <2>1. CudaHasTask
    BY <1>0, <1>30, HeldFacts, WorkerFacts DEF LaunchedPre, TaskPC
  <2>2. /\ pc["cuda"] = "pre"
        /\ pc' = [pc EXCEPT !["cuda"] = "post"]
        /\ UNCHANGED <<cur, ext, events, indices, slot>>
    BY <1>30 DEF LaunchedPre, Goto
  <2>4. PICK R \in SUBSET Task : ReleaseStep(R, cur["cuda"]) /\ pre'[cur["cuda"]] = 0
    BY <1>0, <1>30, LaunchedPreEffect
  <2>5. post' = post
    BY <1>30 DEF LaunchedPre
  <2>6. Underway(cur["cuda"])
    BY <1>0, <2>1, HeldTouched, WorkerFacts
  <2>8. \A u \in Task : Holds(u)' <=> Holds(u)
    BY <1>t, <2>1, <2>2, WorkerFacts DEF Holds, Current
  <2>9. \A u \in Task : Finished(u)' <=> Finished(u)
    BY <1>t, <2>1, <2>2, <2>4, WorkerFacts DEF Finished, NotHeld, ReleaseStep
  <2> QED BY <1>0, <2>5, <2>8, <2>9 DEF PostCounts
<1>31. CASE CudaPollNothing
  <2>2. /\ pc["cuda"] = "poll"
        /\ \E p \in {"gather", "stopped"} : pc' = [pc EXCEPT !["cuda"] = p]
        /\ UNCHANGED <<post, pre, cur, ext, events, indices, slot>>
    BY <1>31 DEF CudaPollNothing, Goto, AfterPoll, TestStop
  <2>8. \A u \in Task : Holds(u)' <=> Holds(u)
    BY <1>t, <2>2, WorkerFacts DEF Holds, Current
  <2>9. \A u \in Task : Finished(u)' <=> Finished(u)
    BY <1>t, <2>2 DEF Finished, NotHeld
  <2> QED BY <1>0, <2>2, <2>8, <2>9 DEF PostCounts
<1>32. CASE CudaPoll
  <2>1. FrontPolled
    BY <1>0, <1>32, PolledTasks DEF CudaPoll, FrontDone
  <2>2. /\ pc["cuda"] = "poll" /\ FrontDone
        /\ ext' = [ext EXCEPT ![Front] = "reached"]
        /\ \E p \in {"gather", "stopped"} : pc' = [pc EXCEPT !["cuda"] = p]
        /\ UNCHANGED <<cur, events, indices, slot>>
    BY <1>32 DEF CudaPoll, Goto, AfterPoll, TestStop
  <2>4. PICK R \in SUBSET Task : ReleaseStep(R, NoTask)
    BY <1>0, <1>32, CudaPollEffect
  <2>5. /\ post' = [post EXCEPT ![Front] = post[Front] - 1]
        /\ post[Front] # 0
    BY <1>0, <1>32, CudaPollEffect
  <2>6. /\ Old(Front) /\ Free(Front) /\ NotHeld(Front) /\ ext[Front] = "pending"
        /\ Sched[Front] = "cuda"
    BY <1>0, <1>32, PolledTouched DEF CudaPoll, FrontDone
  <2>8. \A u \in Task : /\ (u # Front => (Holds(u)' <=> Holds(u)))
                        /\ (u = Front => ~ Holds(u)' /\ Holds(u))
    <3>1. pc["mpi"] \in PollPC => Current \in Request
      BY <1>0, PolledTasks
    <3>2. Front \notin Request
      BY <2>6, DispatchAssumption
    <3>3. pc'["mpi"] = pc["mpi"] /\ Current' = Current
      BY <1>t, <2>2, WorkerFacts DEF Current
    <3> QED BY <1>t, <2>1, <2>2, <2>6, <3>1, <3>2, <3>3 DEF Holds, PollPC
  <2>9. \A u \in Task : Finished(u)' <=> Finished(u)
    BY <1>t, <2>2, <2>4, TaskFacts DEF Finished, NotHeld, ReleaseStep
  <2>11. \A u \in Task : post'[u] = (IF u = Front THEN post[u] - 1 ELSE post[u]) /\ post[u] \in Nat
    BY <1>t, <2>1, <2>5
  <2> QED BY <1>0, <2>8, <2>9, <2>11 DEF PostCounts
<1> QED
  BY <1>2, <1>3, <1>4, <1>5, <1>6, <1>7, <1>8, <1>9, <1>10, <1>11, <1>12, <1>13, <1>14, <1>15,
     <1>16, <1>17, <1>18, <1>19, <1>20, <1>21, <1>22, <1>23, <1>24, <1>25, <1>26, <1>27, <1>28,
     <1>29, <1>30, <1>31, <1>32
  DEF Next, WorkerStep, MpiStep, CudaStep, MainStep, Ended

LEMMA ResumeCountedStep ==
  ASSUME Hypotheses, IInv, [Next]_vars
  PROVE  ResumeCounted'
<1>0. Parts
  BY DEF Hypotheses, IInv
<1>t. Ranges
  BY <1>0 DEF Types, CountTypes, EventTypes, WorkTypes, CudaTypes
<1>r. ASSUME pc["mpi"] = "resume" PROVE Resuming
  <2>1. Current \in Task /\ indices[slot] \in 1..Len(requests) /\ events = requests
    BY <1>0, <1>r, PolledTasks DEF PollPC
  <2>2. NotHeld(Current)
    BY <1>0, <1>r, PolledNotHeld DEF PollPC
  <2>3. ext[Current] = "reached"
    BY <1>0, <1>r, <2>1 DEF PoolAligned, Current
  <2> QED BY <1>0, <1>r, <2>1, <2>2, <2>3 DEF ResumeCounted
<1>1. CASE UNCHANGED <<events, indices, pc, pre, ready, slot>>
  BY <1>0, <1>1 DEF ResumeCounted, Current
<1>2. CASE UNCHANGED vars
  BY <1>1, <1>2 DEF vars
<1>3. ASSUME \/ Emplace \/ EndOfProgram \/ EnterWaker \/ TestResult \/ Idle \/ TakeResult
             \/ Barrier \/ Stop \/ Join
      PROVE  ResumeCounted'
  BY <1>1, <1>3
  DEF Emplace, EndOfProgram, EnterWaker, TestResult, Idle, TakeResult, Barrier, Stop, Join,
      MainGoto, OnlyMain
<1>4. ASSUME NEW t \in Task, RequestCompletes(t) PROVE ResumeCounted'
  BY <1>1, <1>4 DEF RequestCompletes
<1>5. ASSUME NEW i \in DOMAIN streams, StreamStep(i) PROVE ResumeCounted'
  BY <1>1, <1>5 DEF StreamStep
<1>6. ASSUME NEW w \in Worker, NEW t \in Task, GatherReady(w, t) PROVE ResumeCounted'
  <2>2. /\ pc[w] = "gather" /\ Sched[t] = SchedOf(w) /\ ready[t] > 0
        /\ pc' = [pc EXCEPT ![w] = "execute"]
        /\ ready' = [ready EXCEPT ![t] = ready[t] - 1]
        /\ UNCHANGED <<pre, events, indices, slot>>
    BY <1>6 DEF GatherReady, Goto, Mine
  <2>6. Old(t) /\ Free(t) /\ ready[t] # 0
    BY <1>0, <1>t, <2>2, Touched
  <2>7. SUFFICES ASSUME pc'["mpi"] = "resume" PROVE StillResuming BY DEF ResumeCounted
  <2>8. Resuming /\ Current' = Current
    BY <1>r, <1>t, <2>2, <2>7, WorkerFacts DEF Current
  <2> QED BY <1>t, <2>2, <2>8, WorkerFacts DEF NotHeld
<1>7. ASSUME NEW w \in Worker, NEW t \in Task, InitDependencies(w, t) PROVE ResumeCounted'
  <2>1. pre' = [pre EXCEPT ![t] = 1 + Cardinality(Edges(t))]
    BY <1>7, InitEffect
  <2>2. /\ t \in emplaced /\ pc[w] = "gather"
        /\ pc' = (IF Edges(t) = {} THEN [pc EXCEPT ![w] = "execute"] ELSE pc)
        /\ UNCHANGED <<ready, events, indices, slot>>
    BY <1>7 DEF InitDependencies, Goto
  <2>3. pre[t] = 1
    BY <1>0, <2>2 DEF NewUntouched, Old
  <2>4. ASSUME pc'["mpi"] = "resume"
        PROVE  pre'[Current] = 2 /\ ready'[Current] = 0 /\ Current' = Current
    <3>1. pc["mpi"] = "resume" /\ Current' = Current
      BY <1>t, <2>2, <2>4, WorkerFacts DEF Current
    <3>2. Current \in Task /\ pre[Current] = 2 /\ ready[Current] = 0
      BY <1>0, <3>1, PolledTasks DEF PollPC, ResumeCounted
    <3>3. pre'[Current] = pre[Current]
      BY <1>t, <2>1, <2>3, <3>2
    <3> QED BY <2>2, <3>1, <3>2, <3>3
  <2> QED BY <2>4 DEF ResumeCounted
<1>8. ASSUME NEW w \in Worker, GatherNothing(w) PROVE ResumeCounted'
  <2>2. /\ pc[w] = "gather"
        /\ \E p \in {"gather", "stopped", "poll"} :
             (p = "poll" => w \notin PoolWorker) /\ pc' = [pc EXCEPT ![w] = p]
        /\ UNCHANGED <<pre, ready, events, indices, slot>>
    BY <1>8 DEF GatherNothing, Goto, TestStop
  <2>7. SUFFICES ASSUME pc'["mpi"] = "resume" PROVE StillResuming BY DEF ResumeCounted
  <2>8. Resuming /\ Current' = Current
    BY <1>r, <1>t, <2>2, <2>7, WorkerFacts DEF Current
  <2> QED BY <1>t, <2>2, <2>8, WorkerFacts DEF NotHeld
<1>9. ASSUME NEW w \in Worker, Execute(w) PROVE ResumeCounted'
  <2>1. HasTask(w)
    BY <1>0, <1>9, HeldFacts DEF Execute, TaskPC
  <2>2. /\ pc[w] = "execute"
        /\ pc' = [pc EXCEPT ![w] = IF ext[cur[w]] = "none" THEN "body" ELSE "check"]
        /\ UNCHANGED <<events, indices, slot>>
    BY <1>9 DEF Execute, Goto
  <2>4. (pre' = pre \/ (pre' = [pre EXCEPT ![cur[w]] = 0] /\ w # "cuda")) /\ ready' = ready
    <3>1. CASE w = "cuda"
      BY <1>9, <3>1 DEF Execute
    <3>2. CASE w # "cuda"
      BY <1>0, <1>9, <3>2, ExecuteEffect
    <3> QED BY <3>1, <3>2
  <2>7. SUFFICES ASSUME pc'["mpi"] = "resume" PROVE StillResuming BY DEF ResumeCounted
  <2>8. Resuming /\ Current' = Current
    BY <1>r, <1>t, <2>2, <2>7, WorkerFacts DEF Current
  <2> QED BY <1>t, <2>1, <2>2, <2>4, <2>8, WorkerFacts DEF NotHeld
<1>10. ASSUME NEW w \in Worker, Compute(w) PROVE ResumeCounted'
  <2>1. HasTask(w)
    BY <1>0, <1>10, HeldFacts DEF Compute, TaskPC
  <2>2. /\ pc[w] = "body" /\ w # "cuda" /\ cur[w] \notin Request
        /\ pc' = (IF op[cur[w]] = "running" THEN [pc EXCEPT ![w] = "result"] ELSE pc)
        /\ UNCHANGED <<pre, ready, events, indices, slot>>
    BY <1>10 DEF Compute, Goto
  <2>7. SUFFICES ASSUME pc'["mpi"] = "resume" PROVE StillResuming BY DEF ResumeCounted
  <2>8. Resuming /\ Current' = Current
    BY <1>r, <1>t, <2>2, <2>7, WorkerFacts DEF Current
  <2> QED BY <1>t, <2>1, <2>2, <2>8, WorkerFacts DEF NotHeld
<1>11. ASSUME NEW w \in Worker, GetStatus(w) PROVE ResumeCounted'
  <2>1. HasTask(w)
    BY <1>0, <1>11, HeldFacts DEF GetStatus, TaskPC
  <2>2. /\ pc[w] = "body" /\ cur[w] \in Request
        /\ pc' = [pc EXCEPT ![w] = "push"]
        /\ UNCHANGED <<pre, ready, events, indices, slot>>
    BY <1>11 DEF GetStatus, Goto, MakeEvent
  <2>7. SUFFICES ASSUME pc'["mpi"] = "resume" PROVE StillResuming BY DEF ResumeCounted
  <2>8. Resuming /\ Current' = Current
    BY <1>r, <1>t, <2>2, <2>7, WorkerFacts DEF Current
  <2> QED BY <1>t, <2>1, <2>2, <2>8, WorkerFacts DEF NotHeld
<1>12. ASSUME NEW w \in Worker, PushRequest(w) PROVE ResumeCounted'
  <2>1. HasTask(w)
    BY <1>0, <1>12, HeldFacts DEF PushRequest, TaskPC
  <2>2. /\ pc[w] = "push" /\ mutex = "free"
        /\ pc' = [pc EXCEPT ![w] = "check"]
        /\ events' = Append(events, cur[w])
        /\ UNCHANGED <<pre, ready, indices, slot>>
    BY <1>12 DEF PushRequest, Goto
  <2>9. pc'["mpi"] # "resume"
    BY <1>0, <1>t, <2>1, <2>2, WorkerFacts DEF WorkersMatch, PausePC
  <2> QED BY <2>9 DEF ResumeCounted
<1>13. ASSUME NEW w \in Worker, Yield(w) PROVE ResumeCounted'
  <2>1. HasTask(w)
    BY <1>0, <1>13, HeldFacts DEF Yield, TaskPC
  <2>2. /\ pc[w] = "check"
        /\ pc' = [pc EXCEPT ![w] = IF ext[cur[w]] = "reached" THEN "result" ELSE "reset"]
        /\ UNCHANGED <<pre, ready, events, indices, slot>>
    BY <1>13 DEF Yield, Goto
  <2>7. SUFFICES ASSUME pc'["mpi"] = "resume" PROVE StillResuming BY DEF ResumeCounted
  <2>8. Resuming /\ Current' = Current
    BY <1>r, <1>t, <2>2, <2>7, WorkerFacts DEF Current
  <2> QED BY <1>t, <2>1, <2>2, <2>8, WorkerFacts DEF NotHeld
<1>14. ASSUME NEW w \in Worker, PauseReset(w) PROVE ResumeCounted'
  <2>1. HasTask(w)
    BY <1>0, <1>14, HeldFacts DEF PauseReset, TaskPC
  <2>2. /\ pc[w] = "reset"
        /\ pc' = [pc EXCEPT ![w] = "follow"]
        /\ pre' = [pre EXCEPT ![cur[w]] = 1]
        /\ UNCHANGED <<ready, events, indices, slot>>
    BY <1>14 DEF PauseReset, Goto
  <2>7. SUFFICES ASSUME pc'["mpi"] = "resume" PROVE StillResuming BY DEF ResumeCounted
  <2>8. Resuming /\ Current' = Current
    BY <1>r, <1>t, <2>2, <2>7, WorkerFacts DEF Current
  <2> QED BY <1>t, <2>1, <2>2, <2>8, WorkerFacts DEF NotHeld
<1>15. ASSUME NEW w \in Worker, PauseFollow(w) PROVE ResumeCounted'
  <2>1. HasTask(w)
    BY <1>0, <1>15, HeldFacts DEF PauseFollow, TaskPC
  <2>2. /\ pc[w] = "follow"
        /\ pc' = [pc EXCEPT ![w] = IF ext[cur[w]] = "reached" THEN "up" ELSE "append"]
        /\ UNCHANGED <<pre, ready, events, indices, slot>>
    BY <1>15 DEF PauseFollow, Goto
  <2>7. SUFFICES ASSUME pc'["mpi"] = "resume" PROVE StillResuming BY DEF ResumeCounted
  <2>8. Resuming /\ Current' = Current
    BY <1>r, <1>t, <2>2, <2>7, WorkerFacts DEF Current
  <2> QED BY <1>t, <2>1, <2>2, <2>8, WorkerFacts DEF NotHeld
<1>16. ASSUME NEW w \in Worker, PauseAppend(w) PROVE ResumeCounted'
  <2>1. HasTask(w)
    BY <1>0, <1>16, HeldFacts DEF PauseAppend, TaskPC
  <2>2. /\ pc[w] = "append"
        /\ pc' = [pc EXCEPT ![w] = "count"]
        /\ UNCHANGED <<pre, ready, events, indices, slot>>
    BY <1>16 DEF PauseAppend, Goto
  <2>7. SUFFICES ASSUME pc'["mpi"] = "resume" PROVE StillResuming BY DEF ResumeCounted
  <2>8. Resuming /\ Current' = Current
    BY <1>r, <1>t, <2>2, <2>7, WorkerFacts DEF Current
  <2> QED BY <1>t, <2>1, <2>2, <2>8, WorkerFacts DEF NotHeld
<1>17. ASSUME NEW w \in Worker, PauseCount(w) PROVE ResumeCounted'
  <2>1. HasTask(w)
    BY <1>0, <1>17, HeldFacts DEF PauseCount, TaskPC
  <2>2. /\ pc[w] = "count"
        /\ pc' = [pc EXCEPT ![w] = "up"]
        /\ pre' = [pre EXCEPT ![cur[w]] = Up(pre[cur[w]])]
        /\ UNCHANGED <<ready, events, indices, slot>>
    BY <1>17 DEF PauseCount, Goto
  <2>7. SUFFICES ASSUME pc'["mpi"] = "resume" PROVE StillResuming BY DEF ResumeCounted
  <2>8. Resuming /\ Current' = Current
    BY <1>r, <1>t, <2>2, <2>7, WorkerFacts DEF Current
  <2> QED BY <1>t, <2>1, <2>2, <2>8, WorkerFacts DEF NotHeld
<1>18. ASSUME NEW w \in Worker, PauseUp(w) PROVE ResumeCounted'
  <2>1. HasTask(w)
    BY <1>0, <1>18, HeldFacts DEF PauseUp, TaskPC
  <2>2. /\ pc[w] = "up"
        /\ pc' = [pc EXCEPT ![w] = "notify"]
        /\ pre' = [pre EXCEPT ![cur[w]] = Up(pre[cur[w]])]
        /\ UNCHANGED <<ready, events, indices, slot>>
    BY <1>18 DEF PauseUp, Goto
  <2>7. SUFFICES ASSUME pc'["mpi"] = "resume" PROVE StillResuming BY DEF ResumeCounted
  <2>8. Resuming /\ Current' = Current
    BY <1>r, <1>t, <2>2, <2>7, WorkerFacts DEF Current
  <2> QED BY <1>t, <2>1, <2>2, <2>8, WorkerFacts DEF NotHeld
<1>19. ASSUME NEW w \in Worker, PauseNotify(w) PROVE ResumeCounted'
  <2>1. HasTask(w)
    BY <1>0, <1>19, HeldFacts DEF PauseNotify, TaskPC
  <2>2. /\ pc[w] = "notify"
        /\ pc' = [pc EXCEPT ![w] = IF w \in PoolWorker THEN "gather" ELSE "poll"]
        /\ UNCHANGED <<events, indices, slot>>
    BY <1>19 DEF PauseNotify, Goto, AfterTask
  <2>4. pre' = [pre EXCEPT ![cur[w]] = 2] /\ ready' = ready
    BY <1>0, <1>19, PauseNotifyEffect
  <2>7. SUFFICES ASSUME pc'["mpi"] = "resume" PROVE StillResuming BY DEF ResumeCounted
  <2>8. Resuming /\ Current' = Current
    BY <1>r, <1>t, <2>2, <2>7, WorkerFacts DEF Current
  <2> QED BY <1>t, <2>1, <2>2, <2>4, <2>8, WorkerFacts DEF NotHeld
<1>20. ASSUME NEW w \in Worker, SetResult(w) PROVE ResumeCounted'
  <2>1. HasTask(w)
    BY <1>0, <1>20, HeldFacts DEF SetResult, TaskPC
  <2>2. /\ pc[w] = "result"
        /\ pc' = [pc EXCEPT ![w] = "wake"]
        /\ UNCHANGED <<pre, ready, events, indices, slot>>
    BY <1>20 DEF SetResult, Goto
  <2>7. SUFFICES ASSUME pc'["mpi"] = "resume" PROVE StillResuming BY DEF ResumeCounted
  <2>8. Resuming /\ Current' = Current
    BY <1>r, <1>t, <2>2, <2>7, WorkerFacts DEF Current
  <2> QED BY <1>t, <2>1, <2>2, <2>8, WorkerFacts DEF NotHeld
<1>21. ASSUME NEW w \in Worker, WakeMain(w) PROVE ResumeCounted'
  <2>1. HasTask(w)
    BY <1>0, <1>21, HeldFacts DEF WakeMain, TaskPC
  <2>2. /\ pc[w] = "wake"
        /\ pc' = [pc EXCEPT ![w] = IF w = "cuda" THEN "record" ELSE "post"]
        /\ UNCHANGED <<pre, ready, events, indices, slot>>
    BY <1>21 DEF WakeMain, Goto
  <2>7. SUFFICES ASSUME pc'["mpi"] = "resume" PROVE StillResuming BY DEF ResumeCounted
  <2>8. Resuming /\ Current' = Current
    BY <1>r, <1>t, <2>2, <2>7, WorkerFacts DEF Current
  <2> QED BY <1>t, <2>1, <2>2, <2>8, WorkerFacts DEF NotHeld
<1>22. ASSUME NEW w \in Worker, FinishTask(w) PROVE ResumeCounted'
  <2>1. HasTask(w)
    BY <1>0, <1>22, HeldFacts DEF FinishTask, TaskPC
  <2>2. /\ pc[w] = "post"
        /\ pc' = [pc EXCEPT ![w] = IF w \in PoolWorker THEN "gather" ELSE "poll"]
        /\ UNCHANGED <<events, indices, slot>>
    BY <1>22 DEF FinishTask, Goto, AfterTask
  <2>4. PICK R \in SUBSET Task : ReleaseStep(R, NoTask)
    BY <1>0, <1>22, FinishTaskEffect
  <2>6. Underway(cur[w])
    BY <1>0, <2>1, HeldTouched
  <2>7. SUFFICES ASSUME pc'["mpi"] = "resume" PROVE StillResuming BY DEF ResumeCounted
  <2>8. Resuming /\ Current' = Current
    BY <1>r, <1>t, <2>2, <2>7, WorkerFacts DEF Current
  <2> QED BY <2>1, <2>4, <2>8, TaskFacts, WorkerFacts DEF ReleaseStep, NotHeld
<1>23. CASE PollNothing
  <2>2. /\ pc["mpi"] = "poll"
        /\ \E p \in {"gather", "stopped"} : pc' = [pc EXCEPT !["mpi"] = p]
        /\ UNCHANGED <<pre, ready, events, indices, slot>>
    BY <1>23 DEF PollNothing, Goto, AfterPoll, TestStop
  <2>9. pc'["mpi"] # "resume"
    BY <1>t, <2>2, WorkerFacts
  <2> QED BY <2>9 DEF ResumeCounted
<1>24. CASE Poll
  <2>2. /\ pc["mpi"] = "poll" /\ mutex = "free"
        /\ pc' = [pc EXCEPT !["mpi"] = "status"]
        /\ \E s \in Testsome : indices' = s /\ out_statuses' = [i \in DOMAIN s |-> requests[s[i]]]
        /\ slot' = 1
        /\ UNCHANGED <<pre, ready, events>>
    BY <1>24 DEF Poll, Goto
  <2>9. pc'["mpi"] # "resume"
    BY <1>t, <2>2, WorkerFacts
  <2> QED BY <2>9 DEF ResumeCounted
<1>25. CASE PollStatus
  <2>1. Polled
    BY <1>0, <1>25, PolledTasks DEF PollStatus, PollPC
  <2>2. /\ pc["mpi"] = "status"
        /\ pc' = [pc EXCEPT !["mpi"] = IF paused[Current] THEN "resume" ELSE "erase"]
        /\ UNCHANGED <<pre, ready, events, indices, slot>>
    BY <1>25 DEF PollStatus, Goto, OutStatus, Current
  <2>6. Old(Current) /\ Free(Current) /\ NotHeld(Current) /\ ext[Current] = "pending"
    BY <1>0, <1>25, PolledTouched DEF PollStatus, PollPC
  <2>7. ready[Current] = 0
    BY <1>0, <2>1, <2>6 DEF ReadyOnce, Runnable
  <2>8. pre[Current] = 2
    BY <1>0, <2>1, <2>6, <2>7 DEF RestDone, Parked
  <2>9. Current' = Current
    BY <2>2 DEF Current
  <2> QED BY <2>2, <2>7, <2>8, <2>9 DEF ResumeCounted
<1>26. CASE PollResume
  <2>1. Polled
    BY <1>0, <1>26, PolledTasks DEF PollResume, PollPC
  <2>2. /\ pc["mpi"] = "resume"
        /\ pc' = [pc EXCEPT !["mpi"] = "erase"]
        /\ UNCHANGED <<events, indices, slot>>
    BY <1>26 DEF PollResume, Goto
  <2>4. pre' = [pre EXCEPT ![Current] = 1] /\ ready' = [ready EXCEPT ![Current] = 1]
    BY <1>0, <1>26, PollResumeEffect
  <2>9. pc'["mpi"] # "resume"
    BY <1>t, <2>2, WorkerFacts
  <2> QED BY <2>9 DEF ResumeCounted
<1>27. CASE PollErase
  <2>1. Polled
    BY <1>0, <1>27, PolledTasks DEF PollErase, PollPC
  <2>2. /\ pc["mpi"] = "erase"
        /\ \E p \in (IF slot = Len(indices) THEN {"gather", "stopped"} ELSE {"status"}) :
             pc' = [pc EXCEPT !["mpi"] = p]
        /\ events' = Erase(events, indices[slot])
        /\ indices' = (IF slot = Len(indices) THEN <<>> ELSE Shift(indices[slot]))
        /\ slot' = (IF slot = Len(indices) THEN 1 ELSE slot + 1)
    BY <1>27 DEF PollErase, Goto, AfterPoll, TestStop, Current
  <2>4. PICK R \in SUBSET Task : ReleaseStep(R, NoTask)
    BY <1>0, <1>27, PollEraseEffect
  <2>6. Old(Current) /\ Free(Current) /\ NotHeld(Current) /\ ext[Current] = "reached"
    BY <1>0, <1>27, PolledTouched DEF PollErase, PollPC
  <2>9. pc'["mpi"] # "resume"
    BY <1>t, <2>2, WorkerFacts
  <2> QED BY <2>9 DEF ResumeCounted
<1>28. CASE Launch
  <2>1. CudaHasTask
    BY <1>0, <1>28, HeldFacts, WorkerFacts DEF Launch, TaskPC
  <2>2. /\ pc["cuda"] = "body"
        /\ pc' = [pc EXCEPT !["cuda"] = "result"]
        /\ UNCHANGED <<pre, ready, events, indices, slot>>
    BY <1>28 DEF Launch, Goto
  <2>7. SUFFICES ASSUME pc'["mpi"] = "resume" PROVE StillResuming BY DEF ResumeCounted
  <2>8. Resuming /\ Current' = Current
    BY <1>r, <1>t, <2>2, <2>7, WorkerFacts DEF Current
  <2> QED BY <1>t, <2>1, <2>2, <2>8, WorkerFacts DEF NotHeld
<1>29. CASE RecordEvent
  <2>1. CudaHasTask
    BY <1>0, <1>29, HeldFacts, WorkerFacts DEF RecordEvent, TaskPC
  <2>2. /\ pc["cuda"] = "record"
        /\ pc' = [pc EXCEPT !["cuda"] = "pre"]
        /\ UNCHANGED <<pre, ready, events, indices, slot>>
    BY <1>29 DEF RecordEvent, Goto, MakeEvent
  <2>7. SUFFICES ASSUME pc'["mpi"] = "resume" PROVE StillResuming BY DEF ResumeCounted
  <2>8. Resuming /\ Current' = Current
    BY <1>r, <1>t, <2>2, <2>7, WorkerFacts DEF Current
  <2> QED BY <1>t, <2>1, <2>2, <2>8, WorkerFacts DEF NotHeld
<1>30. CASE LaunchedPre
  <2>1. CudaHasTask
    BY <1>0, <1>30, HeldFacts, WorkerFacts DEF LaunchedPre, TaskPC
  <2>2. /\ pc["cuda"] = "pre"
        /\ pc' = [pc EXCEPT !["cuda"] = "post"]
        /\ UNCHANGED <<events, indices, slot>>
    BY <1>30 DEF LaunchedPre, Goto
  <2>4. PICK R \in SUBSET Task : ReleaseStep(R, cur["cuda"]) /\ pre'[cur["cuda"]] = 0
    BY <1>0, <1>30, LaunchedPreEffect
  <2>6. Underway(cur["cuda"])
    BY <1>0, <2>1, HeldTouched, WorkerFacts
  <2>7. SUFFICES ASSUME pc'["mpi"] = "resume" PROVE StillResuming BY DEF ResumeCounted
  <2>8. Resuming /\ Current' = Current
    BY <1>r, <1>t, <2>2, <2>7, WorkerFacts DEF Current
  <2> QED BY <2>1, <2>4, <2>8, TaskFacts, WorkerFacts DEF ReleaseStep, NotHeld
<1>31. CASE CudaPollNothing
  <2>2. /\ pc["cuda"] = "poll"
        /\ \E p \in {"gather", "stopped"} : pc' = [pc EXCEPT !["cuda"] = p]
        /\ UNCHANGED <<pre, ready, events, indices, slot>>
    BY <1>31 DEF CudaPollNothing, Goto, AfterPoll, TestStop
  <2>7. SUFFICES ASSUME pc'["mpi"] = "resume" PROVE StillResuming BY DEF ResumeCounted
  <2>8. Resuming /\ Current' = Current
    BY <1>r, <1>t, <2>2, <2>7, WorkerFacts DEF Current
  <2> QED BY <1>t, <2>2, <2>8, WorkerFacts DEF NotHeld
<1>32. CASE CudaPoll
  <2>1. FrontPolled
    BY <1>0, <1>32, PolledTasks DEF CudaPoll, FrontDone
  <2>2. /\ pc["cuda"] = "poll" /\ FrontDone
        /\ \E p \in {"gather", "stopped"} : pc' = [pc EXCEPT !["cuda"] = p]
        /\ UNCHANGED <<events, indices, slot>>
    BY <1>32 DEF CudaPoll, Goto, AfterPoll, TestStop
  <2>4. PICK R \in SUBSET Task : ReleaseStep(R, NoTask)
    BY <1>0, <1>32, CudaPollEffect
  <2>6. /\ Old(Front) /\ Free(Front) /\ NotHeld(Front) /\ ext[Front] = "pending"
        /\ Sched[Front] = "cuda"
    BY <1>0, <1>32, PolledTouched DEF CudaPoll, FrontDone
  <2>7. SUFFICES ASSUME pc'["mpi"] = "resume" PROVE StillResuming BY DEF ResumeCounted
  <2>8. Resuming /\ Current' = Current
    BY <1>r, <1>t, <2>2, <2>7, WorkerFacts DEF Current
  <2> QED BY <2>1, <2>4, <2>8, TaskFacts, WorkerFacts DEF ReleaseStep, NotHeld
<1> QED
  BY <1>2, <1>3, <1>4, <1>5, <1>6, <1>7, <1>8, <1>9, <1>10, <1>11, <1>12, <1>13, <1>14, <1>15,
     <1>16, <1>17, <1>18, <1>19, <1>20, <1>21, <1>22, <1>23, <1>24, <1>25, <1>26, <1>27, <1>28,
     <1>29, <1>30, <1>31, <1>32
  DEF Next, WorkerStep, MpiStep, CudaStep, MainStep, Ended

-----------------------------------------------------------------------------
(***************************************************************************)
(* The streams, and what is recorded in them.                              *)
(***************************************************************************)
LEMMA StreamAppend ==
  ASSUME Types, NEW i \in 0..(NumStreams - 1), NEW x \in Operation,
         streams' = [streams EXCEPT ![i] = Append(streams[i], x)]
  PROVE  /\ \A j \in 0..(NumStreams - 1) : \A a \in DOMAIN streams[j] :
              a \in DOMAIN streams'[j] /\ streams'[j][a] = streams[j][a] /\ a \in Nat
         /\ \A j \in 0..(NumStreams - 1) : \A a \in DOMAIN streams'[j] :
              \/ a \in DOMAIN streams[j] /\ streams'[j][a] = streams[j][a]
              \/ j = i /\ a = Len(streams[i]) + 1 /\ streams'[j][a] = x
         /\ \E a \in DOMAIN streams'[i] : streams'[i][a] = x /\ \A b \in DOMAIN streams[i] : b < a
<1>1. streams \in [0..(NumStreams - 1) -> Seq(Operation)]
  BY DEF Types, CudaTypes
<1>2. streams[i] \in Seq(Operation)
  BY <1>1
<1>3. \A j \in 0..(NumStreams - 1) : streams'[j] = IF j = i THEN Append(streams[i], x) ELSE streams[j]
  BY <1>1
<1>4. /\ Len(streams[i]) \in Nat
      /\ DOMAIN streams[i] = 1..Len(streams[i]) /\ DOMAIN Append(streams[i], x) = 1..(Len(streams[i]) + 1)
      /\ \A a \in 1..(Len(streams[i]) + 1) :
           Append(streams[i], x)[a] = IF a = Len(streams[i]) + 1 THEN x ELSE streams[i][a]
  BY <1>2, AppendFacts
<1>5. ASSUME NEW j \in 0..(NumStreams - 1), NEW a \in DOMAIN streams[j]
      PROVE  a \in DOMAIN streams'[j] /\ streams'[j][a] = streams[j][a] /\ a \in Nat
  <2>1. CASE j = i
    <3>1. a \in 1..(Len(streams[i]) + 1) /\ a # Len(streams[i]) + 1 /\ a \in Nat
      BY <1>4, <2>1
    <3> QED BY <1>3, <1>4, <2>1, <3>1
  <2>2. CASE j # i
    <3>1. streams[j] \in Seq(Operation)
      BY <1>1
    <3>2. a \in Nat
      BY <3>1
    <3> QED BY <1>3, <2>2, <3>2
  <2> QED BY <2>1, <2>2
<1>6. ASSUME NEW j \in 0..(NumStreams - 1), NEW a \in DOMAIN streams'[j]
      PROVE  \/ a \in DOMAIN streams[j] /\ streams'[j][a] = streams[j][a]
             \/ j = i /\ a = Len(streams[i]) + 1 /\ streams'[j][a] = x
  <2>1. CASE j = i
    <3>1. a \in 1..(Len(streams[i]) + 1)
      BY <1>3, <1>4, <2>1
    <3>2. streams'[j][a] = IF a = Len(streams[i]) + 1 THEN x ELSE streams[i][a]
      BY <1>3, <1>4, <2>1, <3>1
    <3> QED BY <1>4, <2>1, <3>1, <3>2
  <2>2. CASE j # i
    BY <1>3, <2>2
  <2> QED BY <2>1, <2>2
<1>7. \E a \in DOMAIN streams'[i] : streams'[i][a] = x /\ \A b \in DOMAIN streams[i] : b < a
  <2>1. streams'[i] = Append(streams[i], x)
    BY <1>3
  <2>2. Len(streams[i]) + 1 \in DOMAIN streams'[i] /\ streams'[i][Len(streams[i]) + 1] = x
    BY <1>4, <2>1
  <2> QED BY <1>4, <2>2
<1> QED BY <1>5, <1>6, <1>7

LEMMA StreamTail ==
  ASSUME Types, NEW i \in 0..(NumStreams - 1), streams[i] # <<>>,
         streams' = [streams EXCEPT ![i] = Tail(streams[i])]
  PROVE  /\ \A j \in 0..(NumStreams - 1) : j # i => streams'[j] = streams[j]
         /\ \A a \in DOMAIN streams'[i] : a + 1 \in DOMAIN streams[i] /\ streams'[i][a] = streams[i][a + 1]
         /\ \A a \in DOMAIN streams[i] : /\ a \in Nat
                                         /\ a # 1 => a - 1 \in DOMAIN streams'[i] /\ streams'[i][a - 1] = streams[i][a]
<1>1. streams \in [0..(NumStreams - 1) -> Seq(Operation)]
  BY DEF Types, CudaTypes
<1>2. streams[i] \in Seq(Operation)
  BY <1>1
<1>3. \A j \in 0..(NumStreams - 1) : streams'[j] = IF j = i THEN Tail(streams[i]) ELSE streams[j]
  BY <1>1
<1>4. /\ Len(streams[i]) \in Nat /\ Len(streams[i]) > 0
      /\ DOMAIN streams[i] = 1..Len(streams[i]) /\ DOMAIN Tail(streams[i]) = 1..(Len(streams[i]) - 1)
      /\ \A a \in 1..(Len(streams[i]) - 1) : Tail(streams[i])[a] = streams[i][a + 1]
  BY <1>2, HeadFacts
<1>5. streams'[i] = Tail(streams[i])
  BY <1>3
<1>6. ASSUME NEW a \in DOMAIN streams'[i]
      PROVE  a + 1 \in DOMAIN streams[i] /\ streams'[i][a] = streams[i][a + 1]
  <2> DEFINE s == Tail(streams[i])
  <2>1. s = streams'[i] /\ DOMAIN s = 1..(Len(streams[i]) - 1)
        /\ \A b \in 1..(Len(streams[i]) - 1) : s[b] = streams[i][b + 1]
    BY <1>4, <1>5
  <2> HIDE DEF s
  <2>2. a \in 1..(Len(streams[i]) - 1) /\ streams'[i][a] = streams[i][a + 1]
    BY <2>1
  <2> QED BY <1>4, <2>2
<1>7. ASSUME NEW a \in DOMAIN streams[i]
      PROVE  a \in Nat /\ (a # 1 => a - 1 \in DOMAIN streams'[i] /\ streams'[i][a - 1] = streams[i][a])
  <2>1. a \in Nat /\ (a # 1 => a - 1 \in 1..(Len(streams[i]) - 1) /\ (a - 1) + 1 = a)
    BY <1>4
  <2> QED BY <1>4, <1>5, <2>1
<1> QED BY <1>3, <1>6, <1>7

LEMMA ReachedDoneStep ==
  ASSUME Hypotheses, IInv, [Next]_vars
  PROVE  ReachedDone'
<1>0. Parts
  BY DEF Hypotheses, IInv
<1>t. /\ cur \in [Worker -> Task \union {NoTask}] /\ pre \in [Task -> Nat] /\ post \in [Task -> Nat]
      /\ ext \in [Task -> {"none", "pending", "reached"}] /\ emplaced \subseteq Task
      /\ op \in [Task -> {"none", "queued", "running", "done"}] /\ ready \in [Task -> Int]
      /\ stream_idx \in [Task -> {NoStream} \union 0..(NumStreams - 1)]
      /\ followers \in [Task -> [{"pre", "post"} -> SUBSET Task]]
      /\ status \in [Task -> Task \union {NoTask}]
      /\ pc \in [Worker -> WorkerPC] /\ paused \in [Task -> BOOLEAN]
  BY <1>0 DEF Types, CountTypes, EventTypes, WorkTypes, CudaTypes, PoolTypes
<1>1. CASE UNCHANGED <<ext, op, status>>
  BY <1>0, <1>1, <1>t DEF ReachedDone
<1>2. CASE UNCHANGED vars
  BY <1>1, <1>2 DEF vars
<1>3. ASSUME NEW w \in Worker,
             (\E t \in Task : GatherReady(w, t)) \/ (\E t \in Task : InitDependencies(w, t))
             \/ GatherNothing(w) \/ Execute(w) \/ PushRequest(w) \/ Yield(w) \/ PauseReset(w)
             \/ PauseFollow(w) \/ PauseAppend(w) \/ PauseCount(w) \/ PauseUp(w)
             \/ PauseNotify(w) \/ SetResult(w) \/ WakeMain(w) \/ FinishTask(w)
      PROVE  ReachedDone'
  BY <1>1, <1>3
  DEF GatherReady, InitDependencies, GatherNothing, Execute, PushRequest, Yield, PauseReset,
      PauseFollow, PauseAppend, PauseCount, PauseUp, PauseNotify, SetResult, WakeMain,
      FinishTask, AfterTask, Goto
<1>4. ASSUME \/ PollNothing \/ Poll \/ PollResume \/ PollErase \/ LaunchedPre \/ CudaPollNothing
             \/ Emplace \/ EndOfProgram \/ EnterWaker \/ TestResult \/ Idle \/ TakeResult
             \/ Barrier \/ Stop \/ Join
      PROVE  ReachedDone'
  BY <1>1, <1>4
  DEF PollNothing, Poll, PollResume, PollErase, LaunchedPre, CudaPollNothing, Emplace,
      EndOfProgram, EnterWaker, TestResult, Idle, TakeResult, Barrier, Stop, Join, Goto,
      MainGoto, OnlyMain
<1>5. ASSUME NEW w \in Worker, Compute(w) PROVE ReachedDone'
  <2>1. HasTask(w)
    BY <1>0, <1>5, HeldFacts DEF Compute, TaskPC
  <2>2. /\ pc[w] = "body" /\ w # "cuda" /\ cur[w] \notin Request
        /\ op' = [op EXCEPT ![cur[w]] = IF op[cur[w]] = "running" THEN "done" ELSE "running"]
        /\ UNCHANGED <<status, ext>>
    BY <1>5 DEF Compute, Goto
  <2> QED BY <1>0, <2>1, <2>2, <1>t, WorkerFacts DEF ReachedDone, HeldProgress
<1>6. ASSUME NEW w \in Worker, GetStatus(w) PROVE ReachedDone'
  <2>1. HasTask(w)
    BY <1>0, <1>6, HeldFacts DEF GetStatus, TaskPC
  <2>2. /\ pc[w] = "body" /\ cur[w] \in Request
        /\ ext' = [ext EXCEPT ![cur[w]] = "pending"]
        /\ op' = [op EXCEPT ![cur[w]] = "running"]
        /\ UNCHANGED <<status>>
    BY <1>6 DEF GetStatus, Goto, MakeEvent
  <2> QED BY <1>0, <2>1, <2>2, <1>t DEF ReachedDone
<1>7. CASE PollStatus
  <2>1. Polled
    BY <1>0, <1>7, PolledTasks DEF PollStatus, PollPC
  <2>2. /\ pc["mpi"] = "status"
        /\ status' = [status EXCEPT ![statuses[indices[slot]]] = out_statuses[slot]]
        /\ ext' = [ext EXCEPT ![Current] = "reached"]
        /\ UNCHANGED <<op>>
    BY <1>7 DEF PollStatus, Goto, OutStatus, Current
  <2>4. slot \in slot..Len(indices)
    BY <1>0, <2>2 DEF PoolAligned, PollPC, Types, PoolTypes
  <2>5. out_statuses[slot] = Current /\ op[Current] = "done" /\ statuses[indices[slot]] = Current
    BY <1>0, <2>1, <2>2, <2>4 DEF PoolAligned, PollPC, Current
  <2> QED BY <1>0, <1>t, <2>1, <2>2, <2>5 DEF ReachedDone
<1>8. CASE Launch
  <2>1. CudaHasTask
    BY <1>0, <1>8, HeldFacts, WorkerFacts DEF Launch, TaskPC
  <2>2. /\ pc["cuda"] = "body"
        /\ op' = [op EXCEPT ![cur["cuda"]] = "queued"]
        /\ UNCHANGED <<status, ext>>
    BY <1>8 DEF Launch, Goto
  <2>4. ext[cur["cuda"]] = "none"
    BY <1>0, <2>2, WorkerFacts DEF HeldProgress
  <2> QED BY <1>0, <1>t, <2>1, <2>2, <2>4 DEF ReachedDone
<1>9. CASE RecordEvent
  <2>1. CudaHasTask
    BY <1>0, <1>9, HeldFacts, WorkerFacts DEF RecordEvent, TaskPC
  <2>2. /\ pc["cuda"] = "record"
        /\ ext' = [ext EXCEPT ![cur["cuda"]] = "pending"]
        /\ UNCHANGED <<status, op>>
    BY <1>9 DEF RecordEvent, Goto, MakeEvent
  <2> QED BY <1>0, <2>1, <2>2, <1>t DEF ReachedDone
<1>10. CASE CudaPoll
  <2>1. FrontPolled
    BY <1>0, <1>10, PolledTasks DEF CudaPoll, FrontDone
  <2>2. /\ pc["cuda"] = "poll" /\ FrontDone
        /\ ext' = [ext EXCEPT ![Front] = "reached"]
        /\ UNCHANGED <<status, op>>
    BY <1>10 DEF CudaPoll, Goto, AfterPoll, TestStop
  <2>4. LET t == Front IN op[t] = "done" /\ Sched[t] = "cuda"
    <3> DEFINE t == Front
    <3>1. 1 \in DOMAIN cuda_events
      BY <1>0, <2>1, HeadFacts DEF Types, CudaTypes
    <3>2. Sched[t] = "cuda" /\ stream_idx[t] # NoStream
      BY <1>0, <2>1, <3>1 DEF RecordsBehind
    <3>3. ASSUME op[t] # "done"
          PROVE  \E b \in DOMAIN streams[stream_idx[t]] :
                   streams[stream_idx[t]][b] = Record(Head(cuda_events).event)
      BY <1>0, <2>1, <3>1, <3>3 DEF RecordsBehind
    <3>4. stream_idx[t] \in DOMAIN streams
      BY <1>0, <1>t, <2>1, <3>2 DEF Types, CudaTypes
    <3> HIDE DEF t
    <3>5. op[t] = "done"
      BY <2>2, <3>3, <3>4 DEF FrontDone, Recorded
    <3> QED BY <3>2, <3>5 DEF t
  <2>5. Front \notin Request
    BY <2>4, DispatchAssumption
  <2> QED BY <1>0, <1>t, <2>1, <2>2, <2>4, <2>5 DEF ReachedDone
<1>11. ASSUME NEW t \in Task, RequestCompletes(t) PROVE ReachedDone'
  <2>2. /\ t \in Request /\ op[t] = "running"
        /\ op' = [op EXCEPT ![t] = "done"]
        /\ UNCHANGED <<status, ext>>
    BY <1>11 DEF RequestCompletes
  <2> QED BY <1>0, <2>2, <1>t DEF ReachedDone
<1>12. ASSUME NEW i \in DOMAIN streams, StreamStep(i) PROVE ReachedDone'
  <2>1. \/ op' = op
        \/ \E k \in Task : /\ op[k] = "queued" \/ op'[k] = "done"
                          /\ \A u \in Task : u # k => op'[u] = op[u]
    BY SMTT(60), <1>0, <1>t, <1>12, StreamEffect
  <2>2. UNCHANGED <<status, ext>>
    BY <1>12 DEF StreamStep
  <2> QED BY <1>0, <2>1, <2>2 DEF ReachedDone
<1> QED BY <1>2, <1>3, <1>4, <1>5, <1>6, <1>7, <1>8, <1>9, <1>10, <1>11, <1>12
  DEF Next, WorkerStep, MpiStep, CudaStep, MainStep, Ended

LEMMA EntryTask ==
  ASSUME Types
  PROVE  \A n \in DOMAIN cuda_events : cuda_events[n].task \in Task
<1>1. cuda_events \in Seq([event : Nat, task : Task])
  BY DEF Types, CudaTypes
<1>2. ASSUME NEW n \in DOMAIN cuda_events PROVE cuda_events[n] \in [event : Nat, task : Task]
  <2> DEFINE S == [event : Nat, task : Task]
  <2>1. cuda_events \in Seq(S)
    BY <1>1
  <2> HIDE DEF S
  <2>2. cuda_events[n] \in S
    BY <2>1
  <2> QED BY <2>2 DEF S
<1> QED BY <1>2

LEMMA AllocatedType ==
  ASSUME Types
  PROVE  Allocated \in Nat
<1>1. unused \in Seq(Nat) /\ created \in Nat
  BY DEF Types, CudaTypes
<1>2. unused # <<>> => unused[Len(unused)] \in Nat
  BY <1>1
<1> QED BY <1>1, <1>2 DEF Allocated

LEMMA StreamsMatchStep ==
  ASSUME Hypotheses, IInv, [Next]_vars
  PROVE  StreamsMatch'
<1>0. Parts
  BY DEF Hypotheses, IInv
<1>t. Ranges
  BY <1>0 DEF Types, CountTypes, EventTypes, WorkTypes, CudaTypes
<1>1. CASE UNCHANGED <<op, stream_idx, streams>>
  BY <1>0, <1>1, <1>t DEF StreamsMatch
<1>2. CASE UNCHANGED vars
  BY <1>1, <1>2 DEF vars
<1>3. ASSUME NEW w \in Worker,
             (\E t \in Task : GatherReady(w, t)) \/ (\E t \in Task : InitDependencies(w, t))
             \/ GatherNothing(w) \/ Execute(w) \/ PushRequest(w) \/ Yield(w) \/ PauseReset(w)
             \/ PauseFollow(w) \/ PauseAppend(w) \/ PauseCount(w) \/ PauseUp(w)
             \/ PauseNotify(w) \/ SetResult(w) \/ WakeMain(w) \/ FinishTask(w)
      PROVE  StreamsMatch'
  BY <1>1, <1>3
  DEF GatherReady, InitDependencies, GatherNothing, Execute, PushRequest, Yield, PauseReset,
      PauseFollow, PauseAppend, PauseCount, PauseUp, PauseNotify, SetResult, WakeMain,
      FinishTask, AfterTask, Goto
<1>4. ASSUME \/ PollNothing \/ Poll \/ PollStatus \/ PollResume \/ PollErase \/ LaunchedPre
             \/ CudaPollNothing \/ CudaPoll \/ Emplace \/ EndOfProgram \/ EnterWaker
             \/ TestResult \/ Idle \/ TakeResult \/ Barrier \/ Stop \/ Join
      PROVE  StreamsMatch'
  BY <1>1, <1>4
  DEF PollNothing, Poll, PollStatus, PollResume, PollErase, LaunchedPre, CudaPollNothing,
      CudaPoll, Emplace, EndOfProgram, EnterWaker, TestResult, Idle, TakeResult, Barrier, Stop,
      Join, Goto, MainGoto, OnlyMain
<1>5. ASSUME NEW w \in Worker, Compute(w) PROVE StreamsMatch'
  <2>1. HasTask(w)
    BY <1>0, <1>5, HeldFacts DEF Compute, TaskPC
  <2>2. /\ pc[w] = "body" /\ w # "cuda" /\ cur[w] \notin Request
        /\ op' = [op EXCEPT ![cur[w]] = IF op[cur[w]] = "running" THEN "done" ELSE "running"]
        /\ UNCHANGED <<streams, stream_idx>>
    BY <1>5 DEF Compute, Goto
  <2> QED BY SMTT(60), <1>0, <2>1, <2>2, <1>t, WorkerFacts DEF StreamsMatch
<1>6. ASSUME NEW w \in Worker, GetStatus(w) PROVE StreamsMatch'
  <2>1. HasTask(w)
    BY <1>0, <1>6, HeldFacts DEF GetStatus, TaskPC
  <2>2. /\ pc[w] = "body" /\ cur[w] \in Request
        /\ op' = [op EXCEPT ![cur[w]] = "running"]
        /\ UNCHANGED <<streams, stream_idx>>
    BY <1>6 DEF GetStatus, Goto, MakeEvent
  <2> QED BY <1>0, <2>1, <2>2, <1>t, DispatchAssumption DEF StreamsMatch
<1>7. CASE Launch
  <2>1. CudaHasTask
    BY <1>0, <1>7, HeldFacts, WorkerFacts DEF Launch, TaskPC
  <2>2. /\ pc["cuda"] = "body"
        /\ streams' = [streams EXCEPT ![next_stream % NumStreams] =
             Append(streams[next_stream % NumStreams], Kernel(cur["cuda"]))]
        /\ stream_idx' = [stream_idx EXCEPT ![cur["cuda"]] = next_stream % NumStreams]
        /\ op' = [op EXCEPT ![cur["cuda"]] = "queued"]
    BY <1>7 DEF Launch, Goto
  <2> DEFINE c == cur["cuda"]
             i == next_stream % NumStreams
  <2>4. i \in 0..(NumStreams - 1) /\ i # NoStream
    BY <1>0, DispatchAssumption DEF Types, CudaTypes, NoStream
  <2>5. Kernel(c) \in Operation
    BY <2>1, TaskFacts DEF Kernel, Operation
  <2>6. /\ \A j \in 0..(NumStreams - 1) : \A a \in DOMAIN streams[j] :
             a \in DOMAIN streams'[j] /\ streams'[j][a] = streams[j][a] /\ a \in Nat
        /\ \A j \in 0..(NumStreams - 1) : \A a \in DOMAIN streams'[j] :
             \/ a \in DOMAIN streams[j] /\ streams'[j][a] = streams[j][a]
             \/ j = i /\ a = Len(streams[i]) + 1 /\ streams'[j][a] = Kernel(c)
        /\ \E a \in DOMAIN streams'[i] :
             streams'[i][a] = Kernel(c) /\ \A b \in DOMAIN streams[i] : b < a
    <3>1. streams' = [streams EXCEPT ![i] = Append(streams[i], Kernel(c))]
      BY <2>2
    <3> HIDE DEF i, c
    <3> QED BY ZenonT(60), <1>0, <2>4, <2>5, <3>1, StreamAppend
  <2>7. /\ op' = [op EXCEPT ![c] = "queued"] /\ stream_idx' = [stream_idx EXCEPT ![c] = i]
        /\ c \in Task /\ Sched[c] = "cuda"
    BY <2>1, <2>2
  <2>8. \A t \in Task : op'[t] = (IF t = c THEN "queued" ELSE op[t])
                       /\ stream_idx'[t] = (IF t = c THEN i ELSE stream_idx[t])
    BY <1>t, <2>7
  <2> HIDE DEF i, c
  <2>9. \A t \in Task : stream_idx[t] # NoStream => stream_idx[t] \in 0..(NumStreams - 1)
    BY <1>t
  <2>10. ASSUME NEW t \in Task
         PROVE  /\ stream_idx'[t] # NoStream => Sched[t] = "cuda" /\ op'[t] # "none"
                /\ Sched[t] = "cuda" /\ op'[t] # "none" => stream_idx'[t] # NoStream
                /\ Sched[t] = "cuda" /\ op'[t] \in {"queued", "running"} =>
                     \E a \in DOMAIN streams'[stream_idx'[t]] : streams'[stream_idx'[t]][a] = Kernel(t)
    <3>1. CASE t = c
      <4>1. stream_idx'[t] = i /\ op'[t] = "queued" /\ Sched[t] = "cuda"
        BY <2>7, <2>8, <3>1
      <4> QED BY <2>4, <2>6, <3>1, <4>1
    <3>2. CASE t # c
      <4>1. stream_idx'[t] = stream_idx[t] /\ op'[t] = op[t]
        BY <2>8, <3>2
      <4> QED BY <1>0, <2>6, <2>9, <4>1 DEF StreamsMatch
    <3> QED BY <3>1, <3>2
  <2>11. ASSUME NEW j \in 0..(NumStreams - 1), NEW a \in DOMAIN streams'[j], streams'[j][a].kind = "kernel"
         PROVE  streams'[j][a].id \in Task /\ stream_idx'[streams'[j][a].id] # NoStream
    <3>1. CASE a \in DOMAIN streams[j] /\ streams'[j][a] = streams[j][a]
      <4>1. streams[j][a].id \in Task /\ stream_idx[streams[j][a].id] # NoStream
        BY <1>0, <2>11, <3>1 DEF StreamsMatch
      <4> QED BY <2>4, <2>8, <3>1, <4>1
    <3>2. CASE j = i /\ streams'[j][a] = Kernel(c)
      <4>1. streams'[j][a].id = c
        BY <3>2 DEF Kernel
      <4> QED BY <2>4, <2>7, <2>8, <4>1
    <3> QED BY <2>6, <3>1, <3>2
  <2> QED BY <2>10, <2>11 DEF StreamsMatch
<1>8. CASE RecordEvent
  <2>1. CudaHasTask
    BY <1>0, <1>8, HeldFacts, WorkerFacts DEF RecordEvent, TaskPC
  <2>2. /\ pc["cuda"] = "record"
        /\ streams' = [streams EXCEPT ![stream_idx[cur["cuda"]]] =
             Append(streams[stream_idx[cur["cuda"]]], Record(Allocated))]
        /\ UNCHANGED <<stream_idx, op>>
    BY <1>8 DEF RecordEvent, Goto, MakeEvent
  <2> DEFINE c == cur["cuda"]
             i == stream_idx[c]
  <2>4. i \in 0..(NumStreams - 1) /\ stream_idx[c] # NoStream
    <3>1. op[c] # "none"
      BY <1>0, <2>2, WorkerFacts DEF HeldProgress
    <3>2. stream_idx[c] # NoStream
      BY <1>0, <2>1, <3>1 DEF StreamsMatch
    <3> QED BY <1>t, <2>1, <3>2
  <2>5. Allocated \in Nat /\ Record(Allocated) \in Operation
    <3>1. Allocated \in Nat
      BY <1>0, AllocatedType
    <3> QED BY <3>1 DEF Record, Operation
  <2>6. /\ \A j \in 0..(NumStreams - 1) : \A a \in DOMAIN streams[j] :
             a \in DOMAIN streams'[j] /\ streams'[j][a] = streams[j][a] /\ a \in Nat
        /\ \A j \in 0..(NumStreams - 1) : \A a \in DOMAIN streams'[j] :
             \/ a \in DOMAIN streams[j] /\ streams'[j][a] = streams[j][a]
             \/ j = i /\ a = Len(streams[i]) + 1 /\ streams'[j][a] = Record(Allocated)
        /\ \E a \in DOMAIN streams'[i] :
             streams'[i][a] = Record(Allocated) /\ \A b \in DOMAIN streams[i] : b < a
    <3>1. streams' = [streams EXCEPT ![i] = Append(streams[i], Record(Allocated))]
      BY <2>2
    <3> HIDE DEF i, c
    <3> QED BY ZenonT(60), <1>0, <2>4, <2>5, <3>1, StreamAppend
  <2>7. c \in Task /\ Sched[c] = "cuda"
    BY <2>1
  <2> HIDE DEF i, c
  <2>9. \A t \in Task : stream_idx[t] # NoStream => stream_idx[t] \in 0..(NumStreams - 1)
    BY <1>t
  <2>10. ASSUME NEW t \in Task
         PROVE  Sched[t] = "cuda" /\ op[t] \in {"queued", "running"} =>
                     \E a \in DOMAIN streams'[stream_idx[t]] : streams'[stream_idx[t]][a] = Kernel(t)
    BY <1>0, <2>6, <2>9 DEF StreamsMatch
  <2>11. ASSUME NEW j \in 0..(NumStreams - 1), NEW a \in DOMAIN streams'[j], streams'[j][a].kind = "kernel"
         PROVE  streams'[j][a].id \in Task /\ stream_idx[streams'[j][a].id] # NoStream
    <3>1. streams'[j][a] # Record(Allocated)
      BY <2>11 DEF Record
    <3> QED BY <1>0, <2>6, <2>11, <3>1 DEF StreamsMatch
  <2> QED BY <1>0, <2>2, <2>10, <2>11 DEF StreamsMatch
<1>9. ASSUME NEW t \in Task, RequestCompletes(t) PROVE StreamsMatch'
  <2>2. /\ t \in Request /\ op[t] = "running"
        /\ op' = [op EXCEPT ![t] = "done"]
        /\ UNCHANGED <<streams, stream_idx>>
    BY <1>9 DEF RequestCompletes
  <2> QED BY SMTT(60), <1>0, <2>2, <1>t, DispatchAssumption DEF StreamsMatch
<1>10. ASSUME NEW i \in DOMAIN streams, StreamStep(i) PROVE StreamsMatch'
  <2>1. /\ i \in 0..(NumStreams - 1) /\ streams[i] \in Seq(Operation) /\ streams[i] # <<>>
        /\ \/ /\ streams' = [streams EXCEPT ![i] = Tail(streams[i])] /\ op' = op
              /\ streams[i][1].kind = "record"
           \/ \E k \in Task :
                /\ streams[i][1] = Kernel(k) /\ stream_idx[k] # NoStream /\ Sched[k] = "cuda" /\ op[k] # "none"
                /\ \/ op[k] = "queued" /\ op' = [op EXCEPT ![k] = "running"] /\ streams' = streams
                   \/ op[k] # "queued" /\ op' = [op EXCEPT ![k] = "done"]
                      /\ streams' = [streams EXCEPT ![i] = Tail(streams[i])]
    BY <1>0, <1>10, StreamEffect
  <2>2. UNCHANGED <<stream_idx, ext, cuda_events>>
    BY <1>10 DEF StreamStep
  <2>3. ASSUME NEW k \in Task, op[k] = "queued", op' = [op EXCEPT ![k] = "running"], streams' = streams
        PROVE  StreamsMatch'
    <3>1. \A t \in Task : (op'[t] # op[t] => op[t] = "queued" /\ op'[t] = "running")
      BY <1>t, <2>3
    <3> QED BY <1>0, <2>2, <2>3, <3>1 DEF StreamsMatch
  <2>4. ASSUME streams' = [streams EXCEPT ![i] = Tail(streams[i])],
               \A t \in Task : op'[t] = op[t] \/ (op[t] # "none" /\ op'[t] = "done"),
               \A t \in Task : streams[i][1] = Kernel(t) => op'[t] = "done"
        PROVE  StreamsMatch'
    <3>1. /\ \A j \in 0..(NumStreams - 1) : j # i => streams'[j] = streams[j]
          /\ \A a \in DOMAIN streams'[i] : a + 1 \in DOMAIN streams[i] /\ streams'[i][a] = streams[i][a + 1]
          /\ \A a \in DOMAIN streams[i] :
               /\ a \in Nat
               /\ a # 1 => a - 1 \in DOMAIN streams'[i] /\ streams'[i][a - 1] = streams[i][a]
      BY <1>0, <2>1, <2>4, StreamTail
    <3>2. ASSUME NEW t \in Task, Sched[t] = "cuda", op'[t] \in {"queued", "running"}
          PROVE  \E a \in DOMAIN streams'[stream_idx[t]] : streams'[stream_idx[t]][a] = Kernel(t)
      <4>1. op[t] = op'[t] /\ streams[i][1] # Kernel(t)
        BY <2>4, <3>2
      <4>2. PICK a \in DOMAIN streams[stream_idx[t]] : streams[stream_idx[t]][a] = Kernel(t)
        BY <1>0, <3>2, <4>1 DEF StreamsMatch
      <4>3. stream_idx[t] \in 0..(NumStreams - 1)
        BY <1>0, <1>t, <3>2, <4>1 DEF StreamsMatch
      <4>4. CASE stream_idx[t] = i
        <5>1. a # 1
          BY <4>1, <4>2, <4>4
        <5>2. a - 1 \in DOMAIN streams'[i] /\ streams'[i][a - 1] = Kernel(t)
          BY <3>1, <4>2, <4>4, <5>1
        <5> QED BY <4>4, <5>2
      <4>5. CASE stream_idx[t] # i
        BY <3>1, <4>2, <4>3, <4>5
      <4> QED BY <4>4, <4>5
    <3>3. ASSUME NEW j \in 0..(NumStreams - 1), NEW a \in DOMAIN streams'[j], streams'[j][a].kind = "kernel"
          PROVE  streams'[j][a].id \in Task /\ stream_idx[streams'[j][a].id] # NoStream
      <4>1. CASE j = i
        BY <1>0, <2>1, <3>1, <3>3, <4>1 DEF StreamsMatch
      <4>2. CASE j # i
        BY <1>0, <3>1, <3>3, <4>2 DEF StreamsMatch
      <4> QED BY <4>1, <4>2
    <3>4. \A t \in Task : (op'[t] = "none") <=> (op[t] = "none")
      BY <2>4
    <3> QED BY <1>0, <2>2, <3>2, <3>3, <3>4 DEF StreamsMatch
  <2>5. CASE op' = op /\ streams' = [streams EXCEPT ![i] = Tail(streams[i])] /\ streams[i][1].kind = "record"
    <3>1. \A t \in Task : streams[i][1] # Kernel(t)
      BY <2>5 DEF Kernel
    <3> QED BY <2>4, <2>5, <3>1
  <2>6. ASSUME NEW k \in Task, streams[i][1] = Kernel(k), op[k] # "none", op' = [op EXCEPT ![k] = "done"],
               streams' = [streams EXCEPT ![i] = Tail(streams[i])]
        PROVE  StreamsMatch'
    <3>1. \A t \in Task : Kernel(t) = Kernel(k) => t = k
      BY DEF Kernel
    <3>2. \A t \in Task : op'[t] = IF t = k THEN "done" ELSE op[t]
      BY <1>t, <2>6
    <3> QED BY <2>4, <2>6, <3>1, <3>2
  <2> QED BY <2>1, <2>3, <2>5, <2>6
<1> QED BY <1>2, <1>3, <1>4, <1>5, <1>6, <1>7, <1>8, <1>9, <1>10
  DEF Next, WorkerStep, MpiStep, CudaStep, MainStep, Ended

LEMMA RecordsBehindStep ==
  ASSUME Hypotheses, IInv, [Next]_vars
  PROVE  RecordsBehind'
<1>0. Parts
  BY DEF Hypotheses, IInv
<1>t. Ranges
  BY <1>0 DEF Types, CountTypes, EventTypes, WorkTypes, CudaTypes
<1>1. CASE UNCHANGED <<cuda_events, ext, op, stream_idx, streams>>
  BY <1>0, <1>1, <1>t DEF RecordsBehind
<1>2. CASE UNCHANGED vars
  BY <1>1, <1>2 DEF vars
<1>3. ASSUME NEW w \in Worker,
             (\E t \in Task : GatherReady(w, t)) \/ (\E t \in Task : InitDependencies(w, t))
             \/ GatherNothing(w) \/ Execute(w) \/ PushRequest(w) \/ Yield(w) \/ PauseReset(w)
             \/ PauseFollow(w) \/ PauseAppend(w) \/ PauseCount(w) \/ PauseUp(w)
             \/ PauseNotify(w) \/ SetResult(w) \/ WakeMain(w) \/ FinishTask(w)
      PROVE  RecordsBehind'
  BY <1>1, <1>3
  DEF GatherReady, InitDependencies, GatherNothing, Execute, PushRequest, Yield, PauseReset,
      PauseFollow, PauseAppend, PauseCount, PauseUp, PauseNotify, SetResult, WakeMain,
      FinishTask, AfterTask, Goto
<1>4. ASSUME \/ PollNothing \/ Poll \/ PollResume \/ PollErase \/ LaunchedPre \/ CudaPollNothing
             \/ Emplace \/ EndOfProgram \/ EnterWaker \/ TestResult \/ Idle \/ TakeResult
             \/ Barrier \/ Stop \/ Join
      PROVE  RecordsBehind'
  BY <1>1, <1>4
  DEF PollNothing, Poll, PollResume, PollErase, LaunchedPre, CudaPollNothing, Emplace,
      EndOfProgram, EnterWaker, TestResult, Idle, TakeResult, Barrier, Stop, Join, Goto,
      MainGoto, OnlyMain
<1>5. ASSUME NEW w \in Worker, Compute(w) PROVE RecordsBehind'
  <2>1. HasTask(w)
    BY <1>0, <1>5, HeldFacts DEF Compute, TaskPC
  <2>2. /\ pc[w] = "body" /\ w # "cuda" /\ cur[w] \notin Request
        /\ op' = [op EXCEPT ![cur[w]] = IF op[cur[w]] = "running" THEN "done" ELSE "running"]
        /\ UNCHANGED <<streams, stream_idx, ext, cuda_events>>
    BY <1>5 DEF Compute, Goto
  <2>4. \A u \in Task : Sched[u] = "cuda" => u # cur[w]
    BY <2>1, <2>2
  <2>5. \A u \in Task : Sched[u] = "cuda" => op'[u] = op[u] /\ ext'[u] = ext[u]
    BY <1>t, <2>1, <2>2, <2>4
  <2>6. \A n \in DOMAIN cuda_events : cuda_events[n].task \in Task
    BY <1>0, EntryTask
  <2> QED BY <1>0, <2>2, <2>5, <2>6 DEF RecordsBehind
<1>6. ASSUME NEW w \in Worker, GetStatus(w) PROVE RecordsBehind'
  <2>1. HasTask(w)
    BY <1>0, <1>6, HeldFacts DEF GetStatus, TaskPC
  <2>2. /\ pc[w] = "body" /\ cur[w] \in Request
        /\ op' = [op EXCEPT ![cur[w]] = "running"]
        /\ ext' = [ext EXCEPT ![cur[w]] = "pending"]
        /\ UNCHANGED <<streams, stream_idx, cuda_events>>
    BY <1>6 DEF GetStatus, Goto, MakeEvent
  <2>4. \A u \in Task : Sched[u] = "cuda" => u # cur[w]
    BY <2>2, DispatchAssumption
  <2>5. \A u \in Task : Sched[u] = "cuda" => op'[u] = op[u] /\ ext'[u] = ext[u]
    BY <1>t, <2>1, <2>2, <2>4
  <2>6. \A n \in DOMAIN cuda_events : cuda_events[n].task \in Task
    BY <1>0, EntryTask
  <2> QED BY <1>0, <2>2, <2>5, <2>6 DEF RecordsBehind
<1>7. CASE PollStatus
  <2>1. Polled
    BY <1>0, <1>7, PolledTasks DEF PollStatus, PollPC
  <2>2. /\ pc["mpi"] = "status"
        /\ ext' = [ext EXCEPT ![Current] = "reached"]
        /\ UNCHANGED <<streams, stream_idx, op, cuda_events>>
    BY <1>7 DEF PollStatus, Goto, OutStatus, Current
  <2>4. \A u \in Task : Sched[u] = "cuda" => u # Current
    BY <2>1, DispatchAssumption
  <2>5. \A u \in Task : Sched[u] = "cuda" => op'[u] = op[u] /\ ext'[u] = ext[u]
    BY <1>t, <2>1, <2>2, <2>4
  <2>6. \A n \in DOMAIN cuda_events : cuda_events[n].task \in Task
    BY <1>0, EntryTask
  <2> QED BY <1>0, <2>2, <2>5, <2>6 DEF RecordsBehind
<1>8. CASE Launch
  <2>1. CudaHasTask
    BY <1>0, <1>8, HeldFacts, WorkerFacts DEF Launch, TaskPC
  <2>2. /\ pc["cuda"] = "body"
        /\ streams' = [streams EXCEPT ![next_stream % NumStreams] =
             Append(streams[next_stream % NumStreams], Kernel(cur["cuda"]))]
        /\ stream_idx' = [stream_idx EXCEPT ![cur["cuda"]] = next_stream % NumStreams]
        /\ op' = [op EXCEPT ![cur["cuda"]] = "queued"]
        /\ UNCHANGED <<ext, cuda_events>>
    BY <1>8 DEF Launch, Goto
  <2> DEFINE c == cur["cuda"]
             i == next_stream % NumStreams
  <2>4. i \in 0..(NumStreams - 1) /\ i # NoStream
    BY <1>0, DispatchAssumption DEF Types, CudaTypes, NoStream
  <2>5. Kernel(c) \in Operation
    BY <2>1, TaskFacts DEF Kernel, Operation
  <2>6. /\ \A j \in 0..(NumStreams - 1) : \A a \in DOMAIN streams[j] :
             a \in DOMAIN streams'[j] /\ streams'[j][a] = streams[j][a] /\ a \in Nat
        /\ \A j \in 0..(NumStreams - 1) : \A a \in DOMAIN streams'[j] :
             \/ a \in DOMAIN streams[j] /\ streams'[j][a] = streams[j][a]
             \/ j = i /\ a = Len(streams[i]) + 1 /\ streams'[j][a] = Kernel(c)
        /\ \E a \in DOMAIN streams'[i] :
             streams'[i][a] = Kernel(c) /\ \A b \in DOMAIN streams[i] : b < a
    <3>1. streams' = [streams EXCEPT ![i] = Append(streams[i], Kernel(c))]
      BY <2>2
    <3> HIDE DEF i, c
    <3> QED BY <1>0, <2>4, <2>5, <3>1, StreamAppend
  <2>7. /\ op' = [op EXCEPT ![c] = "queued"] /\ stream_idx' = [stream_idx EXCEPT ![c] = i]
        /\ c \in Task /\ Sched[c] = "cuda"
    BY <2>1, <2>2
  <2>8. \A t \in Task : op'[t] = (IF t = c THEN "queued" ELSE op[t])
                       /\ stream_idx'[t] = (IF t = c THEN i ELSE stream_idx[t])
    BY <1>t, <2>7
  <2> HIDE DEF i, c
  <2>9. \A t \in Task : stream_idx[t] # NoStream => stream_idx[t] \in 0..(NumStreams - 1)
    BY <1>t
  <2>10. ext[c] = "none"
    BY <1>0, <2>2, WorkerFacts DEF HeldProgress, c
  <2>11. ASSUME NEW n \in DOMAIN cuda_events
         PROVE  LET t == cuda_events[n].task IN
                /\ stream_idx'[t] # NoStream
                /\ op'[t] # "done" => \E a, b \in DOMAIN streams'[stream_idx'[t]] :
                     /\ a < b
                     /\ streams'[stream_idx'[t]][a] = Kernel(t)
                     /\ streams'[stream_idx'[t]][b] = Record(cuda_events[n].event)
    <3> DEFINE t == cuda_events[n].task
    <3>1. t \in Task /\ t # c /\ stream_idx[t] \in 0..(NumStreams - 1) /\ stream_idx[t] # NoStream
      <4>1. t \in Task
        BY <1>0, EntryTask
      <4>2. stream_idx[t] # NoStream /\ ext[t] = "pending"
        BY <1>0 DEF RecordsBehind
      <4> QED BY <2>9, <2>10, <4>1, <4>2
    <3>2. op'[t] = op[t] /\ stream_idx'[t] = stream_idx[t]
      BY <2>8, <3>1
    <3>3. op[t] # "done" => \E a, b \in DOMAIN streams[stream_idx[t]] :
                     /\ a < b
                     /\ streams[stream_idx[t]][a] = Kernel(t)
                     /\ streams[stream_idx[t]][b] = Record(cuda_events[n].event)
      BY <1>0 DEF RecordsBehind
    <3> HIDE DEF t
    <3>4. op[t] # "done" => \E a, b \in DOMAIN streams'[stream_idx[t]] :
                     /\ a < b
                     /\ streams'[stream_idx[t]][a] = Kernel(t)
                     /\ streams'[stream_idx[t]][b] = Record(cuda_events[n].event)
      BY <2>6, <3>1, <3>3
    <3> QED BY <3>1, <3>2, <3>4 DEF t
  <2> QED BY SMTT(60), <1>0, <2>2, <2>11 DEF RecordsBehind
<1>9. CASE RecordEvent
  <2>1. CudaHasTask
    BY <1>0, <1>9, HeldFacts, WorkerFacts DEF RecordEvent, TaskPC
  <2>2. /\ pc["cuda"] = "record"
        /\ streams' = [streams EXCEPT ![stream_idx[cur["cuda"]]] =
             Append(streams[stream_idx[cur["cuda"]]], Record(Allocated))]
        /\ ext' = [ext EXCEPT ![cur["cuda"]] = "pending"]
        /\ cuda_events' = Append(cuda_events, [event |-> Allocated, task |-> cur["cuda"]])
        /\ UNCHANGED <<stream_idx, op>>
    BY <1>9 DEF RecordEvent, Goto, MakeEvent
  <2> DEFINE c == cur["cuda"]
             i == stream_idx[c]
  <2>4. i \in 0..(NumStreams - 1) /\ stream_idx[c] # NoStream
    <3>1. op[c] # "none"
      BY <1>0, <2>2, WorkerFacts DEF HeldProgress
    <3>2. stream_idx[c] # NoStream
      BY <1>0, <2>1, <3>1 DEF StreamsMatch
    <3> QED BY <1>t, <2>1, <3>2
  <2>5. Allocated \in Nat /\ Record(Allocated) \in Operation
    <3>1. Allocated \in Nat
      BY <1>0, AllocatedType
    <3> QED BY <3>1 DEF Record, Operation
  <2>6. /\ \A j \in 0..(NumStreams - 1) : \A a \in DOMAIN streams[j] :
             a \in DOMAIN streams'[j] /\ streams'[j][a] = streams[j][a] /\ a \in Nat
        /\ \A j \in 0..(NumStreams - 1) : \A a \in DOMAIN streams'[j] :
             \/ a \in DOMAIN streams[j] /\ streams'[j][a] = streams[j][a]
             \/ j = i /\ a = Len(streams[i]) + 1 /\ streams'[j][a] = Record(Allocated)
        /\ \E a \in DOMAIN streams'[i] :
             streams'[i][a] = Record(Allocated) /\ \A b \in DOMAIN streams[i] : b < a
    <3>1. streams' = [streams EXCEPT ![i] = Append(streams[i], Record(Allocated))]
      BY <2>2
    <3> HIDE DEF i, c
    <3> QED BY <1>0, <2>4, <2>5, <3>1, StreamAppend
  <2>7. c \in Task /\ Sched[c] = "cuda"
    BY <2>1
  <2> HIDE DEF i, c
  <2>9. \A t \in Task : stream_idx[t] # NoStream => stream_idx[t] \in 0..(NumStreams - 1)
    BY <1>t
  <2>10. ext[c] = "none" /\ op[c] # "none"
    BY <1>0, <2>2, WorkerFacts DEF HeldProgress, c
  <2>11. \A t \in Task : ext'[t] = IF t = c THEN "pending" ELSE ext[t]
    BY <1>t, <2>2, <2>7 DEF c
  <2> DEFINE entry == [event |-> Allocated, task |-> c]
  <2>12. /\ Len(cuda_events) \in Nat /\ DOMAIN cuda_events = 1..Len(cuda_events)
         /\ DOMAIN cuda_events' = 1..(Len(cuda_events) + 1)
         /\ \A n \in 1..(Len(cuda_events) + 1) :
              cuda_events'[n] = IF n = Len(cuda_events) + 1 THEN entry ELSE cuda_events[n]
    <3>1. entry \in [event : Nat, task : Task]
      BY <2>5, <2>7
    <3>2. cuda_events' = Append(cuda_events, entry)
      BY <2>2 DEF c
    <3>3. cuda_events \in Seq([event : Nat, task : Task])
      BY <1>0 DEF Types, CudaTypes
    <3> HIDE DEF entry
    <3> QED BY <3>1, <3>2, <3>3, AppendFacts
  <2>13. entry.event = Allocated /\ entry.task = c
    OBVIOUS
  <2> HIDE DEF entry
  <2>14. ASSUME NEW n \in DOMAIN cuda_events
         PROVE  LET t == cuda_events[n].task IN
                /\ Sched[t] = "cuda" /\ ext'[t] = "pending" /\ stream_idx[t] # NoStream /\ t # c
                /\ op[t] # "done" => \E a, b \in DOMAIN streams'[stream_idx[t]] :
                     /\ a < b
                     /\ streams'[stream_idx[t]][a] = Kernel(t)
                     /\ streams'[stream_idx[t]][b] = Record(cuda_events[n].event)
    <3> DEFINE t == cuda_events[n].task
    <3>1. /\ t \in Task /\ t # c /\ stream_idx[t] \in 0..(NumStreams - 1) /\ stream_idx[t] # NoStream
          /\ Sched[t] = "cuda" /\ ext[t] = "pending"
      <4>1. t \in Task
        BY <1>0, EntryTask
      <4>2. stream_idx[t] # NoStream /\ ext[t] = "pending" /\ Sched[t] = "cuda"
        BY <1>0 DEF RecordsBehind
      <4> QED BY <2>9, <2>10, <4>1, <4>2
    <3>2. ext'[t] = "pending"
      BY <2>11, <3>1
    <3>3. op[t] # "done" => \E a, b \in DOMAIN streams[stream_idx[t]] :
                     /\ a < b
                     /\ streams[stream_idx[t]][a] = Kernel(t)
                     /\ streams[stream_idx[t]][b] = Record(cuda_events[n].event)
      BY <1>0 DEF RecordsBehind
    <3> HIDE DEF t
    <3>4. op[t] # "done" => \E a, b \in DOMAIN streams'[stream_idx[t]] :
                     /\ a < b
                     /\ streams'[stream_idx[t]][a] = Kernel(t)
                     /\ streams'[stream_idx[t]][b] = Record(cuda_events[n].event)
      BY <2>6, <3>1, <3>3
    <3> QED BY <3>1, <3>2, <3>4 DEF t
  <2>15. op[c] # "done" => \E a, b \in DOMAIN streams'[stream_idx[c]] :
                     /\ a < b
                     /\ streams'[stream_idx[c]][a] = Kernel(c)
                     /\ streams'[stream_idx[c]][b] = Record(Allocated)
    <3>1. SUFFICES ASSUME op[c] # "done"
                   PROVE  \E a, b \in DOMAIN streams'[stream_idx[c]] :
                     /\ a < b
                     /\ streams'[stream_idx[c]][a] = Kernel(c)
                     /\ streams'[stream_idx[c]][b] = Record(Allocated)
      OBVIOUS
    <3>2. op[c] \in {"queued", "running"}
      BY <1>t, <2>7, <2>10, <3>1
    <3>3. PICK a \in DOMAIN streams[stream_idx[c]] : streams[stream_idx[c]][a] = Kernel(c)
      BY <1>0, <2>7, <3>2 DEF StreamsMatch
    <3>4. i = stream_idx[c]
      BY DEF i
    <3> QED BY <2>4, <2>6, <3>3, <3>4
  <2>16. ASSUME NEW n \in DOMAIN cuda_events'
         PROVE  /\ n = Len(cuda_events) + 1 => cuda_events'[n] = entry
                /\ n # Len(cuda_events) + 1 => cuda_events'[n] = cuda_events[n] /\ n \in DOMAIN cuda_events
    BY <2>12
  <2>17. \A n \in DOMAIN cuda_events' : LET t == cuda_events'[n].task IN
           /\ Sched[t] = "cuda" /\ ext'[t] = "pending" /\ stream_idx[t] # NoStream
           /\ op[t] # "done" => \E a, b \in DOMAIN streams'[stream_idx[t]] :
                /\ a < b
                /\ streams'[stream_idx[t]][a] = Kernel(t)
                /\ streams'[stream_idx[t]][b] = Record(cuda_events'[n].event)
    <3> SUFFICES ASSUME NEW n \in DOMAIN cuda_events'
                 PROVE  LET t == cuda_events'[n].task IN
           /\ Sched[t] = "cuda" /\ ext'[t] = "pending" /\ stream_idx[t] # NoStream
           /\ op[t] # "done" => \E a, b \in DOMAIN streams'[stream_idx[t]] :
                /\ a < b
                /\ streams'[stream_idx[t]][a] = Kernel(t)
                /\ streams'[stream_idx[t]][b] = Record(cuda_events'[n].event)
      OBVIOUS
    <3>1. CASE n = Len(cuda_events) + 1
      <4>1. cuda_events'[n].task = c /\ cuda_events'[n].event = Allocated
        BY <2>13, <2>16, <3>1
      <4>2. ext'[c] = "pending" /\ stream_idx[c] # NoStream /\ Sched[c] = "cuda"
        BY <2>4, <2>7, <2>11
      <4> QED BY <2>15, <4>1, <4>2
    <3>2. CASE n # Len(cuda_events) + 1
      BY <2>14, <2>16, <3>2
    <3> QED BY <3>1, <3>2
  <2>18. \A n, m \in DOMAIN cuda_events' : cuda_events'[m].task = cuda_events'[n].task => m = n
    <3> SUFFICES ASSUME NEW n \in DOMAIN cuda_events', NEW m \in DOMAIN cuda_events',
                        cuda_events'[m].task = cuda_events'[n].task
                 PROVE  m = n
      OBVIOUS
    <3>1. CASE n # Len(cuda_events) + 1 /\ m # Len(cuda_events) + 1
      BY <1>0, <2>16, <3>1 DEF RecordsBehind
    <3>2. CASE n = Len(cuda_events) + 1 /\ m # Len(cuda_events) + 1
      BY <2>13, <2>14, <2>16, <3>2
    <3>3. CASE n # Len(cuda_events) + 1 /\ m = Len(cuda_events) + 1
      BY <2>13, <2>14, <2>16, <3>3
    <3> QED BY <3>1, <3>2, <3>3
  <2>19. UNCHANGED <<stream_idx, op>>
    BY <2>2
  <2> QED BY <2>17, <2>18, <2>19 DEF RecordsBehind
<1>10. CASE CudaPoll
  <2>1. FrontPolled
    BY <1>0, <1>10, PolledTasks DEF CudaPoll, FrontDone
  <2>2. /\ pc["cuda"] = "poll" /\ FrontDone
        /\ ext' = [ext EXCEPT ![Front] = "reached"]
        /\ cuda_events' = Tail(cuda_events)
        /\ UNCHANGED <<streams, stream_idx, op>>
    BY <1>10 DEF CudaPoll, Goto, AfterPoll, TestStop
  <2> DEFINE c == Front
  <2>4. /\ DOMAIN cuda_events = 1..Len(cuda_events) /\ DOMAIN Tail(cuda_events) = 1..(Len(cuda_events) - 1)
        /\ Len(cuda_events) \in Nat /\ Len(cuda_events) > 0
        /\ \A n \in 1..(Len(cuda_events) - 1) : Tail(cuda_events)[n] = cuda_events[n + 1]
    BY <1>0, <2>1, HeadFacts DEF Types, CudaTypes
  <2>5. ASSUME NEW n \in DOMAIN cuda_events'
        PROVE  /\ n \in Nat /\ n + 1 \in DOMAIN cuda_events /\ cuda_events'[n] = cuda_events[n + 1]
               /\ cuda_events[n + 1].task # c /\ cuda_events[n + 1].task \in Task
    <3>1. n \in Nat /\ n + 1 \in DOMAIN cuda_events /\ cuda_events'[n] = cuda_events[n + 1]
          /\ n + 1 # 1 /\ 1 \in DOMAIN cuda_events
      BY <2>2, <2>4
    <3>2. cuda_events[n + 1].task # c
      BY <1>0, <2>1, <3>1 DEF RecordsBehind
    <3>3. cuda_events[n + 1].task \in Task
      BY <1>0, <3>1, EntryTask
    <3> QED BY <3>1, <3>2, <3>3
  <2>6. \A t \in Task : t # c => ext'[t] = ext[t]
    BY <1>t, <2>1, <2>2
  <2> HIDE DEF c
  <2>7. \A n, m \in DOMAIN cuda_events' : cuda_events'[m].task = cuda_events'[n].task => m = n
    <3> SUFFICES ASSUME NEW n \in DOMAIN cuda_events', NEW m \in DOMAIN cuda_events',
                        cuda_events'[m].task = cuda_events'[n].task
                 PROVE  m = n
      OBVIOUS
    <3>1. m + 1 = n + 1
      BY <1>0, <2>5 DEF RecordsBehind
    <3> QED BY <2>5, <3>1
  <2>8. UNCHANGED <<streams, stream_idx, op>>
    BY <2>2
  <2> QED BY <1>0, <2>5, <2>6, <2>7, <2>8 DEF RecordsBehind
<1>11. ASSUME NEW t \in Task, RequestCompletes(t) PROVE RecordsBehind'
  <2>2. /\ t \in Request /\ op[t] = "running"
        /\ op' = [op EXCEPT ![t] = "done"]
        /\ UNCHANGED <<streams, stream_idx, ext, cuda_events>>
    BY <1>11 DEF RequestCompletes
  <2>4. \A u \in Task : Sched[u] = "cuda" => u # t
    BY <2>2, DispatchAssumption
  <2>5. \A u \in Task : Sched[u] = "cuda" => op'[u] = op[u] /\ ext'[u] = ext[u]
    BY <1>t, <2>2, <2>4
  <2>6. \A n \in DOMAIN cuda_events : cuda_events[n].task \in Task
    BY <1>0, EntryTask
  <2> QED BY <1>0, <2>2, <2>5, <2>6 DEF RecordsBehind
<1>12. ASSUME NEW i \in DOMAIN streams, StreamStep(i) PROVE RecordsBehind'
  <2>1. /\ i \in 0..(NumStreams - 1) /\ streams[i] \in Seq(Operation) /\ streams[i] # <<>>
        /\ \/ /\ streams' = [streams EXCEPT ![i] = Tail(streams[i])] /\ op' = op
              /\ streams[i][1].kind = "record"
           \/ \E k \in Task :
                /\ streams[i][1] = Kernel(k) /\ stream_idx[k] # NoStream /\ Sched[k] = "cuda" /\ op[k] # "none"
                /\ \/ op[k] = "queued" /\ op' = [op EXCEPT ![k] = "running"] /\ streams' = streams
                   \/ op[k] # "queued" /\ op' = [op EXCEPT ![k] = "done"]
                      /\ streams' = [streams EXCEPT ![i] = Tail(streams[i])]
    BY <1>0, <1>12, StreamEffect
  <2>2. UNCHANGED <<stream_idx, ext, cuda_events>>
    BY <1>12 DEF StreamStep
  <2>3. ASSUME NEW k \in Task, op[k] = "queued", op' = [op EXCEPT ![k] = "running"], streams' = streams
        PROVE  RecordsBehind'
    <3>1. \A t \in Task : (op'[t] # op[t] => op[t] = "queued" /\ op'[t] = "running")
      BY <1>t, <2>3
    <3>2. \A n \in DOMAIN cuda_events : cuda_events[n].task \in Task
      BY <1>0, EntryTask
    <3> QED BY <1>0, <2>2, <2>3, <3>1, <3>2 DEF RecordsBehind
  <2>4. ASSUME streams' = [streams EXCEPT ![i] = Tail(streams[i])],
               \A t \in Task : op'[t] = op[t] \/ (op[t] # "none" /\ op'[t] = "done"),
               \A t \in Task : streams[i][1] = Kernel(t) => op'[t] = "done"
        PROVE  RecordsBehind'
    <3>1. /\ \A j \in 0..(NumStreams - 1) : j # i => streams'[j] = streams[j]
          /\ \A a \in DOMAIN streams'[i] : a + 1 \in DOMAIN streams[i] /\ streams'[i][a] = streams[i][a + 1]
          /\ \A a \in DOMAIN streams[i] :
               /\ a \in Nat
               /\ a # 1 => a - 1 \in DOMAIN streams'[i] /\ streams'[i][a - 1] = streams[i][a]
      BY <1>0, <2>1, <2>4, StreamTail
    <3>2. ASSUME NEW n \in DOMAIN cuda_events, op'[cuda_events[n].task] # "done"
          PROVE  LET t == cuda_events[n].task IN
                 \E a, b \in DOMAIN streams'[stream_idx[t]] :
                   /\ a < b
                   /\ streams'[stream_idx[t]][a] = Kernel(t)
                   /\ streams'[stream_idx[t]][b] = Record(cuda_events[n].event)
      <4> DEFINE t == cuda_events[n].task
      <4>1. t \in Task
        BY <1>0, EntryTask
      <4>2. op[t] # "done" /\ streams[i][1] # Kernel(t)
        BY <2>4, <3>2, <4>1
      <4>3. PICK a, b \in DOMAIN streams[stream_idx[t]] :
              /\ a < b
              /\ streams[stream_idx[t]][a] = Kernel(t)
              /\ streams[stream_idx[t]][b] = Record(cuda_events[n].event)
        BY <1>0, <4>2 DEF RecordsBehind
      <4>4. stream_idx[t] # NoStream
        BY <1>0 DEF RecordsBehind
      <4> HIDE DEF t
      <4>5. stream_idx[t] \in 0..(NumStreams - 1)
        BY <1>t, <4>1, <4>4
      <4>6. CASE stream_idx[t] = i
        <5>1. a # 1 /\ a \in Nat /\ b \in Nat
          <6>1. a \in Nat /\ b \in Nat
            BY <3>1, <4>3, <4>6
          <6> QED BY <4>2, <4>3, <4>6, <6>1
        <5>2. b # 1 /\ a - 1 < b - 1
          <6>1. a \in 1..Len(streams[i])
            BY <2>1, <4>3, <4>6
          <6> QED BY <4>3, <5>1, <6>1
        <5> QED BY <3>1, <4>3, <4>6, <5>1, <5>2 DEF t
      <4>7. CASE stream_idx[t] # i
        BY <3>1, <4>3, <4>5, <4>7 DEF t
      <4> QED BY <4>6, <4>7
    <3> QED BY <1>0, <2>2, <3>2 DEF RecordsBehind
  <2>5. CASE op' = op /\ streams' = [streams EXCEPT ![i] = Tail(streams[i])] /\ streams[i][1].kind = "record"
    <3>1. \A t \in Task : streams[i][1] # Kernel(t)
      BY <2>5 DEF Kernel
    <3> QED BY <2>4, <2>5, <3>1
  <2>6. ASSUME NEW k \in Task, streams[i][1] = Kernel(k), op[k] # "none", op' = [op EXCEPT ![k] = "done"],
               streams' = [streams EXCEPT ![i] = Tail(streams[i])]
        PROVE  RecordsBehind'
    <3>1. \A t \in Task : Kernel(t) = Kernel(k) => t = k
      BY DEF Kernel
    <3>2. \A t \in Task : op'[t] = IF t = k THEN "done" ELSE op[t]
      BY <1>t, <2>6
    <3> QED BY <2>4, <2>6, <3>1, <3>2
  <2> QED BY <2>1, <2>3, <2>5, <2>6
<1> QED BY <1>2, <1>3, <1>4, <1>5, <1>6, <1>7, <1>8, <1>9, <1>10, <1>11, <1>12
  DEF Next, WorkerStep, MpiStep, CudaStep, MainStep, Ended

-----------------------------------------------------------------------------
(***************************************************************************)
(* RequestPool: the vectors and the answer of MPI_Testsome stay aligned.   *)
(***************************************************************************)
LEMMA PoolKept ==
  ASSUME Types, PoolAligned,
         UNCHANGED <<requests, events, statuses, mutex, indices, slot, out_statuses>>,
         pc'["mpi"] \in PollPC <=> pc["mpi"] \in PollPC,
         pc'["mpi"] \in {"resume", "erase"} <=> pc["mpi"] \in {"resume", "erase"},
         pc'["mpi"] = "push" => \A n \in 1..Len(requests) : requests[n] # cur'["mpi"],
         \A n \in 1..Len(requests) : ext'[requests[n]] = ext[requests[n]],
         pc["mpi"] \in PollPC => \A t \in Request : op[t] = "done" => op'[t] = "done"
  PROVE  PoolAligned'
<1>1. \A n \in 1..Len(requests) : requests[n] \in Request
  BY DEF PoolAligned
<1>2. pc["mpi"] \in PollPC => \A j \in slot..Len(indices) : op'[out_statuses[j]] = "done"
  BY <1>1 DEF PoolAligned
<1> QED BY <1>1, <1>2 DEF PoolAligned

\* Everything but a step of the MPI worker in poll: what such a step has to keep.
LEMMA PoolOthers ==
  ASSUME Types, PoolAligned, WorkersMatch, NEW w \in Worker,
         UNCHANGED <<requests, events, statuses, mutex, indices, slot, out_statuses>>,
         pc[w] \notin PollPC, pc'[w] \notin PollPC, \A v \in Worker : v # w => pc'[v] = pc[v],
         w = "mpi" => pc'[w] # "push",
         \A v \in Worker : v # w => cur'[v] = cur[v],
         \A n \in 1..Len(requests) : ext'[requests[n]] = ext[requests[n]],
         \A t \in Request : op[t] = "done" => op'[t] = "done"
  PROVE  PoolAligned'
<1>1. w = "mpi" => /\ pc'["mpi"] \notin PollPC /\ pc["mpi"] \notin PollPC /\ pc'["mpi"] # "push"
  OBVIOUS
<1>2. w # "mpi" => pc'["mpi"] = pc["mpi"] /\ cur'["mpi"] = cur["mpi"]
  BY WorkerFacts
<1>3. pc["mpi"] = "push" => \A n \in 1..Len(requests) : requests[n] # cur["mpi"]
  BY DEF PoolAligned
<1>4. /\ pc'["mpi"] \in PollPC <=> pc["mpi"] \in PollPC
      /\ pc'["mpi"] \in {"resume", "erase"} <=> pc["mpi"] \in {"resume", "erase"}
      /\ pc'["mpi"] = "push" => \A n \in 1..Len(requests) : requests[n] # cur'["mpi"]
  BY <1>1, <1>2, <1>3 DEF PollPC
<1> QED BY <1>4, PoolKept

LEMMA PoolAlignedStep ==
  ASSUME Hypotheses, IInv, [Next]_vars
  PROVE  PoolAligned'
<1>0. Parts
  BY DEF Hypotheses, IInv
<1>t. Ranges
  BY <1>0 DEF Types, CountTypes, EventTypes, WorkTypes, CudaTypes
<1>1. CASE UNCHANGED <<cur, events, ext, indices, mutex, op, out_statuses, pc, requests, slot, statuses>>
  BY <1>0, <1>1, <1>t DEF PoolAligned
<1>2. CASE UNCHANGED vars
  BY <1>1, <1>2 DEF vars
<1>3. ASSUME \/ Emplace \/ EndOfProgram \/ EnterWaker \/ TestResult \/ Idle \/ TakeResult
             \/ Barrier \/ Stop \/ Join
      PROVE  PoolAligned'
  BY <1>1, <1>3
  DEF Emplace, EndOfProgram, EnterWaker, TestResult, Idle, TakeResult, Barrier, Stop, Join,
      MainGoto, OnlyMain
<1>4. ASSUME NEW w \in Worker, NEW t \in Task, GatherReady(w, t) PROVE PoolAligned'
  <2>2. /\ pc[w] = "gather" /\ Sched[t] = SchedOf(w) /\ ready[t] > 0
        /\ pc' = [pc EXCEPT ![w] = "execute"]
        /\ cur' = [cur EXCEPT ![w] = t]
        /\ UNCHANGED <<requests, events, statuses, mutex, ext, op, indices, slot, out_statuses>>
    BY <1>4 DEF GatherReady, Goto, Mine
  <2>10. /\ pc[w] \notin PollPC /\ pc'[w] \notin PollPC /\ pc'[w] # "push"
         /\ \A v \in Worker : v # w => pc'[v] = pc[v] /\ cur'[v] = cur[v]
    BY <1>t, <2>2, WorkerFacts DEF PollPC
  <2> QED BY <1>0, <2>2, <2>10, PoolOthers, WorkerFacts
<1>5. ASSUME NEW w \in Worker, NEW t \in Task, InitDependencies(w, t) PROVE PoolAligned'
  <2>1. /\ pc[w] = "gather"
        /\ pc' = pc \/ pc' = [pc EXCEPT ![w] = "execute"]
        /\ cur' = cur \/ cur' = [cur EXCEPT ![w] = t]
    BY <1>5 DEF InitDependencies, Goto
  <2>2. UNCHANGED <<requests, events, statuses, mutex, indices, slot, out_statuses, ext, op>>
    BY <1>5 DEF InitDependencies
  <2>3. /\ pc[w] \notin PollPC /\ pc'[w] \notin PollPC /\ pc'[w] # "push"
        /\ \A v \in Worker : v # w => pc'[v] = pc[v] /\ cur'[v] = cur[v]
    BY <1>t, <2>1 DEF PollPC
  <2> QED BY <1>0, <2>2, <2>3, PoolOthers
<1>6. ASSUME NEW w \in Worker, GatherNothing(w) PROVE PoolAligned'
  <2>2. /\ pc[w] = "gather"
        /\ \E p \in {"gather", "stopped", "poll"} :
             (p = "poll" => w \notin PoolWorker) /\ pc' = [pc EXCEPT ![w] = p]
        /\ UNCHANGED <<requests, events, statuses, mutex, cur, ext, op, indices, slot, out_statuses>>
    BY <1>6 DEF GatherNothing, Goto, TestStop
  <2>10. /\ pc[w] \notin PollPC /\ pc'[w] \notin PollPC /\ pc'[w] # "push"
         /\ \A v \in Worker : v # w => pc'[v] = pc[v] /\ cur'[v] = cur[v]
    BY <1>t, <2>2, WorkerFacts DEF PollPC
  <2> QED BY <1>0, <2>2, <2>10, PoolOthers, WorkerFacts
<1>7. ASSUME NEW w \in Worker, Execute(w) PROVE PoolAligned'
  <2>1. HasTask(w)
    BY <1>0, <1>7, HeldFacts DEF Execute, TaskPC
  <2>2. /\ pc[w] = "execute"
        /\ pc' = [pc EXCEPT ![w] = IF ext[cur[w]] = "none" THEN "body" ELSE "check"]
        /\ UNCHANGED <<requests, events, statuses, mutex, cur, ext, op, indices, slot, out_statuses>>
    BY <1>7 DEF Execute, Goto
  <2>10. /\ pc[w] \notin PollPC /\ pc'[w] \notin PollPC /\ pc'[w] # "push"
         /\ \A v \in Worker : v # w => pc'[v] = pc[v] /\ cur'[v] = cur[v]
    BY <1>t, <2>2, WorkerFacts DEF PollPC
  <2> QED BY <1>0, <2>2, <2>10, PoolOthers, WorkerFacts
<1>8. ASSUME NEW w \in Worker, Compute(w) PROVE PoolAligned'
  <2>1. HasTask(w)
    BY <1>0, <1>8, HeldFacts DEF Compute, TaskPC
  <2>2. /\ pc[w] = "body" /\ w # "cuda" /\ cur[w] \notin Request
        /\ pc' = (IF op[cur[w]] = "running" THEN [pc EXCEPT ![w] = "result"] ELSE pc)
        /\ op' = [op EXCEPT ![cur[w]] = IF op[cur[w]] = "running" THEN "done" ELSE "running"]
        /\ UNCHANGED <<requests, events, statuses, mutex, cur, ext, indices, slot, out_statuses>>
    BY <1>8 DEF Compute, Goto
  <2>10. /\ pc[w] \notin PollPC /\ pc'[w] \notin PollPC /\ pc'[w] # "push"
         /\ \A v \in Worker : v # w => pc'[v] = pc[v] /\ cur'[v] = cur[v]
    BY <1>t, <2>2, WorkerFacts DEF PollPC
  <2>12. \A r \in Request : op[r] = "done" => op'[r] = "done"
    BY <1>t, <2>1, <2>2, DispatchAssumption
  <2> QED BY <1>0, <2>2, <2>10, <2>12, PoolOthers, WorkerFacts
<1>9. ASSUME NEW w \in Worker, GetStatus(w) PROVE PoolAligned'
  <2>1. HasTask(w)
    BY <1>0, <1>9, HeldFacts DEF GetStatus, TaskPC
  <2>2. /\ pc[w] = "body" /\ cur[w] \in Request
        /\ pc' = [pc EXCEPT ![w] = "push"]
        /\ ext' = [ext EXCEPT ![cur[w]] = "pending"]
        /\ op' = [op EXCEPT ![cur[w]] = "running"]
        /\ UNCHANGED <<requests, events, statuses, mutex, cur, indices, slot, out_statuses>>
    BY <1>9 DEF GetStatus, Goto, MakeEvent
  <2>4. w = "mpi" /\ pc["mpi"] = "body" /\ pc'["mpi"] = "push" /\ ext[cur["mpi"]] = "none"
    BY <1>0, <1>t, <2>1, <2>2 DEF HeldProgress
  <2>5. \A n \in 1..Len(requests) : requests[n] \in Task /\ requests[n] # cur["mpi"]
    BY <1>0, <2>4, DispatchAssumption DEF PoolAligned
  <2>6. \A n \in 1..Len(requests) : ext'[requests[n]] = ext[requests[n]]
    BY <1>t, <2>1, <2>2, <2>4, <2>5
  <2> QED BY <1>0, <2>2, <2>4, <2>5, <2>6, PoolKept DEF PollPC
<1>10. ASSUME NEW w \in Worker, PushRequest(w) PROVE PoolAligned'
  <2>1. HasTask(w)
    BY <1>0, <1>10, HeldFacts DEF PushRequest, TaskPC
  <2>2. /\ pc[w] = "push" /\ mutex = "free"
        /\ requests' = Append(requests, cur[w])
        /\ events' = Append(events, cur[w])
        /\ statuses' = Append(statuses, cur[w])
        /\ pc' = [pc EXCEPT ![w] = "check"]
        /\ UNCHANGED <<mutex, cur, ext, op, indices, slot, out_statuses>>
    BY <1>10 DEF PushRequest, Goto
  <2>4. /\ w = "mpi" /\ pc["mpi"] = "push" /\ pc'["mpi"] = "check" /\ cur["mpi"] \in Request
        /\ ext[cur["mpi"]] = "pending"
    BY <1>0, <1>t, <2>1, <2>2 DEF HeldProgress, WorkersMatch, PausePC
  <2> DEFINE N == Len(requests)
  <2>5. /\ N \in Nat /\ Len(requests') = N + 1 /\ requests' = events' /\ events' = statuses'
        /\ \A n \in 1..(N + 1) : requests'[n] = IF n = N + 1 THEN cur["mpi"] ELSE requests[n]
    <3>1. requests \in Seq(Task) /\ cur["mpi"] \in Task /\ requests = events /\ events = statuses
      BY <1>0, <2>1, <2>4 DEF Types, PoolTypes, PoolAligned
    <3>2. requests' = Append(requests, cur["mpi"]) /\ requests' = events' /\ events' = statuses'
      BY <2>2, <2>4, <3>1
    <3> QED BY <3>1, <3>2, AppendFacts
  <2> HIDE DEF N
  <2>6. /\ \A n \in 1..N : /\ requests[n] \in Request /\ ext[requests[n]] = "pending" /\ requests[n] # cur["mpi"]
                          /\ \A m \in 1..N : requests[m] = requests[n] => m = n
        /\ mutex = "free"
    BY <1>0, <2>4 DEF PoolAligned, PollPC, N
  <2>7. \A n \in 1..(N + 1) : /\ requests'[n] \in Request /\ ext[requests'[n]] = "pending"
                             /\ \A m \in 1..(N + 1) : requests'[m] = requests'[n] => m = n
    <3> SUFFICES ASSUME NEW n \in 1..(N + 1)
                 PROVE  /\ requests'[n] \in Request /\ ext[requests'[n]] = "pending"
                        /\ \A m \in 1..(N + 1) : requests'[m] = requests'[n] => m = n
      OBVIOUS
    <3>1. \A m \in 1..(N + 1) : m = N + 1 \/ m \in 1..N
      BY <2>5
    <3> QED BY <2>4, <2>5, <2>6, <3>1
  <2> QED BY <2>2, <2>4, <2>5, <2>6, <2>7 DEF PoolAligned, PollPC
<1>11. ASSUME NEW w \in Worker, Yield(w) PROVE PoolAligned'
  <2>1. HasTask(w)
    BY <1>0, <1>11, HeldFacts DEF Yield, TaskPC
  <2>2. /\ pc[w] = "check"
        /\ pc' = [pc EXCEPT ![w] = IF ext[cur[w]] = "reached" THEN "result" ELSE "reset"]
        /\ UNCHANGED <<requests, events, statuses, mutex, cur, ext, op, indices, slot, out_statuses>>
    BY <1>11 DEF Yield, Goto
  <2>10. /\ pc[w] \notin PollPC /\ pc'[w] \notin PollPC /\ pc'[w] # "push"
         /\ \A v \in Worker : v # w => pc'[v] = pc[v] /\ cur'[v] = cur[v]
    BY <1>t, <2>2, WorkerFacts DEF PollPC
  <2> QED BY <1>0, <2>2, <2>10, PoolOthers, WorkerFacts
<1>12. ASSUME NEW w \in Worker, PauseReset(w) PROVE PoolAligned'
  <2>1. HasTask(w)
    BY <1>0, <1>12, HeldFacts DEF PauseReset, TaskPC
  <2>2. /\ pc[w] = "reset"
        /\ pc' = [pc EXCEPT ![w] = "follow"]
        /\ UNCHANGED <<requests, events, statuses, mutex, cur, ext, op, indices, slot, out_statuses>>
    BY <1>12 DEF PauseReset, Goto
  <2>10. /\ pc[w] \notin PollPC /\ pc'[w] \notin PollPC /\ pc'[w] # "push"
         /\ \A v \in Worker : v # w => pc'[v] = pc[v] /\ cur'[v] = cur[v]
    BY <1>t, <2>2, WorkerFacts DEF PollPC
  <2> QED BY <1>0, <2>2, <2>10, PoolOthers, WorkerFacts
<1>13. ASSUME NEW w \in Worker, PauseFollow(w) PROVE PoolAligned'
  <2>1. HasTask(w)
    BY <1>0, <1>13, HeldFacts DEF PauseFollow, TaskPC
  <2>2. /\ pc[w] = "follow"
        /\ pc' = [pc EXCEPT ![w] = IF ext[cur[w]] = "reached" THEN "up" ELSE "append"]
        /\ UNCHANGED <<requests, events, statuses, mutex, cur, ext, op, indices, slot, out_statuses>>
    BY <1>13 DEF PauseFollow, Goto
  <2>10. /\ pc[w] \notin PollPC /\ pc'[w] \notin PollPC /\ pc'[w] # "push"
         /\ \A v \in Worker : v # w => pc'[v] = pc[v] /\ cur'[v] = cur[v]
    BY <1>t, <2>2, WorkerFacts DEF PollPC
  <2> QED BY <1>0, <2>2, <2>10, PoolOthers, WorkerFacts
<1>14. ASSUME NEW w \in Worker, PauseAppend(w) PROVE PoolAligned'
  <2>1. HasTask(w)
    BY <1>0, <1>14, HeldFacts DEF PauseAppend, TaskPC
  <2>2. /\ pc[w] = "append"
        /\ pc' = [pc EXCEPT ![w] = "count"]
        /\ UNCHANGED <<requests, events, statuses, mutex, cur, ext, op, indices, slot, out_statuses>>
    BY <1>14 DEF PauseAppend, Goto
  <2>10. /\ pc[w] \notin PollPC /\ pc'[w] \notin PollPC /\ pc'[w] # "push"
         /\ \A v \in Worker : v # w => pc'[v] = pc[v] /\ cur'[v] = cur[v]
    BY <1>t, <2>2, WorkerFacts DEF PollPC
  <2> QED BY <1>0, <2>2, <2>10, PoolOthers, WorkerFacts
<1>15. ASSUME NEW w \in Worker, PauseCount(w) PROVE PoolAligned'
  <2>1. HasTask(w)
    BY <1>0, <1>15, HeldFacts DEF PauseCount, TaskPC
  <2>2. /\ pc[w] = "count"
        /\ pc' = [pc EXCEPT ![w] = "up"]
        /\ UNCHANGED <<requests, events, statuses, mutex, cur, ext, op, indices, slot, out_statuses>>
    BY <1>15 DEF PauseCount, Goto
  <2>10. /\ pc[w] \notin PollPC /\ pc'[w] \notin PollPC /\ pc'[w] # "push"
         /\ \A v \in Worker : v # w => pc'[v] = pc[v] /\ cur'[v] = cur[v]
    BY <1>t, <2>2, WorkerFacts DEF PollPC
  <2> QED BY <1>0, <2>2, <2>10, PoolOthers, WorkerFacts
<1>16. ASSUME NEW w \in Worker, PauseUp(w) PROVE PoolAligned'
  <2>1. HasTask(w)
    BY <1>0, <1>16, HeldFacts DEF PauseUp, TaskPC
  <2>2. /\ pc[w] = "up"
        /\ pc' = [pc EXCEPT ![w] = "notify"]
        /\ UNCHANGED <<requests, events, statuses, mutex, cur, ext, op, indices, slot, out_statuses>>
    BY <1>16 DEF PauseUp, Goto
  <2>10. /\ pc[w] \notin PollPC /\ pc'[w] \notin PollPC /\ pc'[w] # "push"
         /\ \A v \in Worker : v # w => pc'[v] = pc[v] /\ cur'[v] = cur[v]
    BY <1>t, <2>2, WorkerFacts DEF PollPC
  <2> QED BY <1>0, <2>2, <2>10, PoolOthers, WorkerFacts
<1>17. ASSUME NEW w \in Worker, PauseNotify(w) PROVE PoolAligned'
  <2>1. HasTask(w)
    BY <1>0, <1>17, HeldFacts DEF PauseNotify, TaskPC
  <2>2. /\ pc[w] = "notify"
        /\ pc' = [pc EXCEPT ![w] = IF w \in PoolWorker THEN "gather" ELSE "poll"]
        /\ cur' = [cur EXCEPT ![w] = NoTask]
        /\ UNCHANGED <<requests, events, statuses, mutex, ext, op, indices, slot, out_statuses>>
    BY <1>17 DEF PauseNotify, Goto, AfterTask
  <2>10. /\ pc[w] \notin PollPC /\ pc'[w] \notin PollPC /\ pc'[w] # "push"
         /\ \A v \in Worker : v # w => pc'[v] = pc[v] /\ cur'[v] = cur[v]
    BY <1>t, <2>2, WorkerFacts DEF PollPC
  <2> QED BY <1>0, <2>2, <2>10, PoolOthers, WorkerFacts
<1>18. ASSUME NEW w \in Worker, SetResult(w) PROVE PoolAligned'
  <2>1. HasTask(w)
    BY <1>0, <1>18, HeldFacts DEF SetResult, TaskPC
  <2>2. /\ pc[w] = "result"
        /\ pc' = [pc EXCEPT ![w] = "wake"]
        /\ UNCHANGED <<requests, events, statuses, mutex, cur, ext, op, indices, slot, out_statuses>>
    BY <1>18 DEF SetResult, Goto
  <2>10. /\ pc[w] \notin PollPC /\ pc'[w] \notin PollPC /\ pc'[w] # "push"
         /\ \A v \in Worker : v # w => pc'[v] = pc[v] /\ cur'[v] = cur[v]
    BY <1>t, <2>2, WorkerFacts DEF PollPC
  <2> QED BY <1>0, <2>2, <2>10, PoolOthers, WorkerFacts
<1>19. ASSUME NEW w \in Worker, WakeMain(w) PROVE PoolAligned'
  <2>1. HasTask(w)
    BY <1>0, <1>19, HeldFacts DEF WakeMain, TaskPC
  <2>2. /\ pc[w] = "wake"
        /\ pc' = [pc EXCEPT ![w] = IF w = "cuda" THEN "record" ELSE "post"]
        /\ UNCHANGED <<requests, events, statuses, mutex, cur, ext, op, indices, slot, out_statuses>>
    BY <1>19 DEF WakeMain, Goto
  <2>10. /\ pc[w] \notin PollPC /\ pc'[w] \notin PollPC /\ pc'[w] # "push"
         /\ \A v \in Worker : v # w => pc'[v] = pc[v] /\ cur'[v] = cur[v]
    BY <1>t, <2>2, WorkerFacts DEF PollPC
  <2> QED BY <1>0, <2>2, <2>10, PoolOthers, WorkerFacts
<1>20. ASSUME NEW w \in Worker, FinishTask(w) PROVE PoolAligned'
  <2>1. HasTask(w)
    BY <1>0, <1>20, HeldFacts DEF FinishTask, TaskPC
  <2>2. /\ pc[w] = "post"
        /\ pc' = [pc EXCEPT ![w] = IF w \in PoolWorker THEN "gather" ELSE "poll"]
        /\ cur' = [cur EXCEPT ![w] = NoTask]
        /\ UNCHANGED <<requests, events, statuses, mutex, ext, op, indices, slot, out_statuses>>
    BY <1>20 DEF FinishTask, Goto, AfterTask
  <2>10. /\ pc[w] \notin PollPC /\ pc'[w] \notin PollPC /\ pc'[w] # "push"
         /\ \A v \in Worker : v # w => pc'[v] = pc[v] /\ cur'[v] = cur[v]
    BY <1>t, <2>2, WorkerFacts DEF PollPC
  <2> QED BY <1>0, <2>2, <2>10, PoolOthers, WorkerFacts
<1>21. CASE PollNothing
  <2>2. /\ pc["mpi"] = "poll"
        /\ \E p \in {"gather", "stopped"} : pc' = [pc EXCEPT !["mpi"] = p]
        /\ UNCHANGED <<requests, events, statuses, mutex, cur, ext, op, indices, slot, out_statuses>>
    BY <1>21 DEF PollNothing, Goto, AfterPoll, TestStop
  <2>10. /\ pc["mpi"] \notin PollPC /\ pc'["mpi"] \notin PollPC /\ pc'["mpi"] # "push"
         /\ \A v \in Worker : v # "mpi" => pc'[v] = pc[v] /\ cur'[v] = cur[v]
    BY <1>t, <2>2, WorkerFacts DEF PollPC
  <2> QED BY <1>0, <2>2, <2>10, PoolOthers, WorkerFacts
<1>22. CASE Poll
  <2>2. /\ pc["mpi"] = "poll" /\ mutex = "free"
        /\ mutex' = "mpi"
        /\ pc' = [pc EXCEPT !["mpi"] = "status"]
        /\ \E s \in Testsome : indices' = s /\ out_statuses' = [i \in DOMAIN s |-> requests[s[i]]]
        /\ slot' = 1
        /\ UNCHANGED <<requests, events, statuses, cur, ext, op>>
    BY <1>22 DEF Poll, Goto
  <2>4. PICK s \in Testsome : indices' = s /\ out_statuses' = [i \in DOMAIN s |-> requests[s[i]]]
    BY <2>2
  <2>5. /\ Len(s) \in Nat /\ Len(s) >= 1 /\ DOMAIN s = 1..Len(s)
        /\ \A j \in 1..Len(s) : s[j] \in 1..Len(requests) /\ op[requests[s[j]]] = "done"
        /\ \A j, k \in 1..Len(s) : s[j] = s[k] => j = k
        /\ Len(out_statuses') = Len(s)
    BY <1>0, <2>4, PollFacts
  <2>6. \A j \in 1..Len(s) : out_statuses'[j] = requests[s[j]]
    BY <2>4, <2>5
  <2>7. pc'["mpi"] = "status" /\ slot' = 1 /\ mutex' = "mpi"
    BY <1>t, <2>2, WorkerFacts
  <2>8. \A n \in 1..Len(requests) : requests[n] \in Request /\ ext[requests[n]] = "pending"
                                   /\ \A m \in 1..Len(requests) : requests[m] = requests[n] => m = n
    BY <1>0, <2>2 DEF PoolAligned
  <2>9. requests = events /\ events = statuses
    BY <1>0 DEF PoolAligned
  <2>10. \A j \in slot'..Len(indices') :
            /\ indices'[j] \in 1..Len(requests)
            /\ requests[indices'[j]] = out_statuses'[j]
            /\ op[out_statuses'[j]] = "done"
            /\ \A k \in slot'..Len(indices') : indices'[k] = indices'[j] => k = j
    BY <2>4, <2>5, <2>6, <2>7
  <2>11. slot' \in 1..Len(indices') /\ Len(out_statuses') = Len(indices')
    BY <2>4, <2>5, <2>7
  <2>12. UNCHANGED <<requests, events, statuses, cur, ext, op>>
    BY <2>2
  <2> QED BY <2>7, <2>8, <2>9, <2>10, <2>11, <2>12 DEF PoolAligned, PollPC
<1>23. CASE PollStatus
  <2>1. Polled
    BY <1>0, <1>23, PolledTasks DEF PollStatus, PollPC
  <2>2. /\ pc["mpi"] = "status"
        /\ pc' = [pc EXCEPT !["mpi"] = IF paused[Current] THEN "resume" ELSE "erase"]
        /\ ext' = [ext EXCEPT ![Current] = "reached"]
        /\ UNCHANGED <<requests, events, statuses, mutex, cur, op, indices, slot, out_statuses>>
    BY <1>23 DEF PollStatus, Goto, OutStatus, Current
  <2>4. pc'["mpi"] \in {"resume", "erase"}
    BY <1>t, <2>2, WorkerFacts
  <2>5. \A n \in 1..Len(requests) : /\ requests[n] \in Request /\ requests[n] \in Task
                                   /\ ext[requests[n]] = "pending"
                                   /\ \A m \in 1..Len(requests) : requests[m] = requests[n] => m = n
    BY <1>0, <2>2, DispatchAssumption DEF PoolAligned
  <2>6. \A n \in 1..Len(requests) : ext'[requests[n]] = IF n = indices[slot] THEN "reached" ELSE "pending"
    BY <1>t, <2>1, <2>2, <2>5 DEF Current
  <2> QED BY <1>0, <2>2, <2>4, <2>5, <2>6 DEF PoolAligned, PollPC
<1>24. CASE PollResume
  <2>1. Polled
    BY <1>0, <1>24, PolledTasks DEF PollResume, PollPC
  <2>2. /\ pc["mpi"] = "resume"
        /\ pc' = [pc EXCEPT !["mpi"] = "erase"]
        /\ UNCHANGED <<requests, events, statuses, mutex, cur, ext, op, indices, slot, out_statuses>>
    BY <1>24 DEF PollResume, Goto
  <2>10. pc'["mpi"] = "erase"
    BY <1>t, <2>2, WorkerFacts
  <2> QED BY <1>0, <2>2, <2>10, PoolKept DEF PollPC
<1>25. CASE PollErase
  <2>1. Polled
    BY <1>0, <1>25, PolledTasks DEF PollErase, PollPC
  <2>2. /\ pc["mpi"] = "erase"
        /\ requests' = Erase(requests, indices[slot])
        /\ events' = Erase(events, indices[slot])
        /\ statuses' = Erase(statuses, indices[slot])
        /\ mutex' = (IF slot = Len(indices) THEN "free" ELSE mutex)
        /\ \E p \in (IF slot = Len(indices) THEN {"gather", "stopped"} ELSE {"status"}) :
             pc' = [pc EXCEPT !["mpi"] = p]
        /\ indices' = (IF slot = Len(indices) THEN <<>> ELSE Shift(indices[slot]))
        /\ slot' = (IF slot = Len(indices) THEN 1 ELSE slot + 1)
        /\ out_statuses' = (IF slot = Len(indices) THEN <<>> ELSE out_statuses)
        /\ UNCHANGED <<cur, ext, op>>
    BY <1>25 DEF PollErase, Goto, AfterPoll, TestStop, Current
  <2> DEFINE i == indices[slot]
             N == Len(requests)
             L == Len(indices)
  <2>4. /\ requests \in Seq(Task) /\ N \in Nat /\ i \in 1..N /\ i \in Nat /\ L \in Nat /\ slot \in 1..L
        /\ requests = events /\ events = statuses /\ DOMAIN indices = 1..L
    BY <1>0, <2>1, <2>2 DEF Types, PoolTypes, PoolAligned, PollPC
  <2>5. /\ Len(Erase(requests, i)) = N - 1
        /\ \A j \in 1..(N - 1) : Erase(requests, i)[j] = IF j < i THEN requests[j] ELSE requests[j + 1]
    BY <2>4, EraseFacts
  <2>6. requests' = Erase(requests, i) /\ requests' = events' /\ events' = statuses'
    BY Zenon, <2>2, <2>4
  <2>7. \A n \in 1..N : /\ requests[n] \in Request
                        /\ ext[requests[n]] = (IF n = i THEN "reached" ELSE "pending")
                        /\ \A m \in 1..N : requests[m] = requests[n] => m = n
    <3>1. pc["mpi"] \in {"resume", "erase"}
      BY <2>2
    <3>2. \A n \in 1..Len(requests) :
            /\ requests[n] \in Request
            /\ ext[requests[n]] = (IF pc["mpi"] \in {"resume", "erase"} /\ n = indices[slot]
                                     THEN "reached" ELSE "pending")
            /\ \A m \in 1..Len(requests) : requests[m] = requests[n] => m = n
      BY <1>0 DEF PoolAligned
    <3>3. \A n \in 1..Len(requests) : ext[requests[n]] = IF n = indices[slot] THEN "reached" ELSE "pending"
      BY <3>1, <3>2
    <3> QED BY <3>2, <3>3
  <2> DEFINE up(n) == IF n < i THEN n ELSE n + 1
  <2>8. \A n \in 1..(N - 1) : up(n) \in 1..N /\ up(n) # i /\ requests'[n] = requests[up(n)]
    <3> TAKE n \in 1..(N - 1)
    <3>1. up(n) \in 1..N /\ up(n) # i
      BY <2>4
    <3> QED BY <2>5, <2>6, <3>1
  <2>9. \A n, m \in 1..(N - 1) : up(n) = up(m) => n = m
    BY <2>4
  <2>10. Len(requests') = N - 1
    BY <2>5, <2>6
  <2> HIDE DEF up
  <2>11. \A n \in 1..(N - 1) : /\ requests'[n] \in Request /\ ext[requests'[n]] = "pending"
                              /\ \A m \in 1..(N - 1) : requests'[m] = requests'[n] => m = n
    <3> SUFFICES ASSUME NEW n \in 1..(N - 1)
                 PROVE  /\ requests'[n] \in Request /\ ext[requests'[n]] = "pending"
                        /\ \A m \in 1..(N - 1) : requests'[m] = requests'[n] => m = n
      OBVIOUS
    <3> HIDE DEF N, i
    <3>1. ASSUME NEW m \in 1..(N - 1), requests'[m] = requests'[n]
          PROVE  up(m) = up(n)
      <4>1. up(n) \in 1..N /\ up(m) \in 1..N /\ requests[up(m)] = requests[up(n)]
        BY <2>8, <3>1
      <4> QED BY <2>7, <4>1
    <3>2. requests'[n] \in Request /\ ext[requests'[n]] = "pending"
      <4>1. up(n) \in 1..N /\ up(n) # i /\ requests'[n] = requests[up(n)]
        BY <2>8
      <4> QED BY <2>7, <4>1
    <3> QED BY <2>9, <3>1, <3>2
  <2>12. CASE slot = L
    <3>1. pc'["mpi"] \in {"gather", "stopped"} /\ mutex' = "free"
      BY <1>t, <2>2, <2>12, WorkerFacts
    <3> QED BY <2>2, <2>6, <2>10, <2>11, <3>1 DEF PoolAligned, PollPC
  <2>13. CASE slot # L
    <3>1. /\ pc'["mpi"] = "status" /\ mutex' = mutex /\ mutex = "mpi"
          /\ slot' = slot + 1 /\ indices' = Shift(i) /\ out_statuses' = out_statuses
      BY <1>0, <1>t, <2>2, <2>13, WorkerFacts DEF PoolAligned, PollPC
    <3>2. /\ indices' \in Seq(Nat) /\ Len(indices') = L
          /\ \A j \in 1..L : indices'[j] = IF j >= slot /\ indices[j] > i THEN indices[j] - 1 ELSE indices[j]
      <4>1. indices' = [j \in 1..L |-> IF j >= slot /\ indices[j] > i THEN indices[j] - 1 ELSE indices[j]]
        BY <2>4, <3>1 DEF Shift
      <4>2. \A j \in 1..L : indices[j] \in Nat
        BY <1>0 DEF Types, PoolTypes
      <4>3. \A j \in 1..L : (IF j >= slot /\ indices[j] > i THEN indices[j] - 1 ELSE indices[j]) \in Nat
        BY <2>4, <4>2
      <4>4. indices' \in [1..L -> Nat]
        BY <4>1, <4>3
      <4>5. indices' \in Seq(Nat) /\ Len(indices') = L
        BY <2>4, <4>4
      <4> QED BY <4>1, <4>5
    <3>3. ASSUME NEW j \in (slot + 1)..L
          PROVE  /\ indices[j] \in 1..N /\ indices[j] # i
                 /\ requests[indices[j]] = out_statuses[j] /\ op[out_statuses[j]] = "done"
                 /\ j \in 1..L /\ j >= slot
                 /\ \A k \in (slot + 1)..L : indices[k] = indices[j] => k = j
      <4>1. /\ j \in slot..L /\ slot \in slot..L /\ j # slot /\ j \in 1..L /\ j >= slot
            /\ \A k \in (slot + 1)..L : k \in slot..L
        BY <2>4
      <4>2. \A k \in slot..L : /\ indices[k] \in 1..N
                              /\ requests[indices[k]] = out_statuses[k]
                              /\ op[out_statuses[k]] = "done"
                              /\ \A l \in slot..L : indices[l] = indices[k] => l = k
        BY <1>0, <2>2 DEF PoolAligned, PollPC
      <4>3. indices[j] # i
        BY <4>1, <4>2
      <4> QED BY <4>1, <4>2, <4>3
    <3>4. ASSUME NEW j \in (slot + 1)..L
          PROVE  indices'[j] \in 1..(N - 1) /\ up(indices'[j]) = indices[j]
      <4>1. indices'[j] = IF indices[j] > i THEN indices[j] - 1 ELSE indices[j]
        BY <3>2, <3>3
      <4>2. indices[j] \in 1..N /\ indices[j] # i
        BY <3>3
      <4> QED BY <2>4, <4>1, <4>2 DEF up
    <3>5. ASSUME NEW j \in (slot + 1)..L
          PROVE  /\ indices'[j] \in 1..(N - 1)
                 /\ requests'[indices'[j]] = out_statuses[j]
                 /\ op[out_statuses[j]] = "done"
                 /\ \A k \in (slot + 1)..L : indices'[k] = indices'[j] => k = j
      <4>1. requests'[indices'[j]] = out_statuses[j]
        BY ZenonT(60), <2>8, <3>3, <3>4
      <4>2. \A k \in (slot + 1)..L : indices'[k] = indices'[j] => indices[k] = indices[j]
        BY <3>4
      <4> QED BY <3>3, <3>4, <4>1, <4>2
    <3>6. slot + 1 \in 1..L /\ Len(out_statuses) = L
      BY <1>0, <2>2, <2>4, <2>13 DEF PoolAligned, PollPC
    <3> HIDE DEF N, L, i
    <3> QED BY SMTT(60), <2>2, <2>6, <2>10, <2>11, <3>1, <3>2, <3>5, <3>6 DEF PoolAligned, PollPC
  <2> QED BY <2>12, <2>13
<1>26. CASE Launch
  <2>1. CudaHasTask
    BY <1>0, <1>26, HeldFacts, WorkerFacts DEF Launch, TaskPC
  <2>2. /\ pc["cuda"] = "body"
        /\ pc' = [pc EXCEPT !["cuda"] = "result"]
        /\ op' = [op EXCEPT ![cur["cuda"]] = "queued"]
        /\ UNCHANGED <<requests, events, statuses, mutex, cur, ext, indices, slot, out_statuses>>
    BY <1>26 DEF Launch, Goto
  <2>10. /\ pc["cuda"] \notin PollPC /\ pc'["cuda"] \notin PollPC /\ pc'["cuda"] # "push"
         /\ \A v \in Worker : v # "cuda" => pc'[v] = pc[v] /\ cur'[v] = cur[v]
    BY <1>t, <2>2, WorkerFacts DEF PollPC
  <2>12. \A r \in Request : op[r] = "done" => op'[r] = "done"
    BY <1>t, <2>1, <2>2, DispatchAssumption
  <2> QED BY <1>0, <2>2, <2>10, <2>12, PoolOthers, WorkerFacts
<1>27. CASE RecordEvent
  <2>1. CudaHasTask
    BY <1>0, <1>27, HeldFacts, WorkerFacts DEF RecordEvent, TaskPC
  <2>2. /\ pc["cuda"] = "record"
        /\ pc' = [pc EXCEPT !["cuda"] = "pre"]
        /\ ext' = [ext EXCEPT ![cur["cuda"]] = "pending"]
        /\ UNCHANGED <<requests, events, statuses, mutex, cur, op, indices, slot, out_statuses>>
    BY <1>27 DEF RecordEvent, Goto, MakeEvent
  <2>10. /\ pc["cuda"] \notin PollPC /\ pc'["cuda"] \notin PollPC /\ pc'["cuda"] # "push"
         /\ \A v \in Worker : v # "cuda" => pc'[v] = pc[v] /\ cur'[v] = cur[v]
    BY <1>t, <2>2, WorkerFacts DEF PollPC
  <2>11. \A n \in 1..Len(requests) : ext'[requests[n]] = ext[requests[n]]
    BY <1>0, <1>t, <2>1, <2>2, DispatchAssumption DEF PoolAligned
  <2> QED BY <1>0, <2>2, <2>10, <2>11, PoolOthers, WorkerFacts
<1>28. CASE LaunchedPre
  <2>1. CudaHasTask
    BY <1>0, <1>28, HeldFacts, WorkerFacts DEF LaunchedPre, TaskPC
  <2>2. /\ pc["cuda"] = "pre"
        /\ pc' = [pc EXCEPT !["cuda"] = "post"]
        /\ UNCHANGED <<requests, events, statuses, mutex, cur, ext, op, indices, slot, out_statuses>>
    BY <1>28 DEF LaunchedPre, Goto
  <2>10. /\ pc["cuda"] \notin PollPC /\ pc'["cuda"] \notin PollPC /\ pc'["cuda"] # "push"
         /\ \A v \in Worker : v # "cuda" => pc'[v] = pc[v] /\ cur'[v] = cur[v]
    BY <1>t, <2>2, WorkerFacts DEF PollPC
  <2> QED BY <1>0, <2>2, <2>10, PoolOthers, WorkerFacts
<1>29. CASE CudaPollNothing
  <2>2. /\ pc["cuda"] = "poll"
        /\ \E p \in {"gather", "stopped"} : pc' = [pc EXCEPT !["cuda"] = p]
        /\ UNCHANGED <<requests, events, statuses, mutex, cur, ext, op, indices, slot, out_statuses>>
    BY <1>29 DEF CudaPollNothing, Goto, AfterPoll, TestStop
  <2>10. /\ pc["cuda"] \notin PollPC /\ pc'["cuda"] \notin PollPC /\ pc'["cuda"] # "push"
         /\ \A v \in Worker : v # "cuda" => pc'[v] = pc[v] /\ cur'[v] = cur[v]
    BY <1>t, <2>2, WorkerFacts DEF PollPC
  <2> QED BY <1>0, <2>2, <2>10, PoolOthers, WorkerFacts
<1>30. CASE CudaPoll
  <2>1. FrontPolled
    BY <1>0, <1>30, PolledTasks DEF CudaPoll, FrontDone
  <2>2. /\ pc["cuda"] = "poll" /\ FrontDone
        /\ \E p \in {"gather", "stopped"} : pc' = [pc EXCEPT !["cuda"] = p]
        /\ ext' = [ext EXCEPT ![Front] = "reached"]
        /\ UNCHANGED <<requests, events, statuses, mutex, cur, op, indices, slot, out_statuses>>
    BY <1>30 DEF CudaPoll, Goto, AfterPoll, TestStop
  <2>10. /\ pc["cuda"] \notin PollPC /\ pc'["cuda"] \notin PollPC /\ pc'["cuda"] # "push"
         /\ \A v \in Worker : v # "cuda" => pc'[v] = pc[v] /\ cur'[v] = cur[v]
    BY <1>t, <2>2, WorkerFacts DEF PollPC
  <2>11. \A n \in 1..Len(requests) : ext'[requests[n]] = ext[requests[n]]
    <3>1. Sched[Front] = "cuda"
      BY <1>0, <1>30, CudaPollEffect
    <3> QED BY <1>0, <1>t, <2>1, <2>2, <3>1, DispatchAssumption DEF PoolAligned
  <2> QED BY <1>0, <2>2, <2>10, <2>11, PoolOthers, WorkerFacts
<1>31. ASSUME NEW t \in Task, RequestCompletes(t) PROVE PoolAligned'
  <2>1. \A u \in Task : op[u] = "done" => op'[u] = "done"
    BY <1>t, <1>31 DEF RequestCompletes
  <2>2. UNCHANGED <<requests, events, statuses, mutex, indices, slot, out_statuses, pc, cur, ext>>
    BY <1>31 DEF RequestCompletes
  <2>3. pc["mpi"] = "push" => \A n \in 1..Len(requests) : requests[n] # cur["mpi"]
    BY <1>0 DEF PoolAligned
  <2> QED BY <1>0, <2>1, <2>2, <2>3, PoolKept, DispatchAssumption
<1>32. ASSUME NEW i \in DOMAIN streams, StreamStep(i) PROVE PoolAligned'
  <2>1. \A u \in Request : op[u] = "done" => op'[u] = "done"
    <3>1. op' = op \/ \E k \in Task : Sched[k] = "cuda" /\ \A u \in Task : u # k => op'[u] = op[u]
      BY ZenonT(60), <1>0, <1>t, <1>32, StreamEffect
    <3> QED BY <3>1, DispatchAssumption
  <2>2. UNCHANGED <<requests, events, statuses, mutex, indices, slot, out_statuses, pc, cur, ext>>
    BY <1>32 DEF StreamStep
  <2>3. pc["mpi"] = "push" => \A n \in 1..Len(requests) : requests[n] # cur["mpi"]
    BY <1>0 DEF PoolAligned
  <2> QED BY <1>0, <2>1, <2>2, <2>3, PoolKept
<1> QED
  BY <1>2, <1>3, <1>4, <1>5, <1>6, <1>7, <1>8, <1>9, <1>10, <1>11, <1>12, <1>13, <1>14, <1>15,
     <1>16, <1>17, <1>18, <1>19, <1>20, <1>21, <1>22, <1>23, <1>24, <1>25, <1>26, <1>27, <1>28,
     <1>29, <1>30, <1>31, <1>32
  DEF Next, WorkerStep, MpiStep, CudaStep, MainStep, Ended

-----------------------------------------------------------------------------
(***************************************************************************)
(* removal_countdown, the count of tasks, and the main thread.             *)
(***************************************************************************)
LEMMA LiveFinite ==
  /\ IsFiniteSet(Live) /\ Cardinality(Live) \in Nat
  /\ \A t \in Live : /\ IsFiniteSet(Live \ {t}) /\ Cardinality(Live \ {t}) = Cardinality(Live) - 1
  /\ \A t : t \notin Live => Cardinality(Live \union {t}) = Cardinality(Live) + 1
  /\ Cardinality(Live) = 0 => Live = {}
<1>1. IsFiniteSet(Live) /\ Cardinality(Live) \in Nat
  <2>1. Live \in SUBSET Task
    BY DEF Live
  <2> QED BY <2>1, TaskFacts, FS_Subset, FS_CardinalityType
<1>2. ASSUME NEW t \in Live
      PROVE  IsFiniteSet(Live \ {t}) /\ Cardinality(Live \ {t}) = Cardinality(Live) - 1
  BY <1>1, FS_RemoveElement
<1>3. ASSUME NEW t, t \notin Live PROVE Cardinality(Live \union {t}) = Cardinality(Live) + 1
  BY <1>1, <1>3, FS_AddElement
<1>4. Cardinality(Live) = 0 => Live = {}
  BY <1>1, FS_EmptySet
<1> QED BY <1>1, <1>2, <1>3, <1>4

\* The step of the task t in CountDown, whoever takes it.
LEMMA CountDownEffect ==
  ASSUME Types, MainCounts, NEW t \in Task, Born(t), Born(t)', CountDown(t), removal_countdown[t] # 0,
         \A u \in Task : u # t => (Born(u)' <=> Born(u))
  PROVE  /\ \A u \in Task : removal_countdown'[u] = IF u = t THEN removal_countdown[u] - 1
                                                             ELSE removal_countdown[u]
         /\ task_count' = Cardinality(Live')
<1>1. removal_countdown \in [Task -> Int]
  BY DEF Types, EventTypes
<1>2. \A u \in Task : removal_countdown'[u] = IF u = t THEN removal_countdown[u] - 1
                                                       ELSE removal_countdown[u]
  BY <1>1 DEF CountDown
<1>3. task_count = Cardinality(Live) /\ t \in Live
  BY DEF MainCounts, Live
<1>4. CASE removal_countdown[t] = 1
  <2>1. Live' = Live \ {t}
    BY <1>2, <1>4 DEF Live
  <2>2. task_count' = task_count - 1
    BY <1>4 DEF CountDown
  <2> QED BY <1>2, <1>3, <2>1, <2>2, LiveFinite
<1>5. CASE removal_countdown[t] # 1
  <2>1. removal_countdown[t] - 1 # 0
    BY <1>1, <1>5
  <2>2. Live' = Live
    BY <1>2, <2>1 DEF Live
  <2>3. task_count' = task_count
    BY <1>5 DEF CountDown
  <2> QED BY <1>2, <1>3, <2>2, <2>3
<1> QED BY <1>4, <1>5

\* A step of another thread that reaches no post-event.
LEMMA MainCountsKept ==
  ASSUME MainCounts, UNCHANGED <<removal_countdown, task_count, main>>,
         \A t \in Task : (post'[t] = 0) <=> (post[t] = 0)
  PROVE  MainCounts'
<1>1. Live' = Live
  BY DEF Live, Born
<1> QED BY <1>1 DEF MainCounts

LEMMA NotifyPostMain ==
  ASSUME Types, MainCounts, NEW t \in Task, Born(t), NotifyPost(t), post[t] # 0, main' = main,
         post' = [post EXCEPT ![t] = post[t] - 1]
  PROVE  MainCounts'
<1>0. post \in [Task -> Nat] /\ main.t \in Nat /\ Task \subseteq Nat
  BY TaskFacts, DispatchAssumption DEF Types, CountTypes, MainTypes
<1>1. \A u \in Task : u # t => post'[u] = post[u]
  BY <1>0
<1>2. CASE post[t] = 1
  <2>1. post'[t] = 0
    BY <1>0, <1>2
  <2>2. /\ \A u \in Task : removal_countdown[u] = (IF post[u] = 0 THEN 0 ELSE 1)
                                                 + (IF u < main.t THEN 0 ELSE 1)
        /\ main.pc \in {"get", "late", "test", "idle", "doze", "take"} => main.t \in Task
        /\ main.pc \in {"barrier", "await", "stop", "join", "end"} => main.t = MaxTask + 1
        /\ main.pc \in {"stop", "join", "end"} => \A u \in Task : removal_countdown[u] = 0
    BY DEF MainCounts
  <2>3. removal_countdown[t] # 0
    BY <1>2, <2>2
  <2>4. CountDown(t)
    BY <1>2 DEF NotifyPost
  <2>5. /\ \A u \in Task : removal_countdown'[u] = IF u = t THEN removal_countdown[u] - 1
                                                            ELSE removal_countdown[u]
        /\ task_count' = Cardinality(Live')
    BY <2>3, <2>4, CountDownEffect DEF Born
  <2>6. \A u \in Task : removal_countdown'[u] = (IF post'[u] = 0 THEN 0 ELSE 1)
                                                + (IF u < main.t THEN 0 ELSE 1)
    BY <1>1, <1>2, <2>1, <2>2, <2>5
  <2>7. main.pc \notin {"stop", "join", "end"}
    BY <2>2, <2>3
  <2> QED BY <2>2, <2>5, <2>6, <2>7 DEF MainCounts
<1>3. CASE post[t] # 1
  <2>1. UNCHANGED <<removal_countdown, task_count>>
    BY <1>3 DEF NotifyPost
  <2>2. \A u \in Task : (post'[u] = 0) <=> (post[u] = 0)
    BY <1>0, <1>3
  <2> QED BY <2>1, <2>2, MainCountsKept
<1> QED BY <1>2, <1>3

LEMMA MainCountsStep ==
  ASSUME Hypotheses, IInv, [Next]_vars
  PROVE  MainCounts'
<1>0. /\ Hypotheses /\ RequestsOnMpi /\ Types /\ WorkersMatch /\ NewUntouched
      /\ FollowersMatch /\ WaitingCounted /\ ReadyOnce /\ RestDone /\ HeldOnce /\ HeldPre
      /\ HeldProgress /\ PostCounts /\ ResumeCounted /\ PoolAligned /\ ReachedDone
      /\ StreamsMatch /\ RecordsBehind /\ MainCounts
  BY DEF Hypotheses, IInv
<1>t. Ranges
  BY <1>0 DEF Types, CountTypes, EventTypes, WorkTypes, CudaTypes
<1>1. CASE UNCHANGED <<main, post, removal_countdown, task_count>>
  BY <1>0, <1>1, MainCountsKept
<1>2. CASE UNCHANGED vars
  BY <1>1, <1>2 DEF vars
<1>3. ASSUME NEW w \in Worker,
             (\E t \in Task : GatherReady(w, t)) \/ (\E t \in Task : InitDependencies(w, t))
             \/ GatherNothing(w) \/ Execute(w) \/ Compute(w) \/ PushRequest(w) \/ Yield(w)
             \/ PauseReset(w) \/ PauseFollow(w) \/ PauseAppend(w) \/ PauseCount(w) \/ PauseUp(w)
             \/ PauseNotify(w) \/ SetResult(w) \/ WakeMain(w)
      PROVE  MainCounts'
  BY <1>1, <1>3
  DEF GatherReady, InitDependencies, GatherNothing, Execute, Compute, PushRequest, Yield,
      PauseReset, PauseFollow, PauseAppend, PauseCount, PauseUp, PauseNotify, SetResult,
      WakeMain, AfterTask, Goto
<1>4. ASSUME \/ PollNothing \/ Poll \/ PollStatus \/ PollResume \/ Launch \/ LaunchedPre
             \/ CudaPollNothing
      PROVE  MainCounts'
  BY <1>1, <1>4
  DEF PollNothing, Poll, PollStatus, PollResume, Launch, LaunchedPre, CudaPollNothing, Goto
<1>5. ASSUME NEW t \in Task, RequestCompletes(t) PROVE MainCounts'
  BY <1>1, <1>5 DEF RequestCompletes
<1>6. ASSUME NEW i \in DOMAIN streams, StreamStep(i) PROVE MainCounts'
  BY <1>1, <1>6 DEF StreamStep
<1>7. ASSUME NEW w \in Worker, GetStatus(w) PROVE MainCounts'
  <2>1. HasTask(w)
    BY <1>0, <1>7, HeldFacts DEF GetStatus, TaskPC
  <2>2. /\ pc[w] = "body" /\ cur[w] \in Request
        /\ post' = [post EXCEPT ![cur[w]] = Up(post[cur[w]])]
        /\ UNCHANGED <<removal_countdown, main, task_count>>
    BY <1>7 DEF GetStatus, Goto, MakeEvent
  <2>6. Underway(cur[w])
    BY <1>0, <2>1, HeldTouched
  <2>8. post[cur[w]] # 0 /\ Up(post[cur[w]]) # 0
    <3>1. post[cur[w]] # 0
      BY <1>0, <2>1, <2>6, PostPositive
    <3>2. post[cur[w]] = 1 \/ post[cur[w]] = 2
      BY <1>0, <2>1, <3>1 DEF PostCounts
    <3> QED BY <3>1, <3>2, UpFacts
  <2>9. \A u \in Task : (post'[u] = 0) <=> (post[u] = 0)
    BY <1>t, <2>2, <2>8
  <2> QED BY <1>0, <2>2, <2>9, MainCountsKept
<1>8. ASSUME NEW w \in Worker, FinishTask(w) PROVE MainCounts'
  <2>1. cur[w] \in Task /\ NotifyPost(cur[w])
    BY <1>0, <1>8, HeldFacts DEF FinishTask, TaskPC
  <2>2. post[cur[w]] # 0 /\ post' = [post EXCEPT ![cur[w]] = post[cur[w]] - 1]
    BY <1>0, <1>8, FinishTaskEffect
  <2>3. main' = main
    BY <1>8 DEF FinishTask
  <2>6. Born(cur[w])
    BY <1>0, <2>1, HeldTouched DEF Old
  <2> QED BY <1>0, <2>1, <2>2, <2>3, <2>6, NotifyPostMain
<1>9. CASE PollErase
  <2>1. Current \in Task /\ NotifyPost(Current)
    BY <1>0, <1>9, PolledTasks DEF PollErase, PollPC, Current
  <2>2. post[Current] # 0 /\ post' = [post EXCEPT ![Current] = post[Current] - 1]
    BY <1>0, <1>9, PollEraseEffect
  <2>3. main' = main
    BY <1>9 DEF PollErase
  <2>5. ext[Current] # "none"
    <3>1. pc["mpi"] = "erase" /\ pc["mpi"] \in PollPC
      BY <1>9 DEF PollErase, PollPC
    <3>2. indices[slot] \in 1..Len(requests) /\ events = requests
      BY <1>0, <3>1, PolledTasks
    <3> QED BY <1>0, <3>1, <3>2 DEF PoolAligned, Current
  <2>6. Born(Current)
    BY <1>0, <2>1, <2>5, Touched DEF Old
  <2> QED BY <1>0, <2>1, <2>2, <2>3, <2>6, NotifyPostMain
<1>10. CASE RecordEvent
  <2>1. CudaHasTask
    BY <1>0, <1>10, HeldFacts, WorkerFacts DEF RecordEvent, TaskPC
  <2>2. /\ pc["cuda"] = "record"
        /\ post' = [post EXCEPT ![cur["cuda"]] = Up(post[cur["cuda"]])]
        /\ UNCHANGED <<removal_countdown, main, task_count>>
    BY <1>10 DEF RecordEvent, Goto, MakeEvent
  <2>6. Underway(cur["cuda"])
    BY <1>0, <2>1, HeldTouched, WorkerFacts
  <2>8. post[cur["cuda"]] # 0 /\ Up(post[cur["cuda"]]) # 0
    <3>1. post[cur["cuda"]] # 0
      BY <1>0, <2>1, <2>6, PostPositive
    <3>2. post[cur["cuda"]] = 1 \/ post[cur["cuda"]] = 2
      BY <1>0, <2>1, <3>1 DEF PostCounts
    <3> QED BY <3>1, <3>2, UpFacts
  <2>9. \A u \in Task : (post'[u] = 0) <=> (post[u] = 0)
    BY <1>t, <2>2, <2>8
  <2> QED BY <1>0, <2>2, <2>9, MainCountsKept
<1>11. CASE CudaPoll
  <2>1. Front \in Task /\ NotifyPost(Front)
    BY <1>0, <1>11, PolledTasks DEF CudaPoll, FrontDone
  <2>2. post[Front] # 0 /\ post' = [post EXCEPT ![Front] = post[Front] - 1]
    BY <1>0, <1>11, CudaPollEffect
  <2>3. main' = main
    BY <1>11 DEF CudaPoll
  <2>5. ext[Front] = "pending"
    BY <1>0, <1>11, CudaPollEffect
  <2>6. Born(Front)
    BY <1>0, <2>1, <2>5, Touched DEF Old
  <2> QED BY <1>0, <2>1, <2>2, <2>3, <2>6, NotifyPostMain
<1>12. CASE Emplace
  <2>1. main \in [pc : MainPC, t : 1..(MaxTask + 1), s : Nat] /\ main.t \in Nat /\ main.t <= MaxTask + 1
    BY <1>0, TaskFacts DEF Types, MainTypes
  <2> DEFINE m == main.t
  <2>2. main.pc = "emplace" /\ m \in Task /\ ~ Born(m) /\ post' = post /\ task_count' = task_count + 1
    BY <2>1, <1>12 DEF Emplace, OnlyMain, Born
  <2>3. post[m] = 1
    BY <1>0, <2>2 DEF NewUntouched, Old
  <2>4. /\ \A t \in Task : removal_countdown[t] = (IF post[t] = 0 THEN 0 ELSE 1) + (IF t < m THEN 0 ELSE 1)
        /\ task_count = Cardinality(Live)
    BY <1>0 DEF MainCounts
  <2>5. m \notin Live /\ removal_countdown[m] = 2
    BY <2>1, <2>2, <2>3, <2>4 DEF Live
  <2>6. Cardinality(Live \union {m}) = Cardinality(Live) + 1
    BY <2>5, LiveFinite
  <2>7. CASE m \in Awaited
    <3>1. main'.pc = "get" /\ main'.t = m /\ removal_countdown' = removal_countdown
      BY <2>1, <2>7, <1>12 DEF Emplace, MainGoto
    <3>2. Live' = Live \union {m}
      BY <2>2, <2>5, <3>1 DEF Live, Born
    <3> QED BY <2>2, <2>4, <2>6, <3>1, <3>2 DEF MainCounts
  <2>8. CASE m \notin Awaited
    <3>1. main'.pc = "emplace" /\ main'.t = m + 1
      BY <2>1, <2>2, <2>8, <1>12 DEF Emplace
    <3>2. \A t \in Task : removal_countdown'[t] = IF t = m THEN 1 ELSE removal_countdown[t]
      <4>1. removal_countdown \in [Task -> Int]
        BY <1>0 DEF Types, EventTypes
      <4> QED BY <2>2, <2>5, <2>8, <4>1, <1>12 DEF Emplace
    <3>3. \A t \in Task : t < m + 1 <=> (t < m \/ t = m)
      BY <2>1, TaskFacts
    <3>4. \A t \in Task : Born(t)' <=> (Born(t) \/ t = m)
      BY <2>2, <3>1, <3>3 DEF Born
    <3>5. Live' = Live \union {m}
      BY <2>2, <3>2, <3>4 DEF Live
    <3>6. \A t \in Task : removal_countdown'[t] = (IF post[t] = 0 THEN 0 ELSE 1) + (IF t < m + 1 THEN 0 ELSE 1)
      BY <2>1, <2>3, <2>4, <3>2, <3>3
    <3> QED BY <2>2, <2>4, <2>6, <3>1, <3>5, <3>6 DEF MainCounts
  <2> QED BY <2>7, <2>8
<1>13. CASE EndOfProgram
  <2>1. main \in [pc : MainPC, t : 1..(MaxTask + 1), s : Nat] /\ main.t \in Nat /\ main.t <= MaxTask + 1
    BY <1>0, TaskFacts DEF Types, MainTypes
  <2>2. main.pc = "emplace" /\ main'.pc = "barrier" /\ main'.t = main.t /\ main.t = MaxTask + 1
    <3>1. main.pc = "emplace" /\ main'.pc = "barrier" /\ main'.t = main.t /\ main.t \notin Task
      BY <2>1, <1>13 DEF EndOfProgram, MainGoto
    <3>2. main.t \in 1..(MaxTask + 1)
      BY <2>1
    <3> QED BY <3>1, <3>2, TaskFacts DEF Task
  <2>3. UNCHANGED <<removal_countdown, post, task_count>>
    BY <1>13 DEF EndOfProgram, OnlyMain
  <2>4. \A t \in Task : t # main.t
    BY <2>2, TaskFacts DEF Task
  <2>5. Live' = Live
    BY <2>2, <2>3, <2>4 DEF Live, Born
  <2> QED BY <1>0, <2>2, <2>3, <2>5 DEF MainCounts
<1>14. CASE EnterWaker
  <2>1. main \in [pc : MainPC, t : 1..(MaxTask + 1), s : Nat] /\ main.t \in Nat /\ main.t <= MaxTask + 1
    BY <1>0, TaskFacts DEF Types, MainTypes
  <2>2. main.pc \in {"get", "late"} /\ main'.pc \in {"test", "doze"} /\ main'.t = main.t
    BY <2>1, <1>14 DEF EnterWaker, MainGoto
  <2>3. UNCHANGED <<removal_countdown, post, task_count>>
    BY <1>14 DEF EnterWaker, OnlyMain
  <2>4. Live' = Live
    BY <1>0, <2>2, <2>3 DEF Live, Born, MainCounts
  <2> QED BY <1>0, <2>2, <2>3, <2>4 DEF MainCounts
<1>15. CASE TestResult
  <2>1. main \in [pc : MainPC, t : 1..(MaxTask + 1), s : Nat] /\ main.t \in Nat /\ main.t <= MaxTask + 1
    BY <1>0, TaskFacts DEF Types, MainTypes
  <2>2. main.pc \in {"get", "test"} /\ main'.pc \in {"late", "idle", "take"} /\ main'.t = main.t
    BY <2>1, <1>15 DEF TestResult, MainGoto
  <2>3. UNCHANGED <<removal_countdown, post, task_count>>
    BY <1>15 DEF TestResult, OnlyMain
  <2>4. Live' = Live
    BY <1>0, <2>2, <2>3 DEF Live, Born, MainCounts
  <2> QED BY <1>0, <2>2, <2>3, <2>4 DEF MainCounts
<1>16. CASE Idle
  <2>1. main \in [pc : MainPC, t : 1..(MaxTask + 1), s : Nat] /\ main.t \in Nat /\ main.t <= MaxTask + 1
    BY <1>0, TaskFacts DEF Types, MainTypes
  <2>2. /\ main'.t = main.t
        /\ \/ main.pc \in {"idle", "doze"} /\ main'.pc = "test"
           \/ main.pc = "await" /\ main'.pc = "barrier"
    BY <2>1, <1>16 DEF Idle, MainGoto
  <2>3. UNCHANGED <<removal_countdown, post, task_count>>
    BY <1>16 DEF Idle, OnlyMain
  <2>4. Live' = Live
    BY <1>0, <2>2, <2>3 DEF Live, Born, MainCounts
  <2> QED BY <1>0, <2>2, <2>3, <2>4 DEF MainCounts
<1>17. CASE TakeResult
  <2>1. main \in [pc : MainPC, t : 1..(MaxTask + 1), s : Nat] /\ main.t \in Nat /\ main.t <= MaxTask + 1
    BY <1>0, TaskFacts DEF Types, MainTypes
  <2> DEFINE m == main.t
  <2>2. /\ main.pc = "take" /\ CountDown(m) /\ main'.pc = "emplace" /\ main'.t = m + 1 /\ post' = post
    BY <2>1, <1>17 DEF TakeResult, OnlyMain
  <2>3. /\ m \in Task
        /\ \A t \in Task : removal_countdown[t] = (IF post[t] = 0 THEN 0 ELSE 1) + (IF t < m THEN 0 ELSE 1)
    BY <1>0, <2>2 DEF MainCounts
  <2>4. removal_countdown[m] # 0
    BY <2>1, <2>3
  <2>5. \A t \in Task : t < m + 1 <=> (t < m \/ t = m)
    BY <2>1, TaskFacts
  <2>6. Born(m) /\ \A t \in Task : Born(t)' <=> Born(t)
    BY <2>2, <2>5 DEF Born
  <2>7. \A t \in Task : t = m => Born(t)'
    BY <2>6
  <2>8. /\ \A t \in Task : removal_countdown'[t] = IF t = m THEN removal_countdown[t] - 1
                                                            ELSE removal_countdown[t]
        /\ task_count' = Cardinality(Live')
    <3>1. ASSUME NEW t \in Task, t = m
          PROVE  /\ \A u \in Task : removal_countdown'[u] = IF u = t THEN removal_countdown[u] - 1
                                                                    ELSE removal_countdown[u]
                 /\ task_count' = Cardinality(Live')
      <4>1. Born(t) /\ Born(t)' /\ CountDown(t) /\ removal_countdown[t] # 0
        BY <2>2, <2>4, <2>6, <2>7, <3>1
      <4> QED BY <1>0, <2>6, <4>1, CountDownEffect
    <3> QED BY <2>3, <3>1
  <2>9. \A t \in Task : removal_countdown'[t] = (IF post[t] = 0 THEN 0 ELSE 1) + (IF t < m + 1 THEN 0 ELSE 1)
    BY <2>1, <2>3, <2>5, <2>8
  <2> QED BY <2>2, <2>8, <2>9 DEF MainCounts
<1>18. CASE Barrier
  <2>1. main \in [pc : MainPC, t : 1..(MaxTask + 1), s : Nat] /\ main.t \in Nat /\ main.t <= MaxTask + 1
    BY <1>0, TaskFacts DEF Types, MainTypes
  <2>2. /\ main.pc = "barrier" /\ main'.pc = (IF task_count = 0 THEN "stop" ELSE "await") /\ main'.t = main.t
    BY <2>1, <1>18 DEF Barrier, MainGoto
  <2>3. UNCHANGED <<removal_countdown, post, task_count>>
    BY <1>18 DEF Barrier, OnlyMain
  <2>4. Live' = Live
    BY <2>2, <2>3 DEF Live, Born
  <2>5. main.t = MaxTask + 1 /\ task_count = Cardinality(Live)
    BY <1>0, <2>2 DEF MainCounts
  <2>6. ASSUME task_count = 0 PROVE \A t \in Task : removal_countdown[t] = 0
    <3>1. Live = {}
      BY <2>5, <2>6, LiveFinite
    <3>2. \A t \in Task : Born(t)
      BY <2>5, TaskFacts DEF Task, Born
    <3> QED BY <3>1, <3>2 DEF Live
  <2> QED BY <1>0, <2>2, <2>3, <2>4, <2>5, <2>6 DEF MainCounts
<1>19. CASE Stop
  <2>1. main \in [pc : MainPC, t : 1..(MaxTask + 1), s : Nat] /\ main.t \in Nat /\ main.t <= MaxTask + 1
    BY <1>0, TaskFacts DEF Types, MainTypes
  <2>2. main.pc = "stop" /\ main'.pc = "join" /\ main'.t = main.t
    BY <2>1, <1>19 DEF Stop, MainGoto
  <2>3. UNCHANGED <<removal_countdown, post, task_count>>
    BY <1>19 DEF Stop, OnlyMain
  <2>4. Live' = Live
    BY <1>0, <2>2, <2>3 DEF Live, Born, MainCounts
  <2> QED BY <1>0, <2>2, <2>3, <2>4 DEF MainCounts
<1>20. CASE Join
  <2>1. main \in [pc : MainPC, t : 1..(MaxTask + 1), s : Nat] /\ main.t \in Nat /\ main.t <= MaxTask + 1
    BY <1>0, TaskFacts DEF Types, MainTypes
  <2>2. main.pc = "join" /\ main'.pc \in {"stop", "end"} /\ main'.t = main.t
    BY <2>1, <1>20 DEF Join, MainGoto
  <2>3. UNCHANGED <<removal_countdown, post, task_count>>
    BY <1>20 DEF Join, OnlyMain
  <2>4. Live' = Live
    BY <1>0, <2>2, <2>3 DEF Live, Born, MainCounts
  <2> QED BY <1>0, <2>2, <2>3, <2>4 DEF MainCounts
<1> QED
  BY <1>2, <1>3, <1>4, <1>5, <1>6, <1>7, <1>8, <1>9, <1>10, <1>11, <1>12, <1>13, <1>14, <1>15,
     <1>16, <1>17, <1>18, <1>19, <1>20
  DEF Next, WorkerStep, MpiStep, CudaStep, MainStep, Ended

-----------------------------------------------------------------------------
(***************************************************************************)
(* The invariant holds, and what it says of the tasks.                     *)
(***************************************************************************)
LEMMA InitCounts ==
  ASSUME Hypotheses, Init
  PROVE  /\ Types /\ WorkersMatch /\ NewUntouched /\ HeldOnce /\ HeldPre /\ HeldProgress
         /\ PoolAligned /\ ReachedDone /\ ResumeCounted
<1>1. Types
  <2>1. CountTypes
    <3>1. Fits(1) /\ pre = [t \in Task |-> 1] /\ post = [t \in Task |-> 1]
      BY UpFacts DEF Init
    <3> QED BY <3>1 DEF CountTypes
  <2>2. EventTypes
    BY DEF Init, EventTypes
  <2>3. WorkTypes
    BY DEF Init, WorkTypes, WorkerPC
  <2>4. PoolTypes
    BY DEF Init, PoolTypes
  <2>5. CudaTypes
    <3>1. streams \in [0..(NumStreams - 1) -> Seq(Operation)]
      BY DEF Init
    <3> QED BY <3>1 DEF Init, CudaTypes
  <2>6. MainTypes
    BY TaskFacts DEF Init, MainTypes, MainPC
  <2> QED BY <2>1, <2>2, <2>3, <2>4, <2>5, <2>6 DEF Types
<1>2. \A w \in Worker : pc[w] = "gather" /\ cur[w] = NoTask
  BY DEF Init
<1>3. WorkersMatch /\ HeldOnce /\ HeldPre /\ HeldProgress
  BY <1>2 DEF WorkersMatch, HeldOnce, HeldPre, HeldProgress, TaskPC, PausePC, PollPC
<1>4. NewUntouched
  BY <1>2, TaskFacts DEF Init, NewUntouched, NotHeld
<1>5. pc["mpi"] = "gather"
  BY <1>2, WorkerFacts
<1>6. PoolAligned
  BY <1>5 DEF Init, PoolAligned, PollPC
<1>7. ReachedDone /\ ResumeCounted
  BY <1>5 DEF Init, ReachedDone, ResumeCounted
<1> QED BY <1>1, <1>3, <1>4, <1>6, <1>7

LEMMA InitIInv ==
  ASSUME Hypotheses, Init
  PROVE  IInv
<1>1. /\ Types /\ WorkersMatch /\ NewUntouched /\ HeldOnce /\ HeldPre /\ HeldProgress
      /\ PoolAligned /\ ReachedDone /\ ResumeCounted
  BY InitCounts
<1>2. /\ main.t = 1 /\ main.pc = "emplace" /\ emplaced = {} /\ task_count = 0
      /\ \A t \in Task : /\ pre[t] = 1 /\ post[t] = 1 /\ ready[t] = 0 /\ removal_countdown[t] = 2
                         /\ op[t] = "none" /\ ext[t] = "none" /\ stream_idx[t] = NoStream
                         /\ followers[t]["pre"] = {} /\ followers[t]["post"] = {}
  BY DEF Init
<1>3. \A t \in Task : ~ Born(t) /\ Free(t) /\ ~ (t < main.t)
  <2>1. \A t \in Task : Free(t)
    BY <1>2, FreeFacts
  <2>2. \A t \in Task : ~ (t < main.t) /\ ~ Born(t)
    BY <1>2, TaskFacts DEF Task, Born
  <2> QED BY <2>1, <2>2
<1>4. FollowersMatch /\ WaitingCounted /\ ReadyOnce /\ RestDone
  BY <1>2, <1>3 DEF FollowersMatch, WaitingCounted, ReadyOnce, RestDone, Old
<1>5. PostCounts
  <2>1. pc["mpi"] = "gather"
    BY WorkerFacts DEF Init
  <2> QED BY <1>2, <2>1 DEF PostCounts, Finished, Holds
<1>6. StreamsMatch
  <2>1. \A i \in 0..(NumStreams - 1) : streams[i] = <<>>
    BY DEF Init
  <2> QED BY <1>2, <2>1 DEF StreamsMatch
<1>7. RecordsBehind
  BY DEF Init, RecordsBehind
<1>8. MainCounts
  <2>1. Live = {}
    BY <1>3 DEF Live
  <2>2. Cardinality(Live) = 0
    BY <2>1, FS_EmptySet
  <2> QED BY <1>2, <1>3, <2>2 DEF MainCounts
<1> QED BY <1>1, <1>4, <1>5, <1>6, <1>7, <1>8 DEF IInv

LEMMA IInvStep ==
  ASSUME Hypotheses, IInv, [Next]_vars
  PROVE  IInv'
<1>1. Types' /\ WorkersMatch' /\ HeldOnce' /\ HeldPre' /\ HeldProgress'
  BY TypesStep, WorkersMatchStep, HeldOnceStep, HeldPreStep, HeldProgressStep
<1>2. NewUntouched' /\ FollowersMatch' /\ WaitingCounted' /\ ReadyOnce' /\ RestDone'
  BY NewUntouchedStep, FollowersMatchStep, WaitingCountedStep, ReadyOnceStep, RestDoneStep
<1>3. PostCounts' /\ ResumeCounted' /\ PoolAligned' /\ ReachedDone'
  BY PostCountsStep, ResumeCountedStep, PoolAlignedStep, ReachedDoneStep
<1>4. StreamsMatch' /\ RecordsBehind' /\ MainCounts'
  BY StreamsMatchStep, RecordsBehindStep, MainCountsStep
<1> QED BY <1>1, <1>2, <1>3, <1>4 DEF IInv

\* The counts, the queues, the request pool and the streams agree in every reachable state.
THEOREM Invariance == Hypotheses => (Spec => []IInv)
<1> SUFFICES ASSUME Hypotheses
             PROVE  Spec => []IInv
  OBVIOUS
<1>1. Init => IInv
  BY InitIInv
<1>2. IInv /\ [Next]_vars => IInv'
  BY IInvStep
<1> QED BY <1>1, <1>2, PTL DEF Spec

\* A task whose post-event is reached has been run, and its external event is reached.
LEMMA PostReached ==
  ASSUME IInv, NEW t \in Task, post[t] = 0
  PROVE  op[t] = "done"
<1>1. /\ Types /\ NewUntouched /\ WaitingCounted /\ ReadyOnce /\ RestDone /\ PostCounts
      /\ ReachedDone
  BY DEF IInv
<1>2. Finished(t) /\ ~ Holds(t)
  BY <1>1 DEF PostCounts
<1>3. pre[t] = 0 /\ NotHeld(t) /\ ext[t] # "pending"
  BY <1>2 DEF Finished, Holds
<1>4. Old(t)
  BY <1>1, <1>3 DEF NewUntouched
<1>5. Free(t)
  <2>1. Cardinality(Incoming(t)) \in Nat
    BY IncomingFinite
  <2> QED BY <1>1, <1>3, <2>1 DEF WaitingCounted
<1>6. ready[t] = 0
  BY <1>1, <1>3 DEF ReadyOnce
<1>7. /\ t \in Request => ext[t] = "reached"
      /\ Sched[t] = "cuda" => ext[t] # "none"
      /\ t \notin Request /\ Sched[t] # "cuda" => op[t] = "done"
  BY <1>1, <1>3, <1>4, <1>5, <1>6 DEF RestDone, Parked
<1>8. ext[t] \in {"none", "pending", "reached"}
  BY <1>1 DEF Types, EventTypes
<1> QED BY <1>1, <1>3, <1>7, <1>8 DEF ReachedDone

\* FinishedMeansDone: a task whose post-event is reached, that is freed, or that exists when
\* barrier() has returned has done its computation, its MPI operation or its kernel.
THEOREM FinishedMeansDoneCorrect == Hypotheses => (Spec => []FinishedMeansDone)
<1> SUFFICES ASSUME Hypotheses
             PROVE  Spec => []FinishedMeansDone
  OBVIOUS
<1>1. ASSUME IInv PROVE FinishedMeansDone
  <2> SUFFICES ASSUME NEW t \in Task,
                      post[t] = 0 \/ removal_countdown[t] = 0 \/ main.pc \in {"stop", "join", "end"}
               PROVE  post[t] = 0
    BY <1>1, PostReached DEF FinishedMeansDone
  <2>1. /\ removal_countdown[t] = (IF post[t] = 0 THEN 0 ELSE 1) + (IF t < main.t THEN 0 ELSE 1)
        /\ main.pc \in {"stop", "join", "end"} => removal_countdown[t] = 0
    BY <1>1 DEF IInv, MainCounts
  <2> QED BY <2>1
<1> QED BY <1>1, Invariance, PTL

\* StatusIsOwn: poll gives a task the status of its own request, and the vectors of the pool
\* stay aligned, whatever MPI_Testsome returns and however entries are erased.
THEOREM StatusIsOwnCorrect == Hypotheses => (Spec => []StatusIsOwn)
<1> SUFFICES ASSUME Hypotheses
             PROVE  Spec => []StatusIsOwn
  OBVIOUS
<1>1. ASSUME IInv PROVE StatusIsOwn
  <2>1. ReachedDone /\ HeldProgress /\ requests = events /\ events = statuses
    BY <1>1 DEF IInv, PoolAligned
  <2>2. \A t \in Task : status[t] \in {NoTask, t}
    BY <2>1 DEF ReachedDone
  <2>3. ASSUME NEW w \in Worker, pc[w] = "result", cur[w] \in Request
        PROVE  status[cur[w]] = cur[w]
    <3>1. cur[w] \in Task /\ ext[cur[w]] = "reached"
      BY <2>1, <2>3, DispatchAssumption DEF HeldProgress
    <3> QED BY <2>1, <2>3, <3>1 DEF ReachedDone
  <2> QED BY <2>1, <2>2, <2>3 DEF StatusIsOwn
<1> QED BY <1>1, Invariance, PTL

-----------------------------------------------------------------------------
(***************************************************************************)
(* The order of operations.                                                *)
(***************************************************************************)
LEMMA PredTask == ASSUME NEW t \in Task, NEW p \in Preds[t] PROVE p \in Task /\ p # t
BY DispatchAssumption, TaskFacts

\* A task that waits for nothing: the tasks before it are done, or launched if it is a kernel.
LEMMA PredsDone ==
  ASSUME IInv, PredsLinked, NEW t \in Task, Old(t), Free(t), NEW p \in Preds[t]
  PROVE  op[p] = "done" \/ (Sched[t] = "cuda" /\ stream_idx[p] # NoStream)
<1>1. p \in Task
  BY PredTask
<1>2. t \in followers[p]["post"] => post[p] = 0
  BY <1>1, FreeFacts
<1>3. post[p] = 0 => op[p] = "done"
  BY <1>1, PostReached
<1> QED BY <1>2, <1>3 DEF PredsLinked

LEMMA PredsLinkedKept ==
  ASSUME PredsLinked, followers' = followers,
         \A t \in Task : Old(t)' => Old(t),
         \A p \in Task : post[p] = 0 => post'[p] = 0,
         \A p \in Task : stream_idx[p] # NoStream => stream_idx'[p] # NoStream
  PROVE  PredsLinked'
<1> SUFFICES ASSUME NEW t \in Task, Old(t)', NEW p \in Preds[t]
             PROVE  \/ post'[p] = 0
                    \/ t \in followers'[p]["post"]
                    \/ Sched[t] = "cuda" /\ stream_idx'[p] # NoStream
  BY DEF PredsLinked
<1>1. p \in Task /\ Old(t)
  BY PredTask
<1> QED BY <1>1 DEF PredsLinked

LEMMA PredsLinkedStep ==
  ASSUME Hypotheses, IInv, OrderInv, [Next]_vars
  PROVE  PredsLinked'
<1>0. Parts /\ IInv /\ PredsLinked /\ BodyNotDone /\ KernelsOrdered /\ OperationsOrdered
  BY DEF Hypotheses, IInv, OrderInv
<1>t. Ranges
  BY <1>0 DEF Types, CountTypes, EventTypes, WorkTypes, CudaTypes
<1>1. CASE UNCHANGED <<emplaced, followers, main, post, stream_idx>>
  BY <1>0, <1>1, PredsLinkedKept DEF Old, Born
<1>2. CASE UNCHANGED vars
  BY <1>1, <1>2 DEF vars
<1>3. ASSUME NEW w \in Worker,
             (\E t \in Task : GatherReady(w, t)) \/ GatherNothing(w) \/ Execute(w)
             \/ Compute(w) \/ PushRequest(w) \/ Yield(w) \/ PauseReset(w) \/ PauseFollow(w)
             \/ PauseAppend(w) \/ PauseCount(w) \/ PauseUp(w) \/ PauseNotify(w) \/ SetResult(w)
             \/ WakeMain(w)
      PROVE  PredsLinked'
  BY <1>1, <1>3 DEF GatherReady, GatherNothing, Execute, Compute, PushRequest, Yield, PauseReset,
      PauseFollow, PauseAppend, PauseCount, PauseUp, PauseNotify, SetResult, WakeMain,
      AfterTask, Goto
<1>4. ASSUME PollNothing \/ Poll \/ PollStatus \/ PollResume \/ LaunchedPre \/ CudaPollNothing
      PROVE  PredsLinked'
  BY <1>1, <1>4 DEF PollNothing, Poll, PollStatus, PollResume, LaunchedPre, CudaPollNothing, Goto
<1>5. ASSUME NEW t \in Task, RequestCompletes(t) PROVE PredsLinked'
  BY <1>1, <1>5 DEF RequestCompletes
<1>6. ASSUME NEW i \in DOMAIN streams, StreamStep(i) PROVE PredsLinked'
  BY <1>1, <1>6 DEF StreamStep
<1>7. ASSUME NEW w \in Worker, NEW t \in Task, InitDependencies(w, t) PROVE PredsLinked'
  <2>1. /\ emplaced' = emplaced \ {t} /\ UNCHANGED <<main, post, stream_idx>>
        /\ followers' = [p \in Task |-> [e \in {"pre", "post"} |->
             IF <<p, e>> \in Edges(t) THEN followers[p][e] \union {t} ELSE followers[p][e]]]
    BY <1>7 DEF InitDependencies
  <2>2. \A u \in Task : u # t /\ Old(u)' => Old(u)
    BY <2>1 DEF Old, Born
  <2>3. ASSUME NEW u \in Task, Old(u)', NEW p \in Preds[u]
        PROVE  \/ post'[p] = 0
               \/ u \in followers'[p]["post"]
               \/ Sched[u] = "cuda" /\ stream_idx'[p] # NoStream
    <3>1. p \in Task
      BY PredTask
    <3>2. \A x \in Task : x \in followers[p]["post"] => x \in followers'[p]["post"]
      BY <1>t, <2>1, <3>1
    <3>3. CASE u # t
      BY <1>0, <2>1, <2>2, <2>3, <3>2, <3>3 DEF PredsLinked
    <3>4. CASE u = t
      <4>1. CASE DependsOnPre(p, t)
        BY <2>1, <3>4, <4>1 DEF DependsOnPre
      <4>2. CASE ~ DependsOnPre(p, t) /\ post[p] # 0
        <5>1. <<p, "post">> \in Preds[t] \X {"pre", "post"} /\ <<p, "post">>[1] = p /\ <<p, "post">>[2] = "post"
          BY <2>3, <3>4
        <5>2. <<p, "post">> \in Edges(t)
          BY <4>2, <5>1 DEF Edges
        <5>3. t \in followers'[p]["post"]
          BY <2>1, <3>1, <5>2
        <5> QED BY <3>4, <5>3
      <4>3. CASE post[p] = 0
        BY <2>1, <4>3
      <4> QED BY <4>1, <4>2, <4>3
    <3> QED BY <3>3, <3>4
  <2> QED BY <2>3 DEF PredsLinked
<1>8. ASSUME NEW w \in Worker, GetStatus(w) PROVE PredsLinked'
  <2>1. HasTask(w)
    BY <1>0, <1>8, HeldFacts DEF GetStatus, TaskPC
  <2>2. /\ pc[w] = "body" /\ cur[w] \in Request
        /\ post' = [post EXCEPT ![cur[w]] = Up(post[cur[w]])]
    BY <1>8 DEF GetStatus, Goto, MakeEvent
  <2>6. Underway(cur[w])
    BY <1>0, <2>1, HeldTouched
  <2>8. UNCHANGED <<main, emplaced, followers, stream_idx>>
    BY <1>8 DEF GetStatus
  <2>9. \A u \in Task : Old(u)' => Old(u)
    BY <2>8 DEF Old, Born
  <2>10. post[cur[w]] # 0
    BY <1>0, <2>1, <2>6, PostPositive
  <2>11. \A p \in Task : post[p] = 0 => post'[p] = 0
    BY <1>t, <2>2, <2>10
  <2> QED BY <1>0, <2>8, <2>9, <2>11, PredsLinkedKept
<1>9. ASSUME NEW w \in Worker, FinishTask(w) PROVE PredsLinked'
  <2>1. HasTask(w)
    BY <1>0, <1>9, HeldFacts DEF FinishTask, TaskPC
  <2>2. pc[w] = "post"
    BY <1>9 DEF FinishTask, Goto, AfterTask
  <2>4. PICK R \in SUBSET Task : ReleaseStep(R, NoTask)
    BY <1>0, <1>9, FinishTaskEffect
  <2>5. post' = [post EXCEPT ![cur[w]] = post[cur[w]] - 1] /\ post[cur[w]] # 0
    BY <1>0, <1>9, FinishTaskEffect
  <2>8. UNCHANGED <<main, emplaced, followers, stream_idx>>
    BY <1>9 DEF FinishTask
  <2>9. \A u \in Task : Old(u)' => Old(u)
    BY <2>8 DEF Old, Born
  <2>11. \A p \in Task : post[p] = 0 => post'[p] = 0
    BY <1>t, <2>5
  <2> QED BY <1>0, <2>8, <2>9, <2>11, PredsLinkedKept
<1>10. CASE PollErase
  <2>1. Polled
    BY <1>0, <1>10, PolledTasks DEF PollErase, PollPC
  <2>2. pc["mpi"] = "erase"
    BY <1>10 DEF PollErase, Goto, AfterPoll, TestStop, Current
  <2>4. PICK R \in SUBSET Task : ReleaseStep(R, NoTask)
    BY <1>0, <1>10, PollEraseEffect
  <2>5. post' = [post EXCEPT ![Current] = post[Current] - 1] /\ post[Current] # 0
    BY <1>0, <1>10, PollEraseEffect
  <2>8. UNCHANGED <<main, emplaced, followers, stream_idx>>
    BY <1>10 DEF PollErase
  <2>9. \A u \in Task : Old(u)' => Old(u)
    BY <2>8 DEF Old, Born
  <2>11. \A p \in Task : post[p] = 0 => post'[p] = 0
    BY <1>t, <2>5
  <2> QED BY <1>0, <2>8, <2>9, <2>11, PredsLinkedKept
<1>11. CASE Launch
  <2>1. CudaHasTask
    BY <1>0, <1>11, HeldFacts, WorkerFacts DEF Launch, TaskPC
  <2>2. /\ pc["cuda"] = "body"
        /\ stream_idx' = [stream_idx EXCEPT ![cur["cuda"]] = next_stream % NumStreams]
    BY <1>11 DEF Launch, Goto
  <2>8. UNCHANGED <<main, emplaced, followers, post>>
    BY <1>11 DEF Launch
  <2>9. \A u \in Task : Old(u)' => Old(u)
    BY <2>8 DEF Old, Born
  <2>10. \A p \in Task : stream_idx[p] # NoStream => stream_idx'[p] # NoStream
    <3>1. next_stream % NumStreams # NoStream
      BY <1>0, DispatchAssumption DEF Types, CudaTypes, NoStream
    <3> QED BY <1>t, <2>1, <2>2, <3>1
  <2> QED BY <1>0, <2>8, <2>9, <2>10, PredsLinkedKept
<1>12. CASE RecordEvent
  <2>1. CudaHasTask
    BY <1>0, <1>12, HeldFacts, WorkerFacts DEF RecordEvent, TaskPC
  <2>2. /\ pc["cuda"] = "record"
        /\ post' = [post EXCEPT ![cur["cuda"]] = Up(post[cur["cuda"]])]
    BY <1>12 DEF RecordEvent, Goto, MakeEvent
  <2>6. Underway(cur["cuda"])
    BY <1>0, <2>1, HeldTouched, WorkerFacts
  <2>8. UNCHANGED <<main, emplaced, followers, stream_idx>>
    BY <1>12 DEF RecordEvent
  <2>9. \A u \in Task : Old(u)' => Old(u)
    BY <2>8 DEF Old, Born
  <2>10. post[cur["cuda"]] # 0
    BY <1>0, <2>1, <2>6, PostPositive
  <2>11. \A p \in Task : post[p] = 0 => post'[p] = 0
    BY <1>t, <2>2, <2>10
  <2> QED BY <1>0, <2>8, <2>9, <2>11, PredsLinkedKept
<1>13. CASE CudaPoll
  <2>1. FrontPolled
    BY <1>0, <1>13, PolledTasks DEF CudaPoll, FrontDone
  <2>2. pc["cuda"] = "poll" /\ FrontDone
    BY <1>13 DEF CudaPoll, Goto, AfterPoll, TestStop
  <2>4. PICK R \in SUBSET Task : ReleaseStep(R, NoTask)
    BY <1>0, <1>13, CudaPollEffect
  <2>5. /\ post' = [post EXCEPT ![Front] = post[Front] - 1]
        /\ post[Front] # 0
    BY <1>0, <1>13, CudaPollEffect
  <2>8. UNCHANGED <<main, emplaced, followers, stream_idx>>
    BY <1>13 DEF CudaPoll
  <2>9. \A u \in Task : Old(u)' => Old(u)
    BY <2>8 DEF Old, Born
  <2>11. \A p \in Task : post[p] = 0 => post'[p] = 0
    BY <1>t, <2>5
  <2> QED BY <1>0, <2>8, <2>9, <2>11, PredsLinkedKept
<1>14. CASE Emplace
  <2>1. \A t \in Task : Old(t)' => Old(t)
    BY <1>0, <1>14, EmplaceEffect
  <2>2. UNCHANGED <<post, followers, stream_idx>>
    BY <1>14 DEF Emplace, OnlyMain
  <2> QED BY <1>0, <2>1, <2>2, PredsLinkedKept
<1>15. CASE EndOfProgram
  <2>1. \A t \in Task : Old(t)' => Old(t)
    BY <1>0, <1>15, BornKept
  <2>2. UNCHANGED <<post, followers, stream_idx>>
    BY <1>15 DEF EndOfProgram, OnlyMain
  <2> QED BY <1>0, <2>1, <2>2, PredsLinkedKept
<1>16. CASE EnterWaker
  <2>1. \A t \in Task : Old(t)' => Old(t)
    BY <1>0, <1>16, BornKept
  <2>2. UNCHANGED <<post, followers, stream_idx>>
    BY <1>16 DEF EnterWaker, OnlyMain
  <2> QED BY <1>0, <2>1, <2>2, PredsLinkedKept
<1>17. CASE TestResult
  <2>1. \A t \in Task : Old(t)' => Old(t)
    BY <1>0, <1>17, BornKept
  <2>2. UNCHANGED <<post, followers, stream_idx>>
    BY <1>17 DEF TestResult, OnlyMain
  <2> QED BY <1>0, <2>1, <2>2, PredsLinkedKept
<1>18. CASE Idle
  <2>1. \A t \in Task : Old(t)' => Old(t)
    BY <1>0, <1>18, BornKept
  <2>2. UNCHANGED <<post, followers, stream_idx>>
    BY <1>18 DEF Idle, OnlyMain
  <2> QED BY <1>0, <2>1, <2>2, PredsLinkedKept
<1>19. CASE TakeResult
  <2>1. \A t \in Task : Old(t)' => Old(t)
    BY <1>0, <1>19, BornKept
  <2>2. UNCHANGED <<post, followers, stream_idx>>
    BY <1>19 DEF TakeResult, OnlyMain
  <2> QED BY <1>0, <2>1, <2>2, PredsLinkedKept
<1>20. CASE Barrier
  <2>1. \A t \in Task : Old(t)' => Old(t)
    BY <1>0, <1>20, BornKept
  <2>2. UNCHANGED <<post, followers, stream_idx>>
    BY <1>20 DEF Barrier, OnlyMain
  <2> QED BY <1>0, <2>1, <2>2, PredsLinkedKept
<1>21. CASE Stop
  <2>1. \A t \in Task : Old(t)' => Old(t)
    BY <1>0, <1>21, BornKept
  <2>2. UNCHANGED <<post, followers, stream_idx>>
    BY <1>21 DEF Stop, OnlyMain
  <2> QED BY <1>0, <2>1, <2>2, PredsLinkedKept
<1>22. CASE Join
  <2>1. \A t \in Task : Old(t)' => Old(t)
    BY <1>0, <1>22, BornKept
  <2>2. UNCHANGED <<post, followers, stream_idx>>
    BY <1>22 DEF Join, OnlyMain
  <2> QED BY <1>0, <2>1, <2>2, PredsLinkedKept
<1> QED
  BY <1>2, <1>3, <1>4, <1>5, <1>6, <1>7, <1>8, <1>9, <1>10, <1>11, <1>12, <1>13, <1>14, <1>15,
     <1>16, <1>17, <1>18, <1>19, <1>20, <1>21, <1>22
  DEF Next, WorkerStep, MpiStep, CudaStep, MainStep, Ended

LEMMA BodyNotDoneStep ==
  ASSUME Hypotheses, IInv, OrderInv, [Next]_vars
  PROVE  BodyNotDone'
<1>0. Parts /\ IInv /\ PredsLinked /\ BodyNotDone /\ KernelsOrdered /\ OperationsOrdered
  BY DEF Hypotheses, IInv, OrderInv
<1>t. Ranges
  BY <1>0 DEF Types, CountTypes, EventTypes, WorkTypes, CudaTypes
<1>1. CASE UNCHANGED <<cur, op, pc>>
  BY <1>0, <1>1, <1>t DEF BodyNotDone
<1>2. CASE UNCHANGED vars
  BY <1>1, <1>2 DEF vars
<1>3. ASSUME \/ Emplace \/ EndOfProgram \/ EnterWaker \/ TestResult \/ Idle \/ TakeResult
             \/ Barrier \/ Stop \/ Join
      PROVE  BodyNotDone'
  BY <1>1, <1>3
  DEF Emplace, EndOfProgram, EnterWaker, TestResult, Idle, TakeResult, Barrier, Stop, Join,
      MainGoto, OnlyMain
<1>4. ASSUME NEW w \in Worker, NEW t \in Task, GatherReady(w, t) PROVE BodyNotDone'
  <2>2. /\ pc[w] = "gather" /\ Sched[t] = SchedOf(w) /\ ready[t] > 0
        /\ pc' = [pc EXCEPT ![w] = "execute"]
        /\ cur' = [cur EXCEPT ![w] = t]
        /\ UNCHANGED <<op>>
    BY <1>4 DEF GatherReady, Goto, Mine
  <2> QED BY <1>0, <1>t, <2>2, WorkerFacts DEF BodyNotDone
<1>5. ASSUME NEW w \in Worker, NEW t \in Task, InitDependencies(w, t) PROVE BodyNotDone'
  <2>1. /\ pc[w] = "gather" /\ UNCHANGED op
        /\ \/ pc' = pc /\ cur' = cur
           \/ pc' = [pc EXCEPT ![w] = "execute"] /\ cur' = [cur EXCEPT ![w] = t]
    BY <1>5 DEF InitDependencies, Goto
  <2> QED BY <1>0, <1>t, <2>1 DEF BodyNotDone
<1>6. ASSUME NEW w \in Worker, GatherNothing(w) PROVE BodyNotDone'
  <2>2. /\ pc[w] = "gather"
        /\ \E p \in {"gather", "stopped", "poll"} :
             (p = "poll" => w \notin PoolWorker) /\ pc' = [pc EXCEPT ![w] = p]
        /\ UNCHANGED <<cur, op>>
    BY <1>6 DEF GatherNothing, Goto, TestStop
  <2> QED BY <1>0, <1>t, <2>2, WorkerFacts DEF BodyNotDone
<1>7. ASSUME NEW w \in Worker, Execute(w) PROVE BodyNotDone'
  <2>1. HasTask(w)
    BY <1>0, <1>7, HeldFacts DEF Execute, TaskPC
  <2>2. /\ pc[w] = "execute"
        /\ pc' = [pc EXCEPT ![w] = IF ext[cur[w]] = "none" THEN "body" ELSE "check"]
        /\ UNCHANGED <<cur, op>>
    BY <1>7 DEF Execute, Goto
  <2>4. pc'[w] = "body" => op[cur[w]] = "none"
    BY <1>0, <1>t, <2>1, <2>2 DEF HeldProgress, Runnable
  <2> QED BY <1>0, <1>t, <2>2, <2>4 DEF BodyNotDone
<1>8. ASSUME NEW w \in Worker, Compute(w) PROVE BodyNotDone'
  <2>1. HasTask(w)
    BY <1>0, <1>8, HeldFacts DEF Compute, TaskPC
  <2>2. /\ pc[w] = "body" /\ w # "cuda" /\ cur[w] \notin Request
        /\ pc' = (IF op[cur[w]] = "running" THEN [pc EXCEPT ![w] = "result"] ELSE pc)
        /\ op' = [op EXCEPT ![cur[w]] = IF op[cur[w]] = "running" THEN "done" ELSE "running"]
        /\ UNCHANGED <<cur>>
    BY <1>8 DEF Compute, Goto
  <2>4. \A v \in Worker : v # w => cur[v] # cur[w]
    BY <1>0, <2>1, TaskFacts, WorkerFacts DEF HeldOnce
  <2>5. \A v \in Worker : v # w => pc'[v] = pc[v]
    BY <1>t, <2>2
  <2>6. \A v \in Worker : v # w => op'[cur[v]] = op[cur[v]]
    BY <1>t, <2>2, <2>4
  <2>7. pc'[w] = "body" => op'[cur[w]] # "done"
    BY <1>t, <2>1, <2>2, WorkerFacts
  <2> QED BY <1>0, <2>2, <2>5, <2>6, <2>7 DEF BodyNotDone
<1>9. ASSUME NEW w \in Worker, GetStatus(w) PROVE BodyNotDone'
  <2>1. HasTask(w)
    BY <1>0, <1>9, HeldFacts DEF GetStatus, TaskPC
  <2>2. /\ pc[w] = "body" /\ cur[w] \in Request
        /\ pc' = [pc EXCEPT ![w] = "push"]
        /\ op' = [op EXCEPT ![cur[w]] = "running"]
        /\ UNCHANGED <<cur>>
    BY <1>9 DEF GetStatus, Goto, MakeEvent
  <2>4. \A v \in Worker : v # w => cur[v] # cur[w]
    BY <1>0, <2>1, TaskFacts, WorkerFacts DEF HeldOnce
  <2>5. \A v \in Worker : v # w => pc'[v] = pc[v]
    BY <1>t, <2>2
  <2>6. \A v \in Worker : v # w => op'[cur[v]] = op[cur[v]]
    BY <1>t, <2>2, <2>4
  <2>7. pc'[w] = "body" => op'[cur[w]] # "done"
    BY <1>t, <2>1, <2>2, WorkerFacts
  <2> QED BY <1>0, <2>2, <2>5, <2>6, <2>7 DEF BodyNotDone
<1>10. ASSUME NEW w \in Worker, PushRequest(w) PROVE BodyNotDone'
  <2>1. HasTask(w)
    BY <1>0, <1>10, HeldFacts DEF PushRequest, TaskPC
  <2>2. /\ pc[w] = "push" /\ mutex = "free"
        /\ pc' = [pc EXCEPT ![w] = "check"]
        /\ UNCHANGED <<cur, op>>
    BY <1>10 DEF PushRequest, Goto
  <2> QED BY <1>0, <1>t, <2>1, <2>2, WorkerFacts DEF BodyNotDone
<1>11. ASSUME NEW w \in Worker, Yield(w) PROVE BodyNotDone'
  <2>1. HasTask(w)
    BY <1>0, <1>11, HeldFacts DEF Yield, TaskPC
  <2>2. /\ pc[w] = "check"
        /\ pc' = [pc EXCEPT ![w] = IF ext[cur[w]] = "reached" THEN "result" ELSE "reset"]
        /\ UNCHANGED <<cur, op>>
    BY <1>11 DEF Yield, Goto
  <2> QED BY <1>0, <1>t, <2>1, <2>2, WorkerFacts DEF BodyNotDone
<1>12. ASSUME NEW w \in Worker, PauseReset(w) PROVE BodyNotDone'
  <2>1. HasTask(w)
    BY <1>0, <1>12, HeldFacts DEF PauseReset, TaskPC
  <2>2. /\ pc[w] = "reset"
        /\ pc' = [pc EXCEPT ![w] = "follow"]
        /\ UNCHANGED <<cur, op>>
    BY <1>12 DEF PauseReset, Goto
  <2> QED BY <1>0, <1>t, <2>1, <2>2, WorkerFacts DEF BodyNotDone
<1>13. ASSUME NEW w \in Worker, PauseFollow(w) PROVE BodyNotDone'
  <2>1. HasTask(w)
    BY <1>0, <1>13, HeldFacts DEF PauseFollow, TaskPC
  <2>2. /\ pc[w] = "follow"
        /\ pc' = [pc EXCEPT ![w] = IF ext[cur[w]] = "reached" THEN "up" ELSE "append"]
        /\ UNCHANGED <<cur, op>>
    BY <1>13 DEF PauseFollow, Goto
  <2> QED BY <1>0, <1>t, <2>1, <2>2, WorkerFacts DEF BodyNotDone
<1>14. ASSUME NEW w \in Worker, PauseAppend(w) PROVE BodyNotDone'
  <2>1. HasTask(w)
    BY <1>0, <1>14, HeldFacts DEF PauseAppend, TaskPC
  <2>2. /\ pc[w] = "append"
        /\ pc' = [pc EXCEPT ![w] = "count"]
        /\ UNCHANGED <<cur, op>>
    BY <1>14 DEF PauseAppend, Goto
  <2> QED BY <1>0, <1>t, <2>1, <2>2, WorkerFacts DEF BodyNotDone
<1>15. ASSUME NEW w \in Worker, PauseCount(w) PROVE BodyNotDone'
  <2>1. HasTask(w)
    BY <1>0, <1>15, HeldFacts DEF PauseCount, TaskPC
  <2>2. /\ pc[w] = "count"
        /\ pc' = [pc EXCEPT ![w] = "up"]
        /\ UNCHANGED <<cur, op>>
    BY <1>15 DEF PauseCount, Goto
  <2> QED BY <1>0, <1>t, <2>1, <2>2, WorkerFacts DEF BodyNotDone
<1>16. ASSUME NEW w \in Worker, PauseUp(w) PROVE BodyNotDone'
  <2>1. HasTask(w)
    BY <1>0, <1>16, HeldFacts DEF PauseUp, TaskPC
  <2>2. /\ pc[w] = "up"
        /\ pc' = [pc EXCEPT ![w] = "notify"]
        /\ UNCHANGED <<cur, op>>
    BY <1>16 DEF PauseUp, Goto
  <2> QED BY <1>0, <1>t, <2>1, <2>2, WorkerFacts DEF BodyNotDone
<1>17. ASSUME NEW w \in Worker, PauseNotify(w) PROVE BodyNotDone'
  <2>1. HasTask(w)
    BY <1>0, <1>17, HeldFacts DEF PauseNotify, TaskPC
  <2>2. /\ pc[w] = "notify"
        /\ pc' = [pc EXCEPT ![w] = IF w \in PoolWorker THEN "gather" ELSE "poll"]
        /\ cur' = [cur EXCEPT ![w] = NoTask]
        /\ UNCHANGED <<op>>
    BY <1>17 DEF PauseNotify, Goto, AfterTask
  <2> QED BY <1>0, <1>t, <2>1, <2>2, WorkerFacts DEF BodyNotDone
<1>18. ASSUME NEW w \in Worker, SetResult(w) PROVE BodyNotDone'
  <2>1. HasTask(w)
    BY <1>0, <1>18, HeldFacts DEF SetResult, TaskPC
  <2>2. /\ pc[w] = "result"
        /\ pc' = [pc EXCEPT ![w] = "wake"]
        /\ UNCHANGED <<cur, op>>
    BY <1>18 DEF SetResult, Goto
  <2> QED BY <1>0, <1>t, <2>1, <2>2, WorkerFacts DEF BodyNotDone
<1>19. ASSUME NEW w \in Worker, WakeMain(w) PROVE BodyNotDone'
  <2>1. HasTask(w)
    BY <1>0, <1>19, HeldFacts DEF WakeMain, TaskPC
  <2>2. /\ pc[w] = "wake"
        /\ pc' = [pc EXCEPT ![w] = IF w = "cuda" THEN "record" ELSE "post"]
        /\ UNCHANGED <<cur, op>>
    BY <1>19 DEF WakeMain, Goto
  <2> QED BY <1>0, <1>t, <2>1, <2>2, WorkerFacts DEF BodyNotDone
<1>20. ASSUME NEW w \in Worker, FinishTask(w) PROVE BodyNotDone'
  <2>1. HasTask(w)
    BY <1>0, <1>20, HeldFacts DEF FinishTask, TaskPC
  <2>2. /\ pc[w] = "post"
        /\ pc' = [pc EXCEPT ![w] = IF w \in PoolWorker THEN "gather" ELSE "poll"]
        /\ cur' = [cur EXCEPT ![w] = NoTask]
        /\ UNCHANGED <<op>>
    BY <1>20 DEF FinishTask, Goto, AfterTask
  <2> QED BY <1>0, <1>t, <2>1, <2>2, WorkerFacts DEF BodyNotDone
<1>21. CASE PollNothing
  <2>2. /\ pc["mpi"] = "poll"
        /\ \E p \in {"gather", "stopped"} : pc' = [pc EXCEPT !["mpi"] = p]
        /\ UNCHANGED <<cur, op>>
    BY <1>21 DEF PollNothing, Goto, AfterPoll, TestStop
  <2> QED BY <1>0, <1>t, <2>2, WorkerFacts DEF BodyNotDone
<1>22. CASE Poll
  <2>2. /\ pc["mpi"] = "poll" /\ mutex = "free"
        /\ pc' = [pc EXCEPT !["mpi"] = "status"]
        /\ UNCHANGED <<cur, op>>
    BY <1>22 DEF Poll, Goto
  <2> QED BY <1>0, <1>t, <2>2, WorkerFacts DEF BodyNotDone
<1>23. CASE PollStatus
  <2>1. Polled
    BY <1>0, <1>23, PolledTasks DEF PollStatus, PollPC
  <2>2. /\ pc["mpi"] = "status"
        /\ pc' = [pc EXCEPT !["mpi"] = IF paused[Current] THEN "resume" ELSE "erase"]
        /\ UNCHANGED <<cur, op>>
    BY <1>23 DEF PollStatus, Goto, OutStatus, Current
  <2> QED BY <1>0, <1>t, <2>1, <2>2, WorkerFacts DEF BodyNotDone
<1>24. CASE PollResume
  <2>1. Polled
    BY <1>0, <1>24, PolledTasks DEF PollResume, PollPC
  <2>2. /\ pc["mpi"] = "resume"
        /\ pc' = [pc EXCEPT !["mpi"] = "erase"]
        /\ UNCHANGED <<cur, op>>
    BY <1>24 DEF PollResume, Goto
  <2> QED BY <1>0, <1>t, <2>1, <2>2, WorkerFacts DEF BodyNotDone
<1>25. CASE PollErase
  <2>1. Polled
    BY <1>0, <1>25, PolledTasks DEF PollErase, PollPC
  <2>2. /\ pc["mpi"] = "erase"
        /\ \E p \in (IF slot = Len(indices) THEN {"gather", "stopped"} ELSE {"status"}) :
             pc' = [pc EXCEPT !["mpi"] = p]
        /\ UNCHANGED <<cur, op>>
    BY <1>25 DEF PollErase, Goto, AfterPoll, TestStop, Current
  <2> QED BY <1>0, <1>t, <2>1, <2>2, WorkerFacts DEF BodyNotDone
<1>26. CASE Launch
  <2>1. CudaHasTask
    BY <1>0, <1>26, HeldFacts, WorkerFacts DEF Launch, TaskPC
  <2>2. /\ pc["cuda"] = "body"
        /\ pc' = [pc EXCEPT !["cuda"] = "result"]
        /\ op' = [op EXCEPT ![cur["cuda"]] = "queued"]
        /\ UNCHANGED <<cur>>
    BY <1>26 DEF Launch, Goto
  <2>4. \A v \in Worker : v # "cuda" => cur[v] # cur["cuda"]
    BY <1>0, <2>1, TaskFacts, WorkerFacts DEF HeldOnce
  <2>5. \A v \in Worker : v # "cuda" => pc'[v] = pc[v]
    BY <1>t, <2>2
  <2>6. \A v \in Worker : v # "cuda" => op'[cur[v]] = op[cur[v]]
    BY <1>t, <2>2, <2>4
  <2>7. pc'["cuda"] = "body" => op'[cur["cuda"]] # "done"
    BY <1>t, <2>1, <2>2, WorkerFacts
  <2> QED BY <1>0, <2>2, <2>5, <2>6, <2>7 DEF BodyNotDone
<1>27. CASE RecordEvent
  <2>1. CudaHasTask
    BY <1>0, <1>27, HeldFacts, WorkerFacts DEF RecordEvent, TaskPC
  <2>2. /\ pc["cuda"] = "record"
        /\ pc' = [pc EXCEPT !["cuda"] = "pre"]
        /\ UNCHANGED <<cur, op>>
    BY <1>27 DEF RecordEvent, Goto, MakeEvent
  <2> QED BY <1>0, <1>t, <2>1, <2>2, WorkerFacts DEF BodyNotDone
<1>28. CASE LaunchedPre
  <2>1. CudaHasTask
    BY <1>0, <1>28, HeldFacts, WorkerFacts DEF LaunchedPre, TaskPC
  <2>2. /\ pc["cuda"] = "pre"
        /\ pc' = [pc EXCEPT !["cuda"] = "post"]
        /\ UNCHANGED <<cur, op>>
    BY <1>28 DEF LaunchedPre, Goto
  <2> QED BY <1>0, <1>t, <2>1, <2>2, WorkerFacts DEF BodyNotDone
<1>29. CASE CudaPollNothing
  <2>2. /\ pc["cuda"] = "poll"
        /\ \E p \in {"gather", "stopped"} : pc' = [pc EXCEPT !["cuda"] = p]
        /\ UNCHANGED <<cur, op>>
    BY <1>29 DEF CudaPollNothing, Goto, AfterPoll, TestStop
  <2> QED BY <1>0, <1>t, <2>2, WorkerFacts DEF BodyNotDone
<1>30. CASE CudaPoll
  <2>1. FrontPolled
    BY <1>0, <1>30, PolledTasks DEF CudaPoll, FrontDone
  <2>2. /\ pc["cuda"] = "poll" /\ FrontDone
        /\ \E p \in {"gather", "stopped"} : pc' = [pc EXCEPT !["cuda"] = p]
        /\ UNCHANGED <<cur, op>>
    BY <1>30 DEF CudaPoll, Goto, AfterPoll, TestStop
  <2> QED BY <1>0, <1>t, <2>1, <2>2, WorkerFacts DEF BodyNotDone
<1>31. ASSUME NEW t \in Task, RequestCompletes(t) PROVE BodyNotDone'
  <2>1. op' = [op EXCEPT ![t] = "done"] /\ t \in Request /\ op[t] = "running" /\ UNCHANGED <<pc, cur>>
    BY <1>31 DEF RequestCompletes
  <2>2. \A w \in Worker : pc[w] = "body" => cur[w] # t
    BY <1>0, <2>1 DEF HeldProgress
  <2>3. \A w \in Worker : cur[w] # t => op'[cur[w]] = op[cur[w]]
    BY <1>t, <2>1
  <2> QED BY <1>0, <2>1, <2>2, <2>3 DEF BodyNotDone
<1>32. ASSUME NEW i \in DOMAIN streams, StreamStep(i) PROVE BodyNotDone'
  <2>1. op' = op \/ \E k \in Task : stream_idx[k] # NoStream /\ \A u \in Task : u # k => op'[u] = op[u]
    BY ZenonT(60), <1>0, <1>t, <1>32, StreamEffect
  <2>2. UNCHANGED <<pc, cur>>
    BY <1>32 DEF StreamStep
  <2>3. CASE op' = op
    BY <1>0, <2>2, <2>3 DEF BodyNotDone
  <2>4. ASSUME NEW k \in Task, stream_idx[k] # NoStream, \A u \in Task : u # k => op'[u] = op[u]
        PROVE  BodyNotDone'
    <3>1. \A w \in Worker : pc[w] = "body" => cur[w] # k /\ cur[w] \in Task
      BY <1>0, <1>t, <2>4 DEF HeldProgress, WorkersMatch, TaskPC
    <3>2. \A w \in Worker : pc[w] = "body" => op'[cur[w]] = op[cur[w]]
      BY <2>4, <3>1
    <3> QED BY <1>0, <2>2, <3>1, <3>2 DEF BodyNotDone
  <2> QED BY <2>1, <2>3, <2>4
<1> QED
  BY <1>2, <1>3, <1>4, <1>5, <1>6, <1>7, <1>8, <1>9, <1>10, <1>11, <1>12, <1>13, <1>14, <1>15,
     <1>16, <1>17, <1>18, <1>19, <1>20, <1>21, <1>22, <1>23, <1>24, <1>25, <1>26, <1>27, <1>28,
     <1>29, <1>30, <1>31, <1>32
  DEF Next, WorkerStep, MpiStep, CudaStep, MainStep, Ended

\* What has been done stays done, and what is launched stays in its stream.
DoneKept == \A p \in Task : /\ op[p] = "done" => op'[p] = "done"
                            /\ stream_idx[p] # NoStream => stream_idx'[p] = stream_idx[p]

LEMMA DoneKeptStep ==
  ASSUME Hypotheses, IInv, OrderInv, [Next]_vars
  PROVE  DoneKept
<1>0. Parts /\ IInv /\ PredsLinked /\ BodyNotDone /\ KernelsOrdered /\ OperationsOrdered
  BY DEF Hypotheses, IInv, OrderInv
<1>t. Ranges
  BY <1>0 DEF Types, CountTypes, EventTypes, WorkTypes, CudaTypes
<1>1. CASE UNCHANGED <<op, stream_idx>>
  BY <1>0, <1>1, <1>t DEF DoneKept
<1>2. CASE UNCHANGED vars
  BY <1>1, <1>2 DEF vars
<1>3. ASSUME NEW w \in Worker,
             (\E t \in Task : GatherReady(w, t)) \/ (\E t \in Task : InitDependencies(w, t))
             \/ GatherNothing(w) \/ Execute(w) \/ PushRequest(w) \/ Yield(w) \/ PauseReset(w)
             \/ PauseFollow(w) \/ PauseAppend(w) \/ PauseCount(w) \/ PauseUp(w)
             \/ PauseNotify(w) \/ SetResult(w) \/ WakeMain(w) \/ FinishTask(w)
      PROVE  DoneKept
  BY <1>1, <1>3
  DEF GatherReady, InitDependencies, GatherNothing, Execute, PushRequest, Yield, PauseReset,
      PauseFollow, PauseAppend, PauseCount, PauseUp, PauseNotify, SetResult, WakeMain,
      FinishTask, AfterTask, Goto
<1>4. ASSUME \/ PollNothing \/ Poll \/ PollStatus \/ PollResume \/ PollErase \/ RecordEvent
             \/ LaunchedPre \/ CudaPollNothing \/ CudaPoll \/ Emplace \/ EndOfProgram
             \/ EnterWaker \/ TestResult \/ Idle \/ TakeResult \/ Barrier \/ Stop \/ Join
      PROVE  DoneKept
  BY <1>1, <1>4 DEF PollNothing, Poll, PollStatus, PollResume, PollErase, RecordEvent, LaunchedPre,
      CudaPollNothing, CudaPoll, Emplace, EndOfProgram, EnterWaker, TestResult, Idle,
      TakeResult, Barrier, Stop, Join, Goto, MainGoto, MakeEvent, OnlyMain
<1>5. ASSUME NEW w \in Worker, Compute(w) PROVE DoneKept
  <2>1. HasTask(w)
    BY <1>0, <1>5, HeldFacts DEF Compute, TaskPC
  <2>2. /\ pc[w] = "body" /\ w # "cuda" /\ cur[w] \notin Request
        /\ op' = [op EXCEPT ![cur[w]] = IF op[cur[w]] = "running" THEN "done" ELSE "running"]
        /\ stream_idx' = stream_idx
    BY <1>5 DEF Compute, Goto
  <2>4. op[cur[w]] # "done"
    BY <1>0, <2>2, WorkerFacts DEF BodyNotDone
  <2> QED BY <1>t, <2>1, <2>2, <2>4 DEF DoneKept
<1>6. ASSUME NEW w \in Worker, GetStatus(w) PROVE DoneKept
  <2>1. HasTask(w)
    BY <1>0, <1>6, HeldFacts DEF GetStatus, TaskPC
  <2>2. /\ pc[w] = "body" /\ cur[w] \in Request
        /\ op' = [op EXCEPT ![cur[w]] = "running"] /\ stream_idx' = stream_idx
    BY <1>6 DEF GetStatus, Goto, MakeEvent
  <2>4. op[cur[w]] # "done"
    BY <1>0, <2>2, WorkerFacts DEF BodyNotDone
  <2> QED BY <1>t, <2>1, <2>2, <2>4 DEF DoneKept
<1>7. ASSUME Launch PROVE DoneKept
  <2>1. CudaHasTask
    BY <1>0, <1>7, HeldFacts, WorkerFacts DEF Launch, TaskPC
  <2>2. /\ pc["cuda"] = "body"
        /\ op' = [op EXCEPT ![cur["cuda"]] = "queued"]
        /\ stream_idx' = [stream_idx EXCEPT ![cur["cuda"]] = next_stream % NumStreams]
    BY <1>7 DEF Launch, Goto
  <2>4. op[cur["cuda"]] # "done" /\ stream_idx[cur["cuda"]] = NoStream
    BY <1>0, <2>2, WorkerFacts DEF BodyNotDone, HeldProgress
  <2> QED BY <1>t, <2>1, <2>2, <2>4 DEF DoneKept
<1>8. ASSUME NEW t \in Task, RequestCompletes(t) PROVE DoneKept
  <2>1. op' = [op EXCEPT ![t] = "done"] /\ stream_idx' = stream_idx
    BY <1>8 DEF RequestCompletes
  <2> QED BY <1>t, <2>1 DEF DoneKept
<1>9. ASSUME NEW i \in DOMAIN streams, StreamStep(i) PROVE DoneKept
  <2>1. \/ op' = op
        \/ \E k \in Task : op[k] = "queued" /\ op' = [op EXCEPT ![k] = "running"]
        \/ \E k \in Task : op' = [op EXCEPT ![k] = "done"]
    BY <1>0, <1>9, StreamEffect
  <2>2. stream_idx' = stream_idx
    BY <1>9 DEF StreamStep
  <2> QED BY <1>t, <2>1, <2>2 DEF DoneKept
<1> QED BY <1>2, <1>3, <1>4, <1>5, <1>6, <1>7, <1>8, <1>9
  DEF Next, WorkerStep, MpiStep, CudaStep, MainStep, Ended

LEMMA KernelsOrderedKept ==
  ASSUME KernelsOrdered, DoneKept, UNCHANGED <<streams, stream_idx>>
  PROVE  KernelsOrdered'
<1> SUFFICES ASSUME NEW i \in 0..(NumStreams - 1), NEW t \in Task, NEW b \in DOMAIN streams[i],
                    streams[i][b] = Kernel(t), NEW p \in Preds[t], op'[p] # "done"
             PROVE  op[p] # "done"
  BY DEF KernelsOrdered
<1> QED BY PredTask DEF DoneKept

LEMMA KernelsOrderedStep ==
  ASSUME Hypotheses, IInv, OrderInv, [Next]_vars
  PROVE  KernelsOrdered'
<1>0. Parts /\ IInv /\ PredsLinked /\ BodyNotDone /\ KernelsOrdered /\ OperationsOrdered
  BY DEF Hypotheses, IInv, OrderInv
<1>t. Ranges
  BY <1>0 DEF Types, CountTypes, EventTypes, WorkTypes, CudaTypes
<1>d. DoneKept
  BY DoneKeptStep
<1>1. CASE UNCHANGED <<op, stream_idx, streams>>
  BY <1>0, <1>1, <1>t DEF KernelsOrdered
<1>2. CASE UNCHANGED vars
  BY <1>1, <1>2 DEF vars
<1>3. ASSUME NEW w \in Worker,
             (\E t \in Task : GatherReady(w, t)) \/ (\E t \in Task : InitDependencies(w, t))
             \/ GatherNothing(w) \/ Execute(w) \/ PushRequest(w) \/ Yield(w) \/ PauseReset(w)
             \/ PauseFollow(w) \/ PauseAppend(w) \/ PauseCount(w) \/ PauseUp(w)
             \/ PauseNotify(w) \/ SetResult(w) \/ WakeMain(w) \/ FinishTask(w)
      PROVE  KernelsOrdered'
  BY <1>1, <1>3
  DEF GatherReady, InitDependencies, GatherNothing, Execute, PushRequest, Yield, PauseReset,
      PauseFollow, PauseAppend, PauseCount, PauseUp, PauseNotify, SetResult, WakeMain,
      FinishTask, AfterTask, Goto
<1>4. ASSUME \/ PollNothing \/ Poll \/ PollStatus \/ PollResume \/ PollErase \/ LaunchedPre
             \/ CudaPollNothing \/ CudaPoll \/ Emplace \/ EndOfProgram \/ EnterWaker
             \/ TestResult \/ Idle \/ TakeResult \/ Barrier \/ Stop \/ Join
      PROVE  KernelsOrdered'
  BY <1>1, <1>4
  DEF PollNothing, Poll, PollStatus, PollResume, PollErase, LaunchedPre, CudaPollNothing,
      CudaPoll, Emplace, EndOfProgram, EnterWaker, TestResult, Idle, TakeResult, Barrier, Stop,
      Join, Goto, MainGoto, OnlyMain
<1>5. ASSUME NEW w \in Worker, Compute(w) PROVE KernelsOrdered'
  <2>1. UNCHANGED <<streams, stream_idx>>
    BY <1>5 DEF Compute
  <2> QED BY <1>0, <1>d, <2>1, KernelsOrderedKept
<1>6. ASSUME NEW w \in Worker, GetStatus(w) PROVE KernelsOrdered'
  <2>1. UNCHANGED <<streams, stream_idx>>
    BY <1>6 DEF GetStatus
  <2> QED BY <1>0, <1>d, <2>1, KernelsOrderedKept
<1>7. CASE Launch
  <2>1. CudaHasTask
    BY <1>0, <1>7, HeldFacts, WorkerFacts DEF Launch, TaskPC
  <2> DEFINE c == cur["cuda"]
             k == next_stream % NumStreams
  <2>2. /\ pc["cuda"] = "body"
        /\ stream_idx' = [stream_idx EXCEPT ![c] = k]
        /\ streams' = [streams EXCEPT ![k] = Append(streams[k], Kernel(c))]
    BY <1>7 DEF Launch, Goto
  <2>4. k \in 0..(NumStreams - 1)
    BY <1>0, DispatchAssumption DEF Types, CudaTypes
  <2>5. Kernel(c) \in Operation
    BY <2>1, TaskFacts DEF Kernel, Operation
  <2>8. c \in Task /\ Old(c) /\ Free(c) /\ stream_idx[c] = NoStream
    <3>1. stream_idx[c] = NoStream
      BY <1>0, <2>2, WorkerFacts DEF HeldProgress
    <3> QED BY <1>0, <2>1, <3>1, HeldTouched, WorkerFacts
  <2>9. \A t \in Task : stream_idx'[t] = IF t = c THEN k ELSE stream_idx[t]
    BY <1>t, <2>2
  <2> HIDE DEF c, k
  <2>6. /\ \A j \in 0..(NumStreams - 1) : \A a \in DOMAIN streams[j] :
             a \in DOMAIN streams'[j] /\ streams'[j][a] = streams[j][a] /\ a \in Nat
        /\ \A j \in 0..(NumStreams - 1) : \A a \in DOMAIN streams'[j] :
             \/ a \in DOMAIN streams[j] /\ streams'[j][a] = streams[j][a]
             \/ j = k /\ a = Len(streams[k]) + 1 /\ streams'[j][a] = Kernel(c)
        /\ \E a \in DOMAIN streams'[k] :
             streams'[k][a] = Kernel(c) /\ \A b \in DOMAIN streams[k] : b < a
    <3>1. Types /\ streams' = [streams EXCEPT ![k] = Append(streams[k], Kernel(c))]
      BY <1>0, <2>2
    <3> QED BY <2>4, <2>5, <3>1, StreamAppend
  <2>7. Len(streams[k]) \in Nat /\ DOMAIN streams[k] = 1..Len(streams[k])
    <3>1. streams[k] \in Seq(Operation)
      BY <1>0, <2>4 DEF Types, CudaTypes
    <3> QED BY <3>1
  <2>10. ASSUME NEW i \in 0..(NumStreams - 1), NEW t \in Task, NEW b \in DOMAIN streams'[i],
                streams'[i][b] = Kernel(t)
         PROVE  /\ stream_idx'[t] = i
                /\ \A p \in Preds[t] : op'[p] # "done" =>
                     /\ stream_idx'[p] # NoStream
                     /\ stream_idx'[p] = i => \E a \in DOMAIN streams'[i] : a < b /\ streams'[i][a] = Kernel(p)
    <3>0. i # NoStream
      BY DEF NoStream
    <3>p. \A p \in Preds[t] : p \in Task /\ p # t /\ (op'[p] # "done" => op[p] # "done")
      BY <1>d, PredTask DEF DoneKept
    <3>1. CASE b \in DOMAIN streams[i] /\ streams'[i][b] = streams[i][b]
      <4>1. /\ stream_idx[t] = i
            /\ \A p \in Preds[t] : op[p] # "done" =>
                 /\ stream_idx[p] # NoStream
                 /\ stream_idx[p] = i => \E a \in DOMAIN streams[i] : a < b /\ streams[i][a] = Kernel(p)
        <5>1. streams[i][b] = Kernel(t)
          BY <2>10, <3>1
        <5> QED BY <1>0, <3>1, <5>1 DEF KernelsOrdered
      <4>2. t # c
        BY <2>8, <3>0, <4>1
      <4>3. ASSUME NEW p \in Preds[t], op'[p] # "done"
            PROVE  /\ stream_idx'[p] # NoStream
                   /\ stream_idx'[p] = i => \E a \in DOMAIN streams'[i] : a < b /\ streams'[i][a] = Kernel(p)
        <5>1. p \in Task /\ stream_idx[p] # NoStream /\ p # c
          BY <2>8, <3>p, <4>1, <4>3
        <5>2. stream_idx'[p] = stream_idx[p]
          BY <2>9, <5>1
        <5> QED BY <2>6, <3>p, <4>1, <4>3, <5>1, <5>2
      <4> QED BY <2>9, <4>1, <4>2, <4>3
    <3>2. CASE i = k /\ b = Len(streams[k]) + 1 /\ streams'[i][b] = Kernel(c)
      <4>1. t = c
        BY <2>10, <3>2 DEF Kernel
      <4>2. ASSUME NEW p \in Preds[t], op'[p] # "done"
            PROVE  /\ stream_idx'[p] # NoStream
                   /\ stream_idx'[p] = i => \E a \in DOMAIN streams'[i] : a < b /\ streams'[i][a] = Kernel(p)
        <5>1. p \in Task /\ p # c /\ op[p] # "done"
          BY <3>p, <4>1, <4>2
        <5>2. stream_idx[p] # NoStream
          BY <1>0, <2>8, <4>1, <4>2, <5>1, PredsDone
        <5>3. stream_idx'[p] = stream_idx[p]
          BY <2>9, <5>1
        <5>4. \E a \in DOMAIN streams[stream_idx[p]] : streams[stream_idx[p]][a] = Kernel(p)
          BY <1>0, <1>t, <5>1, <5>2 DEF StreamsMatch
        <5> QED BY <2>6, <2>7, <3>2, <5>2, <5>3, <5>4
      <4> QED BY <2>8, <2>9, <3>2, <4>1, <4>2
    <3> QED BY <2>6, <3>1, <3>2
  <2> QED BY <2>10 DEF KernelsOrdered
<1>8. CASE RecordEvent
  <2>1. CudaHasTask
    BY <1>0, <1>8, HeldFacts, WorkerFacts DEF RecordEvent, TaskPC
  <2> DEFINE k == stream_idx[cur["cuda"]]
  <2>2. /\ pc["cuda"] = "record" /\ UNCHANGED <<stream_idx, op>>
        /\ streams' = [streams EXCEPT ![k] = Append(streams[k], Record(Allocated))]
    BY <1>8 DEF RecordEvent, Goto, MakeEvent
  <2>4. k \in 0..(NumStreams - 1)
    <3>1. k # NoStream
      BY <1>0, <2>1, <2>2, WorkerFacts DEF HeldProgress, StreamsMatch
    <3> QED BY <1>t, <2>1, <3>1
  <2>5. Record(Allocated) \in Operation
    <3>1. Allocated \in Nat
      BY <1>0, AllocatedType
    <3> QED BY <3>1 DEF Record, Operation
  <2> HIDE DEF k
  <2>6. \A j \in 0..(NumStreams - 1) :
          /\ \A a \in DOMAIN streams[j] : a \in DOMAIN streams'[j] /\ streams'[j][a] = streams[j][a]
          /\ \A a \in DOMAIN streams'[j] : \/ a \in DOMAIN streams[j] /\ streams'[j][a] = streams[j][a]
                                           \/ streams'[j][a] = Record(Allocated)
    BY <1>0, <2>2, <2>4, <2>5, StreamAppend
  <2>7. \A t \in Task : Kernel(t) # Record(Allocated)
    BY DEF Kernel, Record
  <2>10. ASSUME NEW i \in 0..(NumStreams - 1), NEW t \in Task, NEW b \in DOMAIN streams'[i],
                streams'[i][b] = Kernel(t)
         PROVE  /\ stream_idx[t] = i
                /\ \A p \in Preds[t] : op[p] # "done" =>
                     /\ stream_idx[p] # NoStream
                     /\ stream_idx[p] = i => \E a \in DOMAIN streams'[i] : a < b /\ streams'[i][a] = Kernel(p)
    <3>1. b \in DOMAIN streams[i] /\ streams[i][b] = Kernel(t)
      BY <2>6, <2>7, <2>10
    <3> QED BY <1>0, <2>6, <3>1 DEF KernelsOrdered
  <2> QED BY <2>2, <2>10 DEF KernelsOrdered
<1>9. ASSUME NEW t \in Task, RequestCompletes(t) PROVE KernelsOrdered'
  <2>1. UNCHANGED <<streams, stream_idx>>
    BY <1>9 DEF RequestCompletes
  <2> QED BY <1>0, <1>d, <2>1, KernelsOrderedKept
<1>10. ASSUME NEW i \in DOMAIN streams, StreamStep(i) PROVE KernelsOrdered'
  <2>1. /\ i \in 0..(NumStreams - 1) /\ streams[i] # <<>>
        /\ \/ streams' = streams
           \/ /\ streams' = [streams EXCEPT ![i] = Tail(streams[i])]
              /\ \A t \in Task : streams[i][1] = Kernel(t) => op'[t] = "done"
    <3>1. \A t, k \in Task : Kernel(t) = Kernel(k) => t = k
      BY DEF Kernel
    <3>2. \A t \in Task : Kernel(t).kind = "kernel"
      BY DEF Kernel
    <3>3. i \in 0..(NumStreams - 1) /\ streams[i] # <<>>
      BY <1>0, <1>10, StreamEffect
    <3>4. CASE streams' = [streams EXCEPT ![i] = Tail(streams[i])] /\ streams[i][1].kind = "record"
      BY <3>2, <3>3, <3>4
    <3>5. ASSUME NEW k \in Task, streams[i][1] = Kernel(k), op' = [op EXCEPT ![k] = "done"],
                 streams' = [streams EXCEPT ![i] = Tail(streams[i])]
          PROVE  \A t \in Task : streams[i][1] = Kernel(t) => op'[t] = "done"
      BY <1>t, <3>1, <3>5
    <3> QED BY <1>0, <1>10, <3>3, <3>4, <3>5, StreamEffect
  <2>2. stream_idx' = stream_idx
    BY <1>10 DEF StreamStep
  <2>3. CASE streams' = streams
    BY <1>0, <1>d, <2>2, <2>3, KernelsOrderedKept
  <2>4. ASSUME streams' = [streams EXCEPT ![i] = Tail(streams[i])],
               \A t \in Task : streams[i][1] = Kernel(t) => op'[t] = "done"
        PROVE  KernelsOrdered'
    <3>1. /\ \A j \in 0..(NumStreams - 1) : j # i => streams'[j] = streams[j]
          /\ \A a \in DOMAIN streams'[i] : a + 1 \in DOMAIN streams[i] /\ streams'[i][a] = streams[i][a + 1]
          /\ \A a \in DOMAIN streams[i] :
               /\ a \in Nat
               /\ a # 1 => a - 1 \in DOMAIN streams'[i] /\ streams'[i][a - 1] = streams[i][a]
      BY <1>0, <2>1, <2>4, StreamTail
    <3>2. ASSUME NEW j \in 0..(NumStreams - 1), NEW t \in Task, NEW b \in DOMAIN streams'[j],
                 streams'[j][b] = Kernel(t)
          PROVE  /\ stream_idx[t] = j
                 /\ \A p \in Preds[t] : op'[p] # "done" =>
                      /\ stream_idx[p] # NoStream
                      /\ stream_idx[p] = j => \E a \in DOMAIN streams'[j] : a < b /\ streams'[j][a] = Kernel(p)
      <4>p. \A p \in Preds[t] : p \in Task /\ (op'[p] # "done" => op[p] # "done")
        BY <1>d, PredTask DEF DoneKept
      <4>1. CASE j # i
        BY <1>0, <3>1, <3>2, <4>1, <4>p DEF KernelsOrdered
      <4>2. CASE j = i
        <5>1. b + 1 \in DOMAIN streams[i] /\ streams[i][b + 1] = Kernel(t)
          BY <3>1, <3>2, <4>2
        <5>2. /\ stream_idx[t] = i
              /\ \A p \in Preds[t] : op[p] # "done" =>
                   /\ stream_idx[p] # NoStream
                   /\ stream_idx[p] = i => \E a \in DOMAIN streams[i] : a < b + 1 /\ streams[i][a] = Kernel(p)
          BY <1>0, <3>2, <4>2, <5>1 DEF KernelsOrdered
        <5>3. b \in Nat
          <6>1. streams[i] \in Seq(Operation)
            BY <1>0, <2>1 DEF Types, CudaTypes
          <6>2. streams'[i] = Tail(streams[i])
            BY <1>0, <2>1, <2>4 DEF Types, CudaTypes
          <6> QED BY <2>1, <3>2, <4>2, <6>1, <6>2, HeadFacts
        <5>4. ASSUME NEW p \in Preds[t], op'[p] # "done", stream_idx[p] = i
              PROVE  \E a \in DOMAIN streams'[i] : a < b /\ streams'[i][a] = Kernel(p)
          <6>1. PICK a \in DOMAIN streams[i] : a < b + 1 /\ streams[i][a] = Kernel(p)
            BY <4>p, <5>2, <5>4
          <6>2. a # 1
            BY <2>4, <4>p, <5>4, <6>1
          <6>3. a - 1 \in DOMAIN streams'[i] /\ streams'[i][a - 1] = Kernel(p) /\ a \in Nat
            BY <3>1, <6>1, <6>2
          <6> QED BY <5>3, <6>1, <6>3
        <5> QED BY <4>2, <4>p, <5>2, <5>4
      <4> QED BY <4>1, <4>2
    <3> QED BY <2>2, <3>2 DEF KernelsOrdered
  <2> QED BY <2>1, <2>3, <2>4
<1> QED BY <1>2, <1>3, <1>4, <1>5, <1>6, <1>7, <1>8, <1>9, <1>10
  DEF Next, WorkerStep, MpiStep, CudaStep, MainStep, Ended

LEMMA OrderedKept ==
  ASSUME OperationsOrdered, DoneKept, NEW t \in Task,
         \/ op[t] \in {"running", "done"}
         \/ \A p \in Preds[t] : op[p] = "done" \/ AcrossStreams(p, t)
         \/ op'[t] \notin {"running", "done"},
         \A u \in Task : u # t => op'[u] = op[u]
  PROVE  OperationsOrdered'
<1> SUFFICES ASSUME NEW u \in Task, op'[u] \in {"running", "done"}, NEW p \in Preds[u]
             PROVE  op'[p] = "done" \/ AcrossStreams(p, u)'
  BY DEF OperationsOrdered
<1>1. op[p] = "done" \/ AcrossStreams(p, u)
  BY DEF OperationsOrdered
<1> QED BY <1>1, PredTask DEF DoneKept, AcrossStreams

LEMMA OperationsOrderedStep ==
  ASSUME Hypotheses, IInv, OrderInv, [Next]_vars
  PROVE  OperationsOrdered'
<1>0. Parts /\ IInv /\ PredsLinked /\ BodyNotDone /\ KernelsOrdered /\ OperationsOrdered
  BY DEF Hypotheses, IInv, OrderInv
<1>t. Ranges
  BY <1>0 DEF Types, CountTypes, EventTypes, WorkTypes, CudaTypes
<1>d. DoneKept
  BY DoneKeptStep
<1>1. CASE UNCHANGED <<op, stream_idx>>
  BY <1>0, <1>1 DEF OperationsOrdered, AcrossStreams
<1>2. CASE UNCHANGED vars
  BY <1>1, <1>2 DEF vars
<1>3. ASSUME NEW w \in Worker,
             (\E t \in Task : GatherReady(w, t)) \/ (\E t \in Task : InitDependencies(w, t))
             \/ GatherNothing(w) \/ Execute(w) \/ PushRequest(w) \/ Yield(w) \/ PauseReset(w)
             \/ PauseFollow(w) \/ PauseAppend(w) \/ PauseCount(w) \/ PauseUp(w)
             \/ PauseNotify(w) \/ SetResult(w) \/ WakeMain(w) \/ FinishTask(w)
      PROVE  OperationsOrdered'
  BY <1>1, <1>3
  DEF GatherReady, InitDependencies, GatherNothing, Execute, PushRequest, Yield, PauseReset,
      PauseFollow, PauseAppend, PauseCount, PauseUp, PauseNotify, SetResult, WakeMain,
      FinishTask, AfterTask, Goto
<1>4. ASSUME \/ PollNothing \/ Poll \/ PollStatus \/ PollResume \/ PollErase \/ RecordEvent
             \/ LaunchedPre \/ CudaPollNothing \/ CudaPoll \/ Emplace \/ EndOfProgram
             \/ EnterWaker \/ TestResult \/ Idle \/ TakeResult \/ Barrier \/ Stop \/ Join
      PROVE  OperationsOrdered'
  BY <1>1, <1>4 DEF PollNothing, Poll, PollStatus, PollResume, PollErase, RecordEvent, LaunchedPre,
      CudaPollNothing, CudaPoll, Emplace, EndOfProgram, EnterWaker, TestResult, Idle,
      TakeResult, Barrier, Stop, Join, Goto, MainGoto, MakeEvent, OnlyMain
<1>5. ASSUME NEW w \in Worker, Compute(w) PROVE OperationsOrdered'
  <2>1. HasTask(w)
    BY <1>0, <1>5, HeldFacts DEF Compute, TaskPC
  <2>2. /\ pc[w] = "body" /\ w # "cuda" /\ cur[w] \notin Request
        /\ op' = [op EXCEPT ![cur[w]] = IF op[cur[w]] = "running" THEN "done" ELSE "running"]
    BY <1>5 DEF Compute, Goto
  <2>6. Underway(cur[w])
    BY <1>0, <2>1, HeldTouched
  <2>7. \A p \in Preds[cur[w]] : op[p] = "done"
    <3>1. Sched[cur[w]] # "cuda"
      BY <2>1, <2>2, DispatchAssumption
    <3> QED BY <1>0, <2>1, <2>6, <3>1, PredsDone
  <2>8. \A t \in Task : t # cur[w] => op'[t] = op[t]
    BY <1>t, <2>2
  <2> QED BY <1>0, <1>d, <2>1, <2>7, <2>8, OrderedKept
<1>6. ASSUME NEW w \in Worker, GetStatus(w) PROVE OperationsOrdered'
  <2>1. HasTask(w)
    BY <1>0, <1>6, HeldFacts DEF GetStatus, TaskPC
  <2>2. /\ pc[w] = "body" /\ cur[w] \in Request
        /\ op' = [op EXCEPT ![cur[w]] = "running"]
    BY <1>6 DEF GetStatus, Goto, MakeEvent
  <2>6. Underway(cur[w])
    BY <1>0, <2>1, HeldTouched
  <2>7. \A p \in Preds[cur[w]] : op[p] = "done"
    <3>1. Sched[cur[w]] # "cuda"
      BY <2>1, <2>2, DispatchAssumption
    <3> QED BY <1>0, <2>1, <2>6, <3>1, PredsDone
  <2>8. \A t \in Task : t # cur[w] => op'[t] = op[t]
    BY <1>t, <2>2
  <2> QED BY <1>0, <1>d, <2>1, <2>7, <2>8, OrderedKept
<1>7. CASE Launch
  <2>1. CudaHasTask
    BY <1>0, <1>7, HeldFacts, WorkerFacts DEF Launch, TaskPC
  <2>2. /\ pc["cuda"] = "body"
        /\ op' = [op EXCEPT ![cur["cuda"]] = "queued"]
    BY <1>7 DEF Launch, Goto
  <2>6. Underway(cur["cuda"])
    BY <1>0, <2>1, HeldTouched, WorkerFacts
  <2>7. \A t \in Task : op'[t] = (IF t = cur["cuda"] THEN "queued" ELSE op[t])
    BY <1>t, <2>2
  <2>8. op'[cur["cuda"]] = "queued" /\ \A t \in Task : t # cur["cuda"] => op'[t] = op[t]
    BY <2>1, <2>7
  <2> QED BY <1>0, <1>d, <2>1, <2>8, OrderedKept
<1>8. ASSUME NEW t \in Task, RequestCompletes(t) PROVE OperationsOrdered'
  <2>1. op[t] = "running" /\ op' = [op EXCEPT ![t] = "done"]
    BY <1>8 DEF RequestCompletes
  <2>2. \A u \in Task : u # t => op'[u] = op[u]
    BY <1>t, <2>1
  <2> QED BY <1>0, <1>d, <2>1, <2>2, OrderedKept
<1>9. ASSUME NEW i \in DOMAIN streams, StreamStep(i) PROVE OperationsOrdered'
  <2>1. /\ i \in 0..(NumStreams - 1) /\ streams[i] \in Seq(Operation) /\ streams[i] # <<>>
        /\ \/ op' = op
           \/ \E k \in Task :
                /\ streams[i][1] = Kernel(k) /\ stream_idx[k] # NoStream /\ op[k] # "none"
                /\ \/ op[k] = "queued" /\ op' = [op EXCEPT ![k] = "running"]
                   \/ op[k] # "queued" /\ op' = [op EXCEPT ![k] = "done"]
    BY <1>0, <1>9, StreamEffect
  <2>2. 1 \in DOMAIN streams[i] /\ \A a \in DOMAIN streams[i] : ~ (a < 1)
    <3>1. DOMAIN streams[i] = 1..Len(streams[i]) /\ Len(streams[i]) \in Nat /\ Len(streams[i]) > 0
      BY <2>1, HeadFacts
    <3> QED BY <3>1
  <2>6. stream_idx' = stream_idx
    BY <1>9 DEF StreamStep
  <2>3. CASE op' = op
    BY <1>1, <2>3, <2>6
  <2>4. ASSUME NEW k \in Task, streams[i][1] = Kernel(k), stream_idx[k] # NoStream, op[k] = "queued",
               op' = [op EXCEPT ![k] = "running"]
        PROVE  OperationsOrdered'
    <3>1. \A p \in Preds[k] : op[p] = "done" \/ AcrossStreams(p, k)
      BY <1>0, <2>1, <2>2, <2>4 DEF KernelsOrdered, AcrossStreams
    <3>2. \A u \in Task : u # k => op'[u] = op[u]
      BY <1>t, <2>4
    <3> QED BY <1>0, <1>d, <3>1, <3>2, OrderedKept
  <2>5. ASSUME NEW k \in Task, op[k] # "none", op[k] # "queued", op' = [op EXCEPT ![k] = "done"]
        PROVE  OperationsOrdered'
    <3>1. op[k] \in {"running", "done"}
      BY <1>t, <2>5
    <3>2. \A u \in Task : u # k => op'[u] = op[u]
      BY <1>t, <2>5
    <3> QED BY <1>0, <1>d, <3>1, <3>2, OrderedKept
  <2> QED BY <2>1, <2>2, <2>3, <2>4, <2>5
<1> QED BY <1>2, <1>3, <1>4, <1>5, <1>6, <1>7, <1>8, <1>9
  DEF Next, WorkerStep, MpiStep, CudaStep, MainStep, Ended

-----------------------------------------------------------------------------
LEMMA InitOrder ==
  ASSUME Init
  PROVE  OrderInv
<1>1. \A t \in Task : ~ Old(t)
  BY TaskFacts DEF Init, Old, Born, Task
<1>2. PredsLinked
  BY <1>1 DEF PredsLinked
<1>3. BodyNotDone
  BY DEF Init, BodyNotDone
<1>4. KernelsOrdered
  BY DEF Init, KernelsOrdered
<1>5. OperationsOrdered
  BY DEF Init, OperationsOrdered
<1> QED BY <1>2, <1>3, <1>4, <1>5 DEF OrderInv

LEMMA OrderStep ==
  ASSUME Hypotheses, IInv, OrderInv, [Next]_vars
  PROVE  OrderInv'
BY PredsLinkedStep, BodyNotDoneStep, KernelsOrderedStep, OperationsOrderedStep DEF OrderInv

\* OperationsOrdered: the operation of a task begins only when those of the tasks before it
\* have ended, on any scheduler and in one stream, where the graph keeps no edge between two
\* kernels; with any number of streams, only kernels of different streams can overlap.
THEOREM OperationsOrderedCorrect == Hypotheses => (Spec => []OperationsOrdered)
<1> SUFFICES ASSUME Hypotheses
             PROVE  Spec => []OperationsOrdered
  OBVIOUS
<1>1. Init => OrderInv
  BY InitOrder
<1>2. IInv /\ OrderInv /\ [Next]_vars => OrderInv'
  BY OrderStep
<1>3. OrderInv => OperationsOrdered
  BY DEF OrderInv
<1>4. Spec => []IInv
  BY Invariance
<1> QED BY <1>1, <1>2, <1>3, <1>4, PTL DEF Spec
=============================================================================
