---------------------------- MODULE AsyncDispatch ----------------------------
(***************************************************************************)
(* Tasks whose work goes on after their body has run: MPI requests, which  *)
(* a task waits for by yielding, and CUDA kernels, which a task only       *)
(* launches.  Both hold the post-event of their task by an external event  *)
(* (create_event) that a worker notifies when it polls.                    *)
(*                                                                         *)
(* The MPI and the CUDA scheduler have one worker thread each, which never *)
(* sleeps; the workers of the pool take any task of the pool.  The main    *)
(* thread emplaces the tasks in order, waits for some results in           *)
(* Future::get, and destroys the RedGrapes object.                         *)
(*                                                                         *)
(* The edges of a task are set up in one step, and the followers of an     *)
(* event of a task are notified in one: TaskGraph interleaves these.  What *)
(* is interleaved here is what touches the events of one task from several *)
(* threads: pausing it, polling, setting and awaiting its result.          *)
(***************************************************************************)
EXTENDS Integers, Sequences, FiniteSets

CONSTANTS
  MaxTask,       \* number of tasks the program emplaces
  Sched,         \* the scheduler of every task: "mpi", "cuda" or "pool"
  Preds,         \* the earlier tasks its accesses are serial with
  Request,       \* tasks that call RequestPool::get_status (with stack switching)
  Awaited,       \* tasks whose Future the main thread calls get() on
  PoolWorker,    \* workers of the pool scheduler
  NumStreams     \* CudaThreadScheduler::num_streams

Task == 1..MaxTask
NoTask == 0
Scheduler == {"mpi", "cuda", "pool"}
Worker == {"mpi", "cuda"} \union PoolWorker
SchedOf(w) == IF w \in PoolWorker THEN "pool" ELSE w

ASSUME DispatchAssumption ==
  /\ MaxTask \in Nat
  /\ Sched \in [Task -> Scheduler]
  /\ Preds \in [Task -> SUBSET Task] /\ \A t \in Task : \A p \in Preds[t] : p < t
  /\ Request \subseteq {t \in Task : Sched[t] # "cuda"}
  /\ Awaited \subseteq Task
  /\ PoolWorker \intersect Scheduler = {}
  /\ NumStreams \in Nat \ {0}

VARIABLES
  \* task objects
  pre, post,          \* state of the pre- and of the post-event, uint16_t
  followers,          \* tasks whose pre-event follows its pre- or post-event
  result_set,         \* is the result-set event still unreached?
  waker_id,           \* has the main thread entered itself as its waker?
  removal_countdown,
  ext,                \* its external event: "none", "pending" or "reached"
  paused,             \* is its pre-event a follower of the external event?
  op,                 \* history: its operation, "none", "queued", "running", "done"
  \* schedulers
  emplaced, ready,    \* emplacement queue; how often it is in the ready queue
  m_stop,
  pc, cur,            \* workers: program counter and current_task
  back,               \* where poll returns to
  \* RequestPool
  mutex,
  requests, events, statuses,
  indices, out_statuses,  \* what MPI_Testsome returned
  slot,               \* position in indices: the loop variable i of poll
  status,             \* the MPI_Status a task gets
  \* CudaWorker, its streams and EventPool
  streams, stream_idx, next_stream,
  cuda_events, unused, created,
  \* main thread
  main, task_count,
  cv                  \* TaskFreeCtx::cv has been notified

taskVars == <<followers, removal_countdown>>
resultVars == <<result_set, waker_id>>
workVars == <<cur, back>>
poolVars == <<mutex, requests, events, statuses, indices, out_statuses, slot, status>>
cudaVars == <<streams, stream_idx, next_stream, cuda_events, unused, created>>
mainVars == <<main, task_count, cv>>
vars == <<pre, post, taskVars, resultVars, ext, paused, op, emplaced, ready, m_stop,
          pc, workVars, poolVars, cudaVars, mainVars>>

NoStream == -1
WorkerPC == {"gather", "execute", "body", "push", "check", "result", "wake",
             "record", "pre", "post", "reset", "follow", "append", "count", "up", "notify",
             "poll", "status", "resume", "erase", "stopped"}
MainPC == {"emplace", "get", "late", "test", "idle", "doze", "take", "barrier", "await", "stop", "join", "end"}

TypeOK ==
  /\ pre \in [Task -> 0..65535] /\ post \in [Task -> 0..65535]
  /\ followers \in [Task -> [{"pre", "post"} -> SUBSET Task]]
  /\ result_set \in [Task -> BOOLEAN] /\ waker_id \in [Task -> BOOLEAN]
  /\ removal_countdown \in [Task -> 0..2]
  /\ ext \in [Task -> {"none", "pending", "reached"}]
  /\ paused \in [Task -> BOOLEAN]
  /\ op \in [Task -> {"none", "queued", "running", "done"}]
  /\ emplaced \subseteq Task /\ ready \in [Task -> Nat]
  /\ m_stop \in [Scheduler -> BOOLEAN]
  /\ pc \in [Worker -> WorkerPC] /\ cur \in [Worker -> Task \union {NoTask}]
  /\ back \in [Worker -> {"gather", "loop"}]
  /\ mutex \in Worker \union {"free"}
  /\ {requests, events, statuses, out_statuses} \subseteq Seq(Task)
  /\ indices \in Seq(Nat) /\ slot \in Nat
  /\ status \in [Task -> Task \union {NoTask}]
  /\ stream_idx \in [Task -> {NoStream} \union 0..(NumStreams - 1)]
  /\ next_stream \in Nat /\ created \in Nat /\ task_count \in 0..MaxTask
  /\ main \in [pc : MainPC, t : 1..(MaxTask + 1), s : 1..(Cardinality(Scheduler) + 1)]
  /\ cv \in BOOLEAN

Init ==
  /\ pre = [t \in Task |-> 1] /\ post = [t \in Task |-> 1]
  /\ followers = [t \in Task |-> [e \in {"pre", "post"} |-> {}]]
  /\ result_set = [t \in Task |-> TRUE] /\ waker_id = [t \in Task |-> FALSE]
  /\ removal_countdown = [t \in Task |-> 2]
  /\ ext = [t \in Task |-> "none"] /\ paused = [t \in Task |-> FALSE]
  /\ op = [t \in Task |-> "none"]
  /\ emplaced = {} /\ ready = [t \in Task |-> 0]
  /\ m_stop = [s \in Scheduler |-> FALSE]
  /\ pc = [w \in Worker |-> "gather"] /\ cur = [w \in Worker |-> NoTask]
  /\ back = [w \in Worker |-> "loop"]
  /\ mutex = "free"
  /\ requests = <<>> /\ events = <<>> /\ statuses = <<>> 
  /\ indices = <<>> /\ out_statuses = <<>> /\ slot = 1
  /\ status = [t \in Task |-> NoTask]
  /\ streams = [i \in 0..(NumStreams - 1) |-> <<>>]
  /\ stream_idx = [t \in Task |-> NoStream] /\ next_stream = 0
  /\ cuda_events = <<>> /\ unused = <<>> /\ created = 0
  /\ main = [pc |-> "emplace", t |-> 1, s |-> 1]
  /\ task_count = 0 /\ cv = FALSE

-----------------------------------------------------------------------------
(***************************************************************************)
(* Events.  The state of an event is a uint16_t.                           *)
(***************************************************************************)
Up(n) == (n + 1) % 65536
Down(n) == (n - 1) % 65536

\* EventPtr::notify of the pre-events of the tasks in S, none of which becomes
\* reached by it: a task whose state becomes 1 is activated.
NotifyPre(S) ==
  /\ pre' = [t \in Task |-> IF t \in S THEN Down(pre[t]) ELSE pre[t]]
  /\ ready' = [t \in Task |-> IF t \in S /\ pre[t] = 2 THEN ready[t] + 1 ELSE ready[t]]

\* EventPtr::notify of the pre-event of a task that begins to run.
ReachPre(t) ==
  LET S == IF pre[t] = 1 THEN followers[t]["pre"] ELSE {} IN
  /\ pre' = [u \in Task |-> IF u \in S \union {t} THEN Down(pre[u]) ELSE pre[u]]
  /\ ready' = [u \in Task |-> IF u \in S /\ pre[u] = 2 THEN ready[u] + 1 ELSE ready[u]]

\* The end of EventPtr::notify for a post- or a result-get-event that is reached,
\* with TaskSpace::free_task.
CountDown(t) ==
  /\ removal_countdown' = [removal_countdown EXCEPT ![t] = @ - 1]
  /\ IF removal_countdown[t] = 1
       THEN task_count' = task_count - 1 /\ cv' = (cv \/ task_count = 1)
       ELSE UNCHANGED <<task_count, cv>>

\* EventPtr::notify of the post-event of t.
NotifyPost(t) ==
  /\ post' = [post EXCEPT ![t] = Down(@)]
  /\ IF post[t] = 1
       THEN NotifyPre(followers[t]["post"]) /\ CountDown(t)
       ELSE UNCHANGED <<pre, ready, removal_countdown, task_count, cv>>

\* GraphProperty::make_event: an event of state 1 that the post-event follows.
MakeEvent(t) ==
  /\ ext' = [ext EXCEPT ![t] = "pending"]
  /\ post' = [post EXCEPT ![t] = Up(@)]

Goto(w, p) == pc' = [pc EXCEPT ![w] = p]

-----------------------------------------------------------------------------
(***************************************************************************)
(* The worker loop, shared by the three kinds of workers.                  *)
(***************************************************************************)
\* while(!m_stop).  A worker that starts finds it false.
TestStop(w) == IF m_stop[SchedOf(w)] THEN "stopped" ELSE "gather"

Mine(w, t) == Sched[t] = SchedOf(w)

\* Stage 1 of gather_task: the ready queue.
GatherReady(w, t) ==
  /\ pc[w] = "gather" /\ Mine(w, t) /\ ready[t] > 0
  /\ ready' = [ready EXCEPT ![t] = @ - 1]
  /\ cur' = [cur EXCEPT ![w] = t]
  /\ Goto(w, "execute")
  /\ UNCHANGED <<pre, post, taskVars, resultVars, ext, paused, op, emplaced, m_stop,
                 back, poolVars, cudaVars, mainVars>>

\* Mutant of DependsOnPre: the edge is omitted as soon as the predecessor is launched.
DependsOnPreAlways(p, t) == stream_idx[p] # NoStream

\* task_dependency_type: does t follow the pre-event of p, not its post-event?
DependsOnPre(p, t) == Sched[t] = "cuda" /\ stream_idx[p] # NoStream

\* The unreached events of its predecessors (init_graph, add_dependency).
Edges(t) ==
  {x \in Preds[t] \X {"pre", "post"} :
     IF DependsOnPre(x[1], t) THEN x[2] = "pre" /\ pre[x[1]] # 0
                              ELSE x[2] = "post" /\ post[x[1]] # 0}

\* Stage 2: init_dependencies takes a new task; it runs if nothing precedes it.
InitDependencies(w, t) ==
  /\ pc[w] = "gather" /\ Mine(w, t) /\ t \in emplaced
  /\ \A u \in Task : Mine(w, u) => ready[u] = 0
  /\ w \in PoolWorker \/ \A u \in emplaced : Mine(w, u) => t <= u
  /\ emplaced' = emplaced \ {t}
  /\ pre' = [pre EXCEPT ![t] = (@ + Cardinality(Edges(t))) % 65536]
  /\ followers' = [p \in Task |-> [e \in {"pre", "post"} |->
       IF <<p, e>> \in Edges(t) THEN followers[p][e] \union {t} ELSE followers[p][e]]]
  /\ IF Edges(t) = {}
       THEN cur' = [cur EXCEPT ![w] = t] /\ Goto(w, "execute")
       ELSE UNCHANGED <<cur, pc>>
  /\ UNCHANGED <<post, removal_countdown, resultVars, ext, paused, op, ready, m_stop,
                 back, poolVars, cudaVars, mainVars>>

\* gather_task returns nullptr: poll once more, then test m_stop.  A worker of the pool
\* sleeps in between; that it is woken up in time is the subject of PoolScheduler, and no
\* property here says that a task is taken.
GatherNothing(w) ==
  /\ pc[w] = "gather"
  /\ \A u \in Task : Mine(w, u) => ready[u] = 0 /\ u \notin emplaced
  /\ back' = [back EXCEPT ![w] = "loop"]
  /\ Goto(w, IF w \in PoolWorker THEN TestStop(w) ELSE "poll")
  /\ UNCHANGED <<pre, post, taskVars, resultVars, ext, paused, op, emplaced, ready, m_stop,
                 cur, poolVars, cudaVars, mainVars>>

\* What comes after poll.
AfterPoll(w) == IF back[w] = "loop" THEN TestStop(w) ELSE "gather"

\* What comes after execute_task: the workers that poll do so.
AfterTask(w) ==
  /\ cur' = [cur EXCEPT ![w] = NoTask]
  /\ back' = [back EXCEPT ![w] = "gather"]
  /\ Goto(w, IF w \in PoolWorker THEN "gather" ELSE "poll")

-----------------------------------------------------------------------------
(***************************************************************************)
(* execute_task of DefaultWorker and MPIWorker; the body of a task.        *)
(***************************************************************************)
\* The pre-event is notified, then operator() starts or resumes the body.
Execute(w) ==
  /\ pc[w] = "execute"
  /\ IF w = "cuda" THEN UNCHANGED <<pre, ready>> ELSE ReachPre(cur[w])
  /\ Goto(w, IF ext[cur[w]] = "none" THEN "body" ELSE "check")
  /\ UNCHANGED <<post, taskVars, resultVars, ext, paused, op, emplaced, m_stop, workVars,
                 poolVars, cudaVars, mainVars>>

\* A body that works on its own.
Compute(w) ==
  /\ pc[w] = "body" /\ w # "cuda" /\ cur[w] \notin Request
  /\ IF op[cur[w]] = "running"
       THEN op' = [op EXCEPT ![cur[w]] = "done"] /\ Goto(w, "result")
       ELSE op' = [op EXCEPT ![cur[w]] = "running"] /\ UNCHANGED pc
  /\ UNCHANGED <<pre, post, taskVars, resultVars, ext, paused, emplaced, ready, m_stop, workVars,
                 poolVars, cudaVars, mainVars>>

\* A body that starts an MPI operation and calls get_status: create_event ...
GetStatus(w) ==
  /\ pc[w] = "body" /\ cur[w] \in Request
  /\ op' = [op EXCEPT ![cur[w]] = "running"]
  /\ MakeEvent(cur[w])
  /\ Goto(w, "push")
  /\ UNCHANGED <<pre, taskVars, resultVars, paused, emplaced, ready, m_stop, workVars,
                 poolVars, cudaVars, mainVars>>

\* ... enter the request into the pool, under its mutex ...
PushRequest(w) ==
  /\ pc[w] = "push" /\ mutex = "free"
  /\ requests' = Append(requests, cur[w])
  /\ events' = Append(events, cur[w])
  /\ statuses' = Append(statuses, cur[w])
  /\ Goto(w, "check")
  /\ UNCHANGED <<pre, post, taskVars, resultVars, ext, paused, op, emplaced, ready, m_stop,
                 workVars, mutex, indices, out_statuses, slot, status, cudaVars, mainVars>>

\* ... and yield_impl: the body goes on if the event is reached, and else operator()
\* returns the event and the task is paused.  waker_id of the event has no effect, as
\* the workers that may be woken by it do not sleep.
Yield(w) ==
  /\ pc[w] = "check"
  /\ Goto(w, IF ext[cur[w]] = "reached" THEN "result" ELSE "reset")
  /\ UNCHANGED <<pre, post, taskVars, resultVars, ext, paused, op, emplaced, ready, m_stop,
                 workVars, poolVars, cudaVars, mainVars>>

\* sg_pause: pre_event.state = 1 ...
PauseReset(w) ==
  /\ pc[w] = "reset"
  /\ pre' = [pre EXCEPT ![cur[w]] = 1]
  /\ Goto(w, "follow")
  /\ UNCHANGED <<post, taskVars, resultVars, ext, paused, op, emplaced, ready, m_stop,
                 workVars, poolVars, cudaVars, mainVars>>

\* ... Event::add_follower: if(!is_reached()) ...
PauseFollow(w) ==
  /\ pc[w] = "follow"
  /\ Goto(w, IF ext[cur[w]] = "reached" THEN "up" ELSE "append")
  /\ UNCHANGED <<pre, post, taskVars, resultVars, ext, paused, op, emplaced, ready, m_stop,
                 workVars, poolVars, cudaVars, mainVars>>

\* ... followers.push ...
PauseAppend(w) ==
  /\ pc[w] = "append"
  /\ paused' = [paused EXCEPT ![cur[w]] = TRUE]
  /\ Goto(w, "count")
  /\ UNCHANGED <<pre, post, taskVars, resultVars, ext, op, emplaced, ready, m_stop,
                 workVars, poolVars, cudaVars, mainVars>>

\* ... follower->state++ ...
PauseCount(w) ==
  /\ pc[w] = "count"
  /\ pre' = [pre EXCEPT ![cur[w]] = Up(@)]
  /\ Goto(w, "up")
  /\ UNCHANGED <<post, taskVars, resultVars, ext, paused, op, emplaced, ready, m_stop,
                 workVars, poolVars, cudaVars, mainVars>>

\* ... pre_event.up() ...
PauseUp(w) ==
  /\ pc[w] = "up"
  /\ pre' = [pre EXCEPT ![cur[w]] = Up(@)]
  /\ Goto(w, "notify")
  /\ UNCHANGED <<post, taskVars, resultVars, ext, paused, op, emplaced, ready, m_stop,
                 workVars, poolVars, cudaVars, mainVars>>

\* ... get_pre_event().notify().
PauseNotify(w) ==
  /\ pc[w] = "notify"
  /\ NotifyPre({cur[w]})
  /\ AfterTask(w)
  /\ UNCHANGED <<post, taskVars, resultVars, ext, paused, op, emplaced, m_stop,
                 poolVars, cudaVars, mainVars>>

\* ResultTask::run: the result-set event is reached, ...
SetResult(w) ==
  /\ pc[w] = "result"
  /\ result_set' = [result_set EXCEPT ![cur[w]] = FALSE]
  /\ Goto(w, "wake")
  /\ UNCHANGED <<pre, post, taskVars, waker_id, ext, paused, op, emplaced, ready, m_stop,
                 workVars, poolVars, cudaVars, mainVars>>


\* ... and its notify then reads the waker.
WakeMain(w) ==
  /\ pc[w] = "wake"
  /\ cv' = (cv \/ waker_id[cur[w]])
  /\ Goto(w, IF w = "cuda" THEN "record" ELSE "post")
  /\ UNCHANGED <<pre, post, taskVars, resultVars, ext, paused, op, emplaced, ready, m_stop,
                 workVars, poolVars, cudaVars, main, task_count>>

\* The task is not paused: notify its post-event.
FinishTask(w) ==
  /\ pc[w] = "post"
  /\ NotifyPost(cur[w])
  /\ AfterTask(w)
  /\ UNCHANGED <<followers, resultVars, ext, paused, op, emplaced, m_stop,
                 poolVars, cudaVars, main>>

-----------------------------------------------------------------------------
(***************************************************************************)
(* RequestPool::poll, by the MPI worker.                                   *)
(***************************************************************************)
\* The indices MPI_Testsome may return: some of the completed operations, in any order.
Completed == {i \in 1..Len(requests) : op[requests[i]] = "done"}
Testsome ==
  {s \in UNION {[1..n -> Completed] : n \in 1..Cardinality(Completed)} :
     \A i, j \in DOMAIN s : s[i] = s[j] => i = j}

\* No request is in the pool, or none has completed.
PollNothing ==
  /\ pc["mpi"] = "poll" /\ mutex = "free"
  /\ Completed = {}
  /\ Goto("mpi", AfterPoll("mpi"))
  /\ UNCHANGED <<pre, post, taskVars, resultVars, ext, paused, op, emplaced, ready, m_stop,
                 workVars, poolVars, cudaVars, mainVars>>

Poll ==
  /\ pc["mpi"] = "poll" /\ mutex = "free"
  /\ \E s \in Testsome :
       /\ indices' = s
       /\ out_statuses' = [i \in DOMAIN s |-> requests[s[i]]]
  /\ slot' = 1
  /\ mutex' = "mpi"
  /\ Goto("mpi", "status")
  /\ UNCHANGED <<pre, post, taskVars, resultVars, ext, paused, op, emplaced, ready, m_stop,
                 workVars, requests, events, statuses, status, cudaVars, mainVars>>

\* Mutant of OutStatus: the status is looked up by the index of the request.
OutStatusOfIndex ==
  IF indices[slot] \in DOMAIN out_statuses THEN out_statuses[indices[slot]] ELSE NoTask

OutStatus == out_statuses[slot]

\* Write the status and notify the external event, which looks for its followers:
\* the pre-event of the task if it is paused (it is the younger one) and the post-event.
PollStatus ==
  /\ pc["mpi"] = "status"
  /\ LET t == events[indices[slot]] IN
       /\ status' = [status EXCEPT ![statuses[indices[slot]]] = OutStatus]
       /\ ext' = [ext EXCEPT ![t] = "reached"]
       /\ Goto("mpi", IF paused[t] THEN "resume" ELSE "erase")
  /\ UNCHANGED <<pre, post, taskVars, resultVars, paused, op, emplaced, ready, m_stop,
                 workVars, mutex, requests, events, statuses, indices, out_statuses, slot, cudaVars, mainVars>>

\* Mutant of PollResume: only the post-event is notified.
PollForget ==
  /\ pc["mpi"] = "resume"
  /\ Goto("mpi", "erase")
  /\ UNCHANGED <<pre, post, taskVars, resultVars, ext, paused, op, emplaced, ready, m_stop,
                 workVars, poolVars, cudaVars, mainVars>>

PollResume ==
  /\ pc["mpi"] = "resume"
  /\ NotifyPre({events[indices[slot]]})
  /\ Goto("mpi", "erase")
  /\ UNCHANGED <<post, taskVars, resultVars, ext, paused, op, emplaced, m_stop,
                 workVars, poolVars, cudaVars, mainVars>>

Erase(s, i) == SubSeq(s, 1, i - 1) \o SubSeq(s, i + 1, Len(s))

\* The indices not yet handled that are beyond the erased one move down.
Shift(i) ==
  [j \in DOMAIN indices |-> IF j >= slot /\ indices[j] > i THEN indices[j] - 1 ELSE indices[j]]

\* Notify the post-event, erase the request, go on with the next index or unlock.
PollErase ==
  /\ pc["mpi"] = "erase"
  /\ LET i == indices[slot] IN
       /\ NotifyPost(events[i])
       /\ requests' = Erase(requests, i)
       /\ events' = Erase(events, i)
       /\ statuses' = Erase(statuses, i)
       /\ IF slot = Len(indices)
            THEN /\ mutex' = "free" /\ Goto("mpi", AfterPoll("mpi"))
                 /\ indices' = <<>> /\ out_statuses' = <<>> /\ slot' = 1
            ELSE /\ indices' = Shift(i) /\ slot' = slot + 1
                 /\ Goto("mpi", "status")
                 /\ UNCHANGED <<mutex, out_statuses>>
  /\ UNCHANGED <<followers, resultVars, ext, paused, op, emplaced, m_stop,
                 workVars, status, cudaVars, main>>

-----------------------------------------------------------------------------
(***************************************************************************)
(* CudaWorker.  A stream is the sequence of the operations it still has to *)
(* do: the kernel of a task, or the record of a CUDA event.                *)
(***************************************************************************)
Kernel(t) == [kind |-> "kernel", id |-> t]
Record(e) == [kind |-> "record", id |-> e]

\* The body: getCudaStream picks the next stream, the kernel is launched into it.
Launch ==
  /\ pc["cuda"] = "body"
  /\ LET t == cur["cuda"]
         i == next_stream % NumStreams
     IN  /\ stream_idx' = [stream_idx EXCEPT ![t] = i]
         /\ streams' = [streams EXCEPT ![i] = Append(@, Kernel(t))]
         /\ op' = [op EXCEPT ![t] = "queued"]
  /\ next_stream' = next_stream + 1
  /\ Goto("cuda", "result")
  /\ UNCHANGED <<pre, post, taskVars, resultVars, ext, paused, emplaced, ready, m_stop,
                 workVars, poolVars, cuda_events, unused, created, mainVars>>

\* EventPool::alloc: the event freed last, or a new one.
Allocated == IF unused = <<>> THEN created + 1 ELSE unused[Len(unused)]

\* After the body: record an event behind the kernel, and a redGrapes event for it.
RecordEvent ==
  /\ pc["cuda"] = "record"
  /\ LET t == cur["cuda"] IN
       /\ IF unused = <<>>
            THEN created' = created + 1 /\ UNCHANGED unused
            ELSE unused' = SubSeq(unused, 1, Len(unused) - 1) /\ UNCHANGED created
       /\ streams' = [streams EXCEPT ![stream_idx[t]] = Append(@, Record(Allocated))]
       /\ cuda_events' = Append(cuda_events, [event |-> Allocated, task |-> t])
       /\ MakeEvent(t)
  /\ Goto("cuda", "pre")
  /\ UNCHANGED <<pre, taskVars, resultVars, paused, op, emplaced, ready, m_stop,
                 workVars, poolVars, stream_idx, next_stream, mainVars>>

\* Then the pre-event is notified; FinishTask notifies the post-event.
LaunchedPre ==
  /\ pc["cuda"] = "pre"
  /\ ReachPre(cur["cuda"])
  /\ Goto("cuda", "post")
  /\ UNCHANGED <<post, taskVars, resultVars, ext, paused, op, emplaced, m_stop,
                 workVars, poolVars, cudaVars, mainVars>>

\* cudaEventQuery: the last record of the event has been done.
Recorded(e) == \A i \in DOMAIN streams : \A n \in DOMAIN streams[i] : streams[i][n] # Record(e)

\* Mutant of FrontDone: does not ask the device.
FrontRecorded == cuda_events # <<>>

FrontDone == cuda_events # <<>> /\ Recorded(Head(cuda_events).event)

\* CudaWorker::poll looks at the oldest event only.
CudaPollNothing ==
  /\ pc["cuda"] = "poll" /\ ~ FrontDone
  /\ Goto("cuda", AfterPoll("cuda"))
  /\ UNCHANGED <<pre, post, taskVars, resultVars, ext, paused, op, emplaced, ready, m_stop,
                 workVars, poolVars, cudaVars, mainVars>>

CudaPoll ==
  /\ pc["cuda"] = "poll" /\ FrontDone
  /\ LET front == Head(cuda_events) IN
       /\ unused' = Append(unused, front.event)
       /\ ext' = [ext EXCEPT ![front.task] = "reached"]
       /\ NotifyPost(front.task)
  /\ cuda_events' = Tail(cuda_events)
  /\ Goto("cuda", AfterPoll("cuda"))
  /\ UNCHANGED <<followers, resultVars, paused, op, emplaced, m_stop, workVars, poolVars,
                 streams, stream_idx, next_stream, created, main>>

-----------------------------------------------------------------------------
(***************************************************************************)
(* The devices (external): an MPI operation completes at any time, a       *)
(* stream does its operations in order.                                    *)
(***************************************************************************)
RequestCompletes(t) ==
  /\ t \in Request /\ op[t] = "running"
  /\ op' = [op EXCEPT ![t] = "done"]
  /\ UNCHANGED <<pre, post, taskVars, resultVars, ext, paused, emplaced, ready, m_stop,
                 pc, workVars, poolVars, cudaVars, mainVars>>

StreamStep(i) ==
  /\ streams[i] # <<>>
  /\ LET o == Head(streams[i]) IN
       IF o.kind = "kernel" /\ op[o.id] = "queued"
         THEN op' = [op EXCEPT ![o.id] = "running"] /\ UNCHANGED streams
         ELSE /\ streams' = [streams EXCEPT ![i] = Tail(@)]
              /\ op' = IF o.kind = "kernel" THEN [op EXCEPT ![o.id] = "done"] ELSE op
  /\ UNCHANGED <<pre, post, taskVars, resultVars, ext, paused, emplaced, ready, m_stop,
                 pc, workVars, poolVars, stream_idx, next_stream, cuda_events, unused, created,
                 mainVars>>

-----------------------------------------------------------------------------
(***************************************************************************)
(* The main thread.                                                        *)
(***************************************************************************)
MainGoto(p) == main' = [main EXCEPT !.pc = p]
OnlyMain == UNCHANGED <<pre, post, followers, ext, paused, op, ready, pc, workVars,
                        poolVars, cudaVars>>

\* emplace_task and TaskBuilder::submit.  A Future that is not kept is destroyed at
\* once, which notifies the result-get event.
Emplace ==
  /\ main.pc = "emplace" /\ main.t \in Task
  /\ emplaced' = emplaced \union {main.t}
  /\ task_count' = task_count + 1
  /\ IF main.t \in Awaited
       THEN MainGoto("get") /\ UNCHANGED removal_countdown
       ELSE /\ removal_countdown' = [removal_countdown EXCEPT ![main.t] = @ - 1]
            /\ main' = [main EXCEPT !.t = @ + 1]
  /\ UNCHANGED <<resultVars, m_stop, cv>> /\ OnlyMain

EndOfProgram ==
  /\ main.pc = "emplace" /\ main.t \notin Task
  /\ MainGoto("barrier")
  /\ UNCHANGED <<emplaced, removal_countdown, resultVars, m_stop, task_count, cv>> /\ OnlyMain

\* yield_impl without a current task: event->waker_id = parserID.  The member is not
\* atomic: the store may become visible only after the first test of the event.
EnterWaker ==
  /\ main.pc \in {"get", "late"}
  /\ waker_id' = [waker_id EXCEPT ![main.t] = TRUE]
  /\ MainGoto(IF main.pc = "get" THEN "test" ELSE "doze")
  /\ UNCHANGED <<emplaced, removal_countdown, result_set, m_stop, task_count, cv>> /\ OnlyMain

\* while(!event->is_reached()) ...
TestResult ==
  /\ main.pc = "test" \/ (main.pc = "get" /\ result_set[main.t])
  /\ MainGoto(IF main.pc = "get" THEN "late" ELSE IF result_set[main.t] THEN "idle" ELSE "take")
  /\ UNCHANGED <<emplaced, removal_countdown, resultVars, m_stop, task_count, cv>> /\ OnlyMain

\* ... TaskFreeCtx::idle(): CondVar::wait returns once it has been notified.
Idle ==
  /\ main.pc \in {"idle", "doze", "await"} /\ cv
  /\ cv' = FALSE
  /\ MainGoto(IF main.pc = "await" THEN "barrier" ELSE "test")
  /\ UNCHANGED <<emplaced, removal_countdown, resultVars, m_stop, task_count>> /\ OnlyMain

\* Future::get takes the result and notifies the result-get event.
TakeResult ==
  /\ main.pc = "take"
  /\ CountDown(main.t)
  /\ main' = [main EXCEPT !.pc = "emplace", !.t = @ + 1]
  /\ UNCHANGED <<emplaced, resultVars, m_stop>> /\ OnlyMain

\* RedGrapes::~RedGrapes: barrier(), then stopExecution of one scheduler after the other.
Barrier ==
  /\ main.pc = "barrier"
  /\ MainGoto(IF task_count = 0 THEN "stop" ELSE "await")
  /\ UNCHANGED <<emplaced, removal_countdown, resultVars, m_stop, task_count, cv>> /\ OnlyMain

StopOrder == <<"pool", "mpi", "cuda">>

Stop ==
  /\ main.pc = "stop"
  /\ m_stop' = [m_stop EXCEPT ![StopOrder[main.s]] = TRUE]
  /\ MainGoto("join")
  /\ UNCHANGED <<emplaced, removal_countdown, resultVars, task_count, cv>> /\ OnlyMain

Join ==
  /\ main.pc = "join"
  /\ \A w \in Worker : SchedOf(w) = StopOrder[main.s] => pc[w] = "stopped"
  /\ main' = [main EXCEPT !.pc = IF main.s = Len(StopOrder) THEN "end" ELSE "stop", !.s = @ + 1]
  /\ UNCHANGED <<emplaced, removal_countdown, resultVars, m_stop, task_count, cv>> /\ OnlyMain

-----------------------------------------------------------------------------
WorkerStep(w) ==
  \/ \E t \in Task : GatherReady(w, t) \/ InitDependencies(w, t)
  \/ GatherNothing(w)
  \/ Execute(w)
  \/ Compute(w) \/ GetStatus(w) \/ PushRequest(w) \/ Yield(w)
  \/ PauseReset(w) \/ PauseFollow(w) \/ PauseAppend(w) \/ PauseCount(w)
  \/ PauseUp(w) \/ PauseNotify(w)
  \/ SetResult(w) \/ WakeMain(w) \/ FinishTask(w)

MpiStep == PollNothing \/ Poll \/ PollStatus \/ PollResume \/ PollErase

CudaStep == Launch \/ RecordEvent \/ LaunchedPre \/ CudaPollNothing \/ CudaPoll

MainStep ==
  \/ Emplace \/ EndOfProgram \/ EnterWaker \/ TestResult \/ Idle \/ TakeResult
  \/ Barrier \/ Stop \/ Join

\* All is done; the program ends.
Ended == main.pc = "end" /\ UNCHANGED vars

Next ==
  \/ \E w \in Worker : WorkerStep(w)
  \/ MpiStep \/ CudaStep
  \/ \E t \in Task : RequestCompletes(t)
  \/ \E i \in DOMAIN streams : StreamStep(i)
  \/ MainStep
  \/ Ended

Spec == Init /\ [][Next]_vars

-----------------------------------------------------------------------------
\* Two kernels, launched into different streams.
AcrossStreams(p, t) ==
  NoStream \notin {stream_idx[p], stream_idx[t]} /\ stream_idx[p] # stream_idx[t]

\* The operation of a task (its computation, its MPI operation, its kernel) begins only
\* when those of the tasks it depends on have ended, wherever the two run, except for two
\* kernels in different streams: where the graph keeps no edge between kernels, the order
\* of their stream stands in for it.
OperationsOrdered ==
  \A t \in Task : op[t] \in {"running", "done"} =>
    \A p \in Preds[t] : op[p] = "done" \/ AcrossStreams(p, t)

\* Of two tasks with conflicting accesses the first one is executed first, also when both
\* are kernels.  This fails with two streams: task_dependency_type drops the edge between
\* two kernels whatever streams they are launched into.
ConflictsOrdered ==
  \A t \in Task : op[t] \in {"running", "done"} => \A p \in Preds[t] : op[p] = "done"

\* A task counts as finished, and barrier() and the tasks on other schedulers go on,
\* only when its MPI operation or its kernel has ended: the external event holds the
\* post-event, whatever the order in which body, device and poll proceed.
FinishedMeansDone ==
  \A t \in Task :
    (post[t] = 0 \/ removal_countdown[t] = 0 \/ main.pc \in {"stop", "join", "end"}) => op[t] = "done"

\* RequestPool::poll hands every task the status of its own request: the three vectors
\* and the indices of MPI_Testsome stay aligned while entries are erased.
StatusIsOwn ==
  /\ \A t \in Task : status[t] \in {NoTask, t}
  /\ \A w \in Worker : pc[w] = "result" /\ cur[w] \in Request => status[cur[w]] = cur[w]
  /\ requests = events /\ events = statuses

\* A task is activated once each time it becomes ready: it is never queued twice or run
\* by two workers, and is_ready() holds when it is executed, as execute_task asserts.
\* This fails when a task of the pool waits for a request: sg_pause on its worker and the
\* poll of the MPI worker both count in its pre-event.
ResumedOnce ==
  \A t \in Task :
    /\ ready[t] <= 1
    /\ \A w, v \in Worker : cur[w] = t /\ cur[v] = t => w = v
    /\ \A w \in Worker : pc[w] = "execute" /\ cur[w] = t => pre[t] = 1

\* The queues, the pool of requests and the streams are empty and every worker looks for
\* work: only the main thread can go on.
Quiet ==
  /\ \A w \in Worker : pc[w] \in {"gather", "poll", "stopped"}
  /\ emplaced = {} /\ \A t \in Task : ready[t] = 0
  /\ requests = <<>> /\ cuda_events = <<>> /\ \A i \in DOMAIN streams : streams[i] = <<>>

\* Nothing is left waiting for a notification that was given already, or is never given:
\* when all is quiet every emplaced task has finished, paused ones and kernels included.
NothingForgotten ==
  Quiet => \A t \in Task : t < main.t \/ (t = main.t /\ main.pc # "emplace") => post[t] = 0


\* Future::get yields until the task has a valid result, and not for ever.  This fails for
\* a waker that is entered too late: the worker has looked for it before.
GetReturns == Quiet /\ main.pc \in {"idle", "doze"} => cv
=============================================================================
