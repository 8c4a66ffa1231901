------------------------------ MODULE TaskGraph ------------------------------
(***************************************************************************)
(* The task graph of redGrapes: how tasks are created, registered at their *)
(* resources, linked to the tasks they depend on, executed, and destroyed, *)
(* by the main thread and a set of workers that run concurrently.          *)
(*                                                                         *)
(* One action is one atomic access to shared state (an atomic operation on *)
(* an event, a list operation, taking a users_mutex), with the thread-     *)
(* local work up to the next one.  The queues of the scheduler are reduced *)
(* to two bags from which any worker takes any task: emplaced tasks that   *)
(* still have to be initialised, and tasks that have been activated.       *)
(*                                                                         *)
(* EventPtr::notify calls itself through notify_followers.  Each thread    *)
(* has a stack of the notifications it is inside of, innermost first.      *)
(***************************************************************************)
EXTENDS Access, Sequences, FiniteSets, Functions

Seqs == INSTANCE SequencesExt

CONSTANTS
  MaxTask,        \* bound: number of tasks the program creates
  Worker,         \* worker threads
  AccessSeq,      \* access lists (sequences of accesses) tasks are created with
  KeepsFutures    \* may the program hold a Future while it waits in barrier()?

Task == 1..MaxTask
Root == 0                      \* root_space as a parent: nullptr
Main == "main"
Thread == Worker \union {Main}
NoThread == "free"             \* value of a users_mutex that nobody holds

ASSUME GraphAssumption ==
  /\ MaxTask \in Nat
  /\ Main \notin Worker /\ NoThread \notin Worker
  /\ AccessSeq # {}
  /\ \A s \in AccessSeq : s \in Seq(Range(s)) /\ \A a \in Range(s) : IsAccess(a)
  /\ \A r \in Resource : ScopeLevel[r] = 0
  /\ KeepsFutures \in BOOLEAN

VARIABLES
  \* task objects
  life,               \* "unborn", "alive" or "freed"
  parent,             \* ResourceUser::space, by the task that owns the space
  access,             \* access_list and unique_resources
  pre, post, result_set, result_get,   \* state of the four events
  followers,          \* follower list of the post-event
  removal_countdown,
  future,             \* its Future object: "none", "held" or "gone"
  task_count,         \* TaskSpace::task_count by parent
  \* resources
  users,              \* ResourceBase::users, entries <<task, index in unique_resources>>
  users_mutex,
  \* scheduler queues
  emplaced, ready,
  \* threads
  job,                \* what the thread does outside of notify
  stack,              \* the notifications it is inside of
  \* history
  started             \* tasks whose body has been entered

objVars == <<life, parent, access, result_get, followers, removal_countdown,
             future, task_count>>
queueVars == <<emplaced, ready>>
threadVars == <<job, stack>>
vars == <<objVars, pre, post, result_set, users, users_mutex, queueVars,
          threadVars, started>>

-----------------------------------------------------------------------------
Serial(t, u) == ListSerial(Range(access[t]), Range(access[u]))
Superset(a, b) == ListSuperset(Range(a), 0, Range(b))
ResourceOf(t, k) == access[t][k].res

PreOf(t) == [task |-> t, event |-> "pre"]
PostOf(t) == [task |-> t, event |-> "post"]

Pcs == {"top", "get", "barrier", "done",                  \* main thread
        "gather", "init", "scan", "link", "up",      \* worker
        "exec", "body",
        "register"}                                       \* both

\* cur is current_task, new the task being submitted, k an index into its
\* unique_resources and it a position in a users list.
Job == [pc : Pcs, cur : Task \union {Root}, new : Task \union {Root},
        k : Nat, it : Nat]

FramePcs == {"post", "waker", "delete", "followers", "activate",
             "get", "countdown", "free", "depth"}

Frame == [task : Task, pc : FramePcs, i : Nat]

EventState == 0..(2 * MaxTask + 2)

TypeOK ==
  /\ life \in [Task -> {"unborn", "alive", "freed"}]
  /\ parent \in [Task -> Task \union {Root}]
  /\ access \in [Task -> AccessSeq]
  /\ pre \in [Task -> EventState] /\ post \in [Task -> EventState]
  /\ result_set \in [Task -> 0..1] /\ result_get \in [Task -> 0..1]
  /\ followers \in [Task -> Seq([task : Task, event : {"pre", "post"}])]
  /\ removal_countdown \in [Task -> 0..2]
  /\ future \in [Task -> {"none", "held", "gone"}]
  /\ task_count \in [Task \union {Root} -> 0..MaxTask]
  /\ users \in [Resource -> Seq(Task \X Nat)]
  /\ users_mutex \in [Resource -> Worker \union {NoThread}]
  /\ emplaced \subseteq Task
  /\ ready \in [Task -> 0..2]
  /\ job \in [Thread -> Job]
  /\ stack \in [Thread -> Seq(Frame)]
  /\ started \subseteq Task

Init ==
  /\ life = [t \in Task |-> "unborn"]
  /\ parent = [t \in Task |-> Root]
  /\ access = [t \in Task |-> CHOOSE a \in AccessSeq : TRUE]
  /\ pre = [t \in Task |-> 1] /\ post = [t \in Task |-> 1]
  /\ result_set = [t \in Task |-> 1] /\ result_get = [t \in Task |-> 1]
  /\ followers = [t \in Task |-> <<>>]
  /\ removal_countdown = [t \in Task |-> 2]
  /\ future = [t \in Task |-> "none"]
  /\ task_count = [p \in Task \union {Root} |-> 0]
  /\ users = [r \in Resource |-> <<>>]
  /\ users_mutex = [r \in Resource |-> NoThread]
  /\ emplaced = {}
  /\ ready = [t \in Task |-> 0]
  /\ job = [th \in Thread |->
              [pc |-> IF th = Main THEN "top" ELSE "gather",
               cur |-> Root, new |-> Root, k |-> 0, it |-> 0]]
  /\ stack = [th \in Thread |-> <<>>]
  /\ started = {}

-----------------------------------------------------------------------------
\* Control flow of threads.

\* The thread is outside of notify, at pc.
At(th, pc) == stack[th] = <<>> /\ job[th].pc = pc

\* The thread is in the user's code: the main program or a task body.
InProgram(th) == At(th, IF th = Main THEN "top" ELSE "body")

Goto(th, pc) == job' = [job EXCEPT ![th].pc = pc]

Call(th, t, pc) == stack' = [stack EXCEPT ![th] = <<[task |-> t, pc |-> pc, i |-> 0]>> \o @]

Top(th) == Head(stack[th])

InFrame(th, pc) == stack[th] # <<>> /\ Top(th).pc = pc

Continue(th, pc, i) ==
  stack' = [stack EXCEPT ![th] = <<[Top(th) EXCEPT !.pc = pc, !.i = i]>> \o Tail(@)]

Return(th) == stack' = [stack EXCEPT ![th] = Tail(@)]

-----------------------------------------------------------------------------
\* Creating tasks: emplace_task, TaskBuilder::submit, TaskSpace::submit.

\* Mutant of CreateTask: the edge to the parent is not counted there.
CreateWithoutEdge(th, t, a) ==
  /\ InProgram(th)
  /\ \A u \in Task : life[u] = "unborn" <=> u >= t
  /\ LET p == job[th].cur
     IN  /\ p # Root => Superset(access[p], a)
         /\ parent' = [parent EXCEPT ![t] = p]
         /\ task_count' = [task_count EXCEPT ![p] = @ + 1]
         /\ followers' = [followers EXCEPT ![t] = IF p = Root THEN @ ELSE Append(@, PostOf(p))]
  /\ life' = [life EXCEPT ![t] = "alive"]
  /\ access' = [access EXCEPT ![t] = a]
  /\ job' = [job EXCEPT ![th].pc = "register", ![th].new = t, ![th].k = Len(a)]
  /\ UNCHANGED <<pre, post, result_set, result_get, removal_countdown, future,
                 users, users_mutex, queueVars, stack, started>>

\* The task object is private to its creator here, except that a child adds
\* an edge to the post-event of its parent.
CreateTask(th, t, a) ==
  /\ InProgram(th)
  /\ \A u \in Task : life[u] = "unborn" <=> u >= t
  /\ LET p == job[th].cur
     IN  /\ p # Root => Superset(access[p], a)
         /\ parent' = [parent EXCEPT ![t] = p]
         /\ task_count' = [task_count EXCEPT ![p] = @ + 1]
         /\ IF p = Root
            THEN UNCHANGED <<followers, post>>
            ELSE /\ followers' = [followers EXCEPT ![t] = Append(@, PostOf(p))]
                 /\ post' = [post EXCEPT ![p] = @ + 1]
  /\ life' = [life EXCEPT ![t] = "alive"]
  /\ access' = [access EXCEPT ![t] = a]
  /\ job' = [job EXCEPT ![th].pc = "register", ![th].new = t, ![th].k = Len(a)]
  /\ UNCHANGED <<pre, result_set, result_get, removal_countdown, future, users,
                 users_mutex, queueVars, stack, started>>

\* r->user_entry = r->resource->users.push(task), without the users_mutex
Register(th) ==
  LET t == job[th].new
      k == job[th].k
  IN  /\ At(th, "register")
      /\ k > 0
      /\ users' = [users EXCEPT ![ResourceOf(t, k)] = Append(@, <<t, k>>)]
      /\ job' = [job EXCEPT ![th].k = k - 1]
      /\ UNCHANGED <<objVars, pre, post, result_set, users_mutex, queueVars,
                     stack, started>>

\* The scheduler gets the task and the creator its Future.
EmplaceTask(th) ==
  LET t == job[th].new
  IN  /\ At(th, "register")
      /\ job[th].k = 0
      /\ emplaced' = emplaced \union {t}
      /\ future' = [future EXCEPT ![t] = "held"]
      /\ job' = [job EXCEPT ![th].pc = IF th = Main THEN "top" ELSE "body",
                            ![th].new = Root]
      /\ UNCHANGED <<life, parent, access, pre, post, result_set, result_get,
                     followers, removal_countdown, task_count, users, users_mutex,
                     ready, stack, started>>

-----------------------------------------------------------------------------
\* Futures and the barrier.

\* The Future of t lives in the code that created t.
Holds(th, t) == future[t] = "held" /\ parent[t] = job[th].cur

\* ~Future of a result that was not taken
DropFuture(th, t) ==
  /\ InProgram(th)
  /\ Holds(th, t)
  /\ future' = [future EXCEPT ![t] = "gone"]
  /\ Call(th, t, "get")
  /\ UNCHANGED <<life, parent, access, pre, post, result_set, result_get,
                 followers, removal_countdown, task_count, users, users_mutex,
                 queueVars, job, started>>

\* Future::get of the main thread sleeps until the result is set.
BeginGet(t) ==
  /\ InProgram(Main)
  /\ Holds(Main, t)
  /\ job' = [job EXCEPT ![Main].pc = "get", ![Main].new = t]
  /\ UNCHANGED <<objVars, pre, post, result_set, users, users_mutex, queueVars,
                 stack, started>>

EndGet ==
  LET t == job[Main].new
  IN  /\ At(Main, "get")
      /\ result_set[t] = 0
      /\ future' = [future EXCEPT ![t] = "gone"]
      /\ job' = [job EXCEPT ![Main].pc = "top", ![Main].new = Root]
      /\ Call(Main, t, "get")
      /\ UNCHANGED <<life, parent, access, pre, post, result_set, result_get,
                     followers, removal_countdown, task_count, users,
                     users_mutex, queueVars, started>>

BeginBarrier ==
  /\ InProgram(Main)
  /\ KeepsFutures \/ \A t \in Task : ~ Holds(Main, t)
  /\ Goto(Main, "barrier")
  /\ UNCHANGED <<objVars, pre, post, result_set, users, users_mutex, queueVars,
                 stack, started>>

\* while(!root_space->empty()) idle()
EndBarrier ==
  /\ At(Main, "barrier")
  /\ task_count[Root] = 0
  /\ Goto(Main, "done")
  /\ UNCHANGED <<objVars, pre, post, result_set, users, users_mutex, queueVars,
                 stack, started>>

-----------------------------------------------------------------------------
\* Initialising tasks: DefaultWorker::init_dependencies, init_graph.

PopNew(w, t) ==
  /\ At(w, "gather")
  /\ t \in emplaced
  /\ emplaced' = emplaced \ {t}
  /\ pre' = [pre EXCEPT ![t] = @ + 1]
  /\ job' = [job EXCEPT ![w].pc = "init", ![w].cur = t, ![w].k = Len(access[t])]
  /\ UNCHANGED <<objVars, post, result_set, users, users_mutex, ready, stack, started>>

\* Position of the task's own entry in a users list.
EntryOf(r, t, k) == CHOOSE n \in DOMAIN users[r] : users[r][n] = <<t, k>>

\* Take the users_mutex of the next resource; the search for predecessors
\* begins before the task's own entry.
LockUsers(w) ==
  LET t == job[w].cur
      k == job[w].k
      r == ResourceOf(t, k)
  IN  /\ At(w, "init")
      /\ k > 0
      /\ users_mutex[r] = NoThread
      /\ users_mutex' = [users_mutex EXCEPT ![r] = w]
      /\ job' = [job EXCEPT ![w].pc = "scan", ![w].it = EntryOf(r, t, k) - 1]
      /\ UNCHANGED <<objVars, pre, post, result_set, users, queueVars, stack, started>>

\* What the worker does after looking at one entry: go on to the previous
\* one, or unlock and go on to the next resource.
NextEntry(w) ==
  /\ job' = [job EXCEPT ![w].pc = "scan", ![w].it = @ - 1]
  /\ UNCHANGED users_mutex

NextResource(w) ==
  /\ job' = [job EXCEPT ![w].pc = "init", ![w].k = @ - 1, ![w].it = 0]
  /\ users_mutex' = [users_mutex EXCEPT ![ResourceOf(job[w].cur, job[w].k)] = NoThread]

\* Mutant of AfterDependency: any predecessor ends the search.
StopAtDependency(w, q) == NextResource(w)

\* A synchronizing predecessor ends the search at this resource.
AfterDependency(w, q) ==
  IF ListHasSyncAccess(Range(access[q]), ResourceOf(job[w].cur, job[w].k))
  THEN NextResource(w)
  ELSE NextEntry(w)

Predecessor(w) == users[ResourceOf(job[w].cur, job[w].k)][job[w].it][1]

\* One round of the loop over the users: the end of the list, the parent, an
\* unrelated task, a finished predecessor or one to depend on.
Scan(w) ==
  LET t == job[w].cur
      q == Predecessor(w)
  IN  /\ At(w, "scan")
      /\ \/ /\ job[w].it = 0
            /\ NextResource(w)
         \/ /\ job[w].it > 0
            /\ q = parent[t]
            /\ NextResource(w)
         \/ /\ job[w].it > 0
            /\ q # parent[t]
            /\ ~ (parent[q] = parent[t] /\ Serial(q, t))
            /\ NextEntry(w)
         \/ /\ job[w].it > 0
            /\ q # parent[t]
            /\ parent[q] = parent[t] /\ Serial(q, t)
            /\ IF post[q] = 0
               THEN AfterDependency(w, q)
               ELSE Goto(w, "link") /\ UNCHANGED users_mutex
      /\ UNCHANGED <<objVars, pre, post, result_set, users, queueVars, stack, started>>

\* followers.push(follower)
Link(w) ==
  /\ At(w, "link")
  /\ followers' = [followers EXCEPT ![Predecessor(w)] = Append(@, PreOf(job[w].cur))]
  /\ Goto(w, "up")
  /\ UNCHANGED <<life, parent, access, pre, post, result_set, result_get,
                 removal_countdown, future, task_count, users, users_mutex,
                 queueVars, stack, started>>

\* follower->state++
CountEdge(w) ==
  /\ At(w, "up")
  /\ pre' = [pre EXCEPT ![job[w].cur] = @ + 1]
  /\ AfterDependency(w, Predecessor(w))
  /\ UNCHANGED <<objVars, post, result_set, users, queueVars, stack, started>>

\* Mutant of EndInit: runs the task although one predecessor is unfinished.
EndInitEarly(w) ==
  LET t == job[w].cur
  IN  /\ At(w, "init")
      /\ job[w].k = 0
      /\ pre' = [pre EXCEPT ![t] = @ - 1]
      /\ job' = IF pre[t] <= 3
                THEN [job EXCEPT ![w].pc = "exec"]
                ELSE [job EXCEPT ![w].pc = "gather", ![w].cur = Root]
      /\ UNCHANGED <<objVars, post, result_set, users, users_mutex, queueVars,
                     stack, started>>

\* notify(claimed): the worker that initialised the task runs it if it is ready.
EndInit(w) ==
  LET t == job[w].cur
  IN  /\ At(w, "init")
      /\ job[w].k = 0
      /\ pre' = [pre EXCEPT ![t] = @ - 1]
      /\ job' = IF pre[t] = 2
                THEN [job EXCEPT ![w].pc = "exec"]
                ELSE [job EXCEPT ![w].pc = "gather", ![w].cur = Root]
      /\ UNCHANGED <<objVars, post, result_set, users, users_mutex, queueVars,
                     stack, started>>

-----------------------------------------------------------------------------
\* Executing tasks: DefaultWorker::execute_task.

PopReady(w, t) ==
  /\ At(w, "gather")
  /\ ready[t] > 0
  /\ ready' = [ready EXCEPT ![t] = @ - 1]
  /\ job' = [job EXCEPT ![w].pc = "exec", ![w].cur = t]
  /\ UNCHANGED <<objVars, pre, post, result_set, users, users_mutex, emplaced,
                 stack, started>>

\* The pre-event is reached; it has no followers, because this scheduler
\* makes tasks depend on post-events only.
Execute(w) ==
  LET t == job[w].cur
  IN  /\ At(w, "exec")
      /\ pre' = [pre EXCEPT ![t] = @ - 1]
      /\ started' = started \union {t}
      /\ Goto(w, "body")
      /\ UNCHANGED <<objVars, post, result_set, users, users_mutex, queueVars, stack>>

\* The body returns: its local Futures are gone, the result-set event is
\* reached, and the post-event gets notified.
EndBody(w) ==
  LET t == job[w].cur
  IN  /\ InProgram(w) /\ w # Main
      /\ \A c \in Task : ~ Holds(w, c)
      /\ result_set' = [result_set EXCEPT ![t] = @ - 1]
      /\ job' = [job EXCEPT ![w].pc = "gather", ![w].cur = Root]
      /\ Call(w, t, "post")
      /\ UNCHANGED <<objVars, pre, post, users, users_mutex, queueVars, started>>

-----------------------------------------------------------------------------
\* EventPtr::notify on post- and result-get-events.

NotifyPost(th) ==
  LET t == Top(th).task
  IN  /\ InFrame(th, "post")
      /\ post' = [post EXCEPT ![t] = @ - 1]
      /\ IF post[t] > 2 THEN Return(th) ELSE Continue(th, "waker", post[t] - 1)
      /\ UNCHANGED <<objVars, pre, result_set, users, users_mutex, queueVars,
                     job, started>>

NotifyGet(th) ==
  LET t == Top(th).task
  IN  /\ InFrame(th, "get")
      /\ result_get' = [result_get EXCEPT ![t] = @ - 1]
      /\ Continue(th, "countdown", 0)
      /\ UNCHANGED <<life, parent, access, pre, post, result_set, followers,
                     removal_countdown, future, task_count, users, users_mutex,
                     queueVars, job, started>>

\* Mutant of ReadWaker: notifies the followers without having deleted the
\* task from its resources.
NotifyUndeleted(th) ==
  LET f == Top(th)
  IN  /\ InFrame(th, "waker")
      /\ IF f.i = 1 THEN Return(th)
                    ELSE Continue(th, "followers", Len(followers[f.task]))
      /\ UNCHANGED <<objVars, pre, post, result_set, users, users_mutex,
                     queueVars, job, started>>

\* The notifier reads the event once more, for its waker_id, also when the
\* event is not reached yet (i = 1) and other edges into it remain.
ReadWaker(th) ==
  LET f == Top(th)
  IN  /\ InFrame(th, "waker")
      /\ CASE f.i = 1 -> Return(th)
           [] f.i = 0 /\ access[f.task] # <<>> -> Continue(th, "delete", Len(access[f.task]))
           [] OTHER -> Continue(th, "followers", Len(followers[f.task]))
      /\ UNCHANGED <<objVars, pre, post, result_set, users, users_mutex,
                     queueVars, job, started>>

\* Mutant of DeleteFromResource: leaves the entry in the list.
DeleteNothing(th) ==
  LET f == Top(th)
  IN  /\ InFrame(th, "delete")
      /\ users_mutex[ResourceOf(f.task, f.i)] = NoThread
      /\ IF f.i > 1 THEN Continue(th, "delete", f.i - 1)
                    ELSE Continue(th, "followers", Len(followers[f.task]))
      /\ UNCHANGED <<objVars, pre, post, result_set, users, users_mutex,
                     queueVars, job, started>>

\* delete_from_resources: one resource under its users_mutex
DeleteFromResource(th) ==
  LET f == Top(th)
      r == ResourceOf(f.task, f.i)
  IN  /\ InFrame(th, "delete")
      /\ users_mutex[r] = NoThread
      /\ users' = [users EXCEPT ![r] = Seqs!RemoveAt(@, EntryOf(r, f.task, f.i))]
      /\ IF f.i > 1 THEN Continue(th, "delete", f.i - 1)
                    ELSE Continue(th, "followers", Len(followers[f.task]))
      /\ UNCHANGED <<objVars, pre, post, result_set, users_mutex, queueVars,
                     job, started>>

\* notify_followers, from the last follower to the first.  A child's first
\* follower is the post-event of its parent.
NotifyFollower(th) ==
  LET f == Top(th)
      g == followers[f.task][f.i]
  IN  /\ InFrame(th, "followers")
      /\ f.i > 0
      /\ \/ /\ g.event = "pre"
            /\ pre' = [pre EXCEPT ![g.task] = @ - 1]
            /\ IF pre[g.task] = 2 THEN Continue(th, "activate", f.i)
                                  ELSE Continue(th, "followers", f.i - 1)
         \/ /\ g.event = "post"
            /\ stack' = [stack EXCEPT ![th] =
                 <<[task |-> g.task, pc |-> "post", i |-> 0],
                   [f EXCEPT !.i = f.i - 1]>> \o Tail(@)]
            /\ UNCHANGED pre
      /\ UNCHANGED <<objVars, post, result_set, users, users_mutex, queueVars,
                     job, started>>

\* Mutant of ActivateTask: takes every follower for a claimed task.
ActivateNothing(th) ==
  /\ InFrame(th, "activate")
  /\ Continue(th, "followers", Top(th).i - 1)
  /\ UNCHANGED <<objVars, pre, post, result_set, users, users_mutex, queueVars,
                 job, started>>

\* The pre-event of a follower became ready: the scheduler gets the task.
ActivateTask(th) ==
  LET f == Top(th)
      g == followers[f.task][f.i]
  IN  /\ InFrame(th, "activate")
      /\ ready' = [ready EXCEPT ![g.task] = @ + 1]
      /\ Continue(th, "followers", f.i - 1)
      /\ UNCHANGED <<objVars, pre, post, result_set, users, users_mutex,
                     emplaced, job, started>>

\* Mutant of CountDown: the first of the two events destroys the task.
CountDownOnce(th) ==
  LET f == Top(th)
  IN  /\ InFrame(th, "countdown") \/ (InFrame(th, "followers") /\ f.i = 0)
      /\ removal_countdown' = [removal_countdown EXCEPT ![f.task] = @ - 1]
      /\ IF removal_countdown[f.task] = 2 THEN Continue(th, "free", 0) ELSE Return(th)
      /\ UNCHANGED <<life, parent, access, pre, post, result_set, result_get,
                     followers, future, task_count, users, users_mutex,
                     queueVars, job, started>>

\* The second of the post-event and the result-get-event destroys the task.
CountDown(th) ==
  LET f == Top(th)
  IN  /\ InFrame(th, "countdown") \/ (InFrame(th, "followers") /\ f.i = 0)
      /\ removal_countdown' = [removal_countdown EXCEPT ![f.task] = @ - 1]
      /\ IF removal_countdown[f.task] = 1 THEN Continue(th, "free", 0) ELSE Return(th)
      /\ UNCHANGED <<life, parent, access, pre, post, result_set, result_get,
                     followers, future, task_count, users, users_mutex,
                     queueVars, job, started>>

\* Mutant of FreeTask: does not count the task out of its space.
FreeUncounted(th) ==
  LET t == Top(th).task
  IN  /\ InFrame(th, "free")
      /\ life' = [life EXCEPT ![t] = "freed"]
      /\ Continue(th, "depth", 0)
      /\ UNCHANGED <<parent, access, pre, post, result_set, result_get, followers,
                     removal_countdown, future, task_count, users, users_mutex,
                     queueVars, job, started>>

\* TaskSpace::free_task up to the destruction of the task ...  The task is gone
\* as soon as it is counted out of its space, which is a little before the
\* code destroys it: a thread that uses it in between uses it too late here.
FreeTask(th) ==
  LET t == Top(th).task
  IN  /\ InFrame(th, "free")
      /\ task_count' = [task_count EXCEPT ![parent[t]] = @ - 1]
      /\ life' = [life EXCEPT ![t] = "freed"]
      /\ Continue(th, "depth", 0)
      /\ UNCHANGED <<parent, access, pre, post, result_set, result_get, followers,
                     removal_countdown, future, users, users_mutex, queueVars,
                     job, started>>

\* ... and the read of the depth of the task space after it, to see if the
\* main thread has to be woken up.
ReadDepth(th) ==
  /\ InFrame(th, "depth")
  /\ Return(th)
  /\ UNCHANGED <<objVars, pre, post, result_set, users, users_mutex, queueVars,
                 job, started>>

-----------------------------------------------------------------------------
Notify(th) ==
  \/ NotifyPost(th) \/ NotifyGet(th) \/ ReadWaker(th)
  \/ DeleteFromResource(th) \/ NotifyFollower(th) \/ ActivateTask(th)
  \/ CountDown(th) \/ FreeTask(th) \/ ReadDepth(th)

Program(th) ==
  \/ \E t \in Task, a \in AccessSeq : CreateTask(th, t, a)
  \/ Register(th)
  \/ EmplaceTask(th)
  \/ \E t \in Task : DropFuture(th, t)

MainStep ==
  \/ Program(Main)
  \/ \E t \in Task : BeginGet(t)
  \/ EndGet
  \/ BeginBarrier
  \/ EndBarrier
  \/ Notify(Main)

WorkerStep(w) ==
  \/ Program(w)
  \/ \E t \in Task : PopNew(w, t) \/ PopReady(w, t)
  \/ LockUsers(w) \/ Scan(w) \/ Link(w) \/ CountEdge(w) \/ EndInit(w)
  \/ Execute(w) \/ EndBody(w)
  \/ Notify(w)

\* All work is done and the main thread has left its barrier.
Terminated ==
  /\ At(Main, "done")
  /\ \A w \in Worker : At(w, "gather")
  /\ emplaced = {} /\ \A t \in Task : ready[t] = 0
  /\ UNCHANGED vars

Next == MainStep \/ (\E w \in Worker : WorkerStep(w)) \/ Terminated

Spec == Init /\ [][Next]_vars

-----------------------------------------------------------------------------
(***************************************************************************)
(* Properties.                                                             *)
(***************************************************************************)
Frames == UNION {{<<th, n>> : n \in DOMAIN stack[th]} : th \in Thread}
FrameAt(x) == stack[x[1]][x[2]]

\* The notification that carries the post-event of q to its followers.
Carrying(q, pcs) ==
  {x \in Frames : FrameAt(x).task = q /\ FrameAt(x).pc \in pcs}

\* How many of q's followers, counted from the front, are still to be notified.
ToNotify(q) ==
  LET now  == Carrying(q, {"followers", "activate"})
      soon == {x \in Carrying(q, {"waker", "delete"}) :
                 FrameAt(x).pc = "waker" => FrameAt(x).i = 0}
  IN  IF now # {}
      THEN LET f == FrameAt(CHOOSE x \in now : TRUE)
           IN  IF f.pc = "activate" THEN f.i - 1 ELSE f.i
      ELSE IF post[q] > 0 \/ soon # {} THEN Len(followers[q]) ELSE 0

\* The edges into an event that are not notified yet.
PendingEdges(e) ==
  UNION {{<<q, n>> : n \in {m \in 1..ToNotify(q) : followers[q][m] = e}} : q \in Task}

Workers(t, pcs) == {w \in Worker : job[w].cur = t /\ job[w].pc \in pcs}

InBody(t) == Workers(t, {"body", "register"})

\* The state of a pre-event is exactly one, plus one while the task is being
\* initialised, plus the edges from predecessors that have not been notified,
\* so no notification is lost and none comes too early: init_graph and the
\* delete_from_resources / notify_followers pair of a finishing predecessor
\* never overlap at a resource.
PreEventCountsEdges ==
  \A t \in Task : life[t] = "alive" /\ t \notin started =>
    pre[t] + Cardinality(Workers(t, {"up"}))
      = 1 + Cardinality(Workers(t, {"init", "scan", "link", "up"}))
          + Cardinality(PendingEdges(PreOf(t)))

\* The state of a post-event is exactly one until the body has ended, plus
\* the children that have not been notified as finished.
PostEventCountsEdges ==
  \A t \in Task : life[t] = "alive" =>
    post[t] = (IF t \notin started \/ InBody(t) # {} THEN 1 ELSE 0)
                + Cardinality(Carrying(t, {"post"}))
                + Cardinality(PendingEdges(PostOf(t)))

\* A task is handed to a worker exactly once: activated by its last
\* predecessor, or claimed by the worker that initialised it.
ExecutedOnce ==
  \A t \in Task :
    LET hands == ready[t] + Cardinality(Workers(t, {"exec"}))
                 + Cardinality({x \in Frames :
                      /\ FrameAt(x).pc = "activate"
                      /\ followers[FrameAt(x).task][FrameAt(x).i] = PreOf(t)})
    IN  /\ hands <= 1
        /\ hands = 1 => t \notin started /\ pre[t] = 1
        /\ t \in started => pre[t] = 0

\* No thread works on a destroyed task: neither one in a users list that
\* init_graph walks, nor a follower that still has to be notified, nor the
\* task a notification is for, nor the task behind a Future.  (The reads that
\* come after the last notification are the subject of LateReadsSafe.)
NoUseAfterFree ==
  /\ \A r \in Resource : \A n \in DOMAIN users[r] : life[users[r][n][1]] = "alive"
  /\ \A t \in Task : life[t] # "alive" =>
       /\ PendingEdges(PreOf(t)) = {} /\ PendingEdges(PostOf(t)) = {}
       /\ future[t] # "held"
       /\ \A w \in Worker : job[w].cur # t
       /\ Carrying(t, FramePcs \ {"waker", "depth"}) = {}

\* races.rst: a task is removed only when its body has finished and its result
\* was retrieved or its Future is gone, and then only once.
RemovedWhenDone ==
  \A t \in Task : life[t] = "freed" =>
    /\ post[t] = 0 /\ result_get[t] = 0 /\ result_set[t] = 0
    /\ future[t] = "gone"
    /\ t \notin emplaced /\ ready[t] = 0

\* What a thread reads after it has let go of an object still exists.  A
\* notifier that reads the waker_id of an event finds an event that is ready
\* or reached; free_task, when it looks at the depth of the task space, finds
\* the space, which its tasks and the enclosing task own.  Neither holds: the
\* body of a task and its last child notify its post-event on two threads, and
\* the slower one reads from a task the other one has removed.
LateReadsSafe ==
  \A x \in Frames :
    LET t == FrameAt(x).task
    IN  /\ FrameAt(x).pc = "waker" => life[t] = "alive" /\ post[t] \in {0, 1}
        /\ FrameAt(x).pc = "depth" /\ parent[t] # Root =>
             \/ life[parent[t]] = "alive"
             \/ \E c \in Task : parent[c] = parent[t] /\ life[c] = "alive"

\* A task only ever waits for tasks that precede it.  This fails when a task
\* names a resource twice: init_graph, which starts from the last of its
\* entries, meets the first one and makes the task wait for itself.
OnlyPrecedingConsidered ==
  \A q \in Task : \A n \in DOMAIN followers[q] :
    followers[q][n].event = "pre" => q < followers[q][n].task

FollowsItself(t) == PreOf(t) \in Range(followers[t])

\* No thread has anything left to do except the main thread: every worker looks
\* for work and there is none.
Quiet ==
  /\ \A th \in Thread : stack[th] = <<>>
  /\ \A w \in Worker : job[w].pc = "gather"
  /\ emplaced = {} /\ \A t \in Task : ready[t] = 0

\* When the workers have run out of work every task that was submitted has
\* finished, its children included: the events, the claim of the initialising
\* worker and the hand-over by the last predecessor strand no task.  The one
\* exception is a program with a task that follows itself.  How the scheduler
\* spreads the work over its workers does not matter for it.
NothingStranded ==
  Quiet => \/ \A t \in Task : life[t] = "alive" /\ future[t] # "none" => post[t] = 0
           \/ \E t \in Task : FollowsItself(t)

\* Nor is the main thread stranded then: the result it waits for in get() is
\* set, and root_space is empty when it waits in barrier() and holds no Future.
MainGoesOn ==
  Quiet => \/ /\ At(Main, "get") => result_set[job[Main].new] = 0
              /\ At(Main, "barrier") /\ (\A t \in Task : ~ Holds(Main, t))
                   => task_count[Root] = 0
           \/ \E t \in Task : FollowsItself(t)

-----------------------------------------------------------------------------
(***************************************************************************)
(* The task graph implements the ordering of module TaskOrder.             *)
(***************************************************************************)
AbstractStatus ==
  [t \in Task |-> IF life[t] = "unborn" THEN "none"
                  ELSE IF post[t] = 0 THEN "finished"
                  ELSE IF t \in started THEN "running"
                  ELSE "created"]

\* Parents have smaller ids than their children.
Ancestors[t \in Task] ==
  IF parent[t] = Root THEN {} ELSE {parent[t]} \union Ancestors[parent[t]]

SeqSerial(a, b) == ListSerial(Range(a), Range(b))

Order == INSTANCE TaskOrder WITH
  AccessList <- AccessSeq, IsSerial <- SeqSerial, IsSupersetOf <- Superset,
  status <- AbstractStatus, ancestors <- Ancestors

\* Every behaviour of the task graph is one of the abstract specification.
ImplementsTaskOrder == Order!Spec
=============================================================================
