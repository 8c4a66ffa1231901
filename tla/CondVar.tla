------------------------------- MODULE CondVar -------------------------------
(***************************************************************************)
(* CondVar (sync/cv.hpp): the latch on which a worker sleeps when it is    *)
(* out of tasks, and the main thread in barrier() and Future::get().       *)
(*                                                                         *)
(* There is one waiter.  It looks for work, and calls wait() when there is *)
(* none; a notifier publishes work (a task in a queue, a reached event, an *)
(* empty task space) and then calls notify().                              *)
(*                                                                         *)
(* wait() ends with a release store to should_wait, which may still be     *)
(* invisible to the other threads when the waiter goes on to look for work *)
(* by plain loads: `buffered' is that pending store.                       *)
(***************************************************************************)
EXTENDS Naturals

CONSTANTS
  Notifier,   \* threads that call notify()
  Timeout,    \* CondVar::timeout, rounds of busy waiting
  MaxPost     \* bound: how often work is published

Waiter == "waiter"
NoThread == "free"

ASSUME CondVarAssumption ==
  /\ Waiter \notin Notifier /\ NoThread \notin Notifier
  /\ Timeout \in Nat
  /\ MaxPost \in Nat

VARIABLES
  should_wait,
  buffered,    \* the store of TRUE to should_wait is in the waiter's store buffer
  m,           \* holder of the mutex
  waiter,      \* program counter of the waiter
  count,       \* rounds of busy waiting of this call of wait()
  notifier,    \* program counters of the notifiers
  work,        \* amount of published work that the waiter has not taken
  posted,      \* amount of work ever published
  overtaken    \* history: since the waiter last left wait(), a notify() came
               \* after its look for work and before its store was visible

vars == <<should_wait, buffered, m, waiter, count, notifier, work, posted, overtaken>>

\* Past the look for work, and not yet at the final store of wait().
Waiting == {"begin", "spin", "second", "lock", "pred", "asleep", "relock"}

TypeOK ==
  /\ should_wait \in BOOLEAN /\ buffered \in BOOLEAN
  /\ m \in Notifier \union {Waiter, NoThread}
  /\ waiter \in {"check", "leave"} \union Waiting
  /\ count \in 0..(Timeout + 1)
  /\ notifier \in [Notifier -> {"idle", "cas", "lock", "all"}]
  /\ work \in Nat
  /\ posted \in 0..MaxPost
  /\ overtaken \in BOOLEAN

Init ==
  /\ should_wait = TRUE /\ buffered = FALSE
  /\ m = NoThread
  /\ waiter = "check"
  /\ count = 0
  /\ notifier = [n \in Notifier |-> "idle"]
  /\ work = 0
  /\ posted = 0
  /\ overtaken = FALSE

-----------------------------------------------------------------------------
\* The waiter.

\* What the waiter reads: its own pending store, if there is one.
View == buffered \/ should_wait

\* gather_task() finds a task, or the loop in barrier() an empty space.  To
\* dequeue is a read-modify-write and empties the store buffer.
TakeWork ==
  /\ waiter = "check"
  /\ ~ buffered
  /\ work > 0
  /\ work' = work - 1
  /\ UNCHANGED <<should_wait, buffered, m, waiter, count, notifier, posted, overtaken>>

\* Mutant of LookInVain: waits again without having looked for more work.
LookUnchecked ==
  /\ waiter = "check"
  /\ waiter' = "begin"
  /\ UNCHANGED <<should_wait, buffered, m, count, notifier, work, posted, overtaken>>

\* There is no work.  It takes plain loads to find out, which do not wait for
\* the store buffer.
LookInVain ==
  /\ waiter = "check"
  /\ work = 0
  /\ waiter' = "begin"
  /\ UNCHANGED <<should_wait, buffered, m, count, notifier, work, posted, overtaken>>

\* wait() is called: by a worker after set_worker_state_global, a read-modify-
\* write, and by the main thread at once.
BeginWait ==
  /\ waiter = "begin"
  /\ waiter' = "spin"
  /\ count' = 0
  /\ UNCHANGED <<should_wait, buffered, m, notifier, work, posted, overtaken>>

\* while(should_wait) ++count > timeout.  The count stays at Timeout + 1.
Spin ==
  /\ waiter = "spin"
  /\ \/ /\ ~ View
        /\ waiter' = "leave"
        /\ UNCHANGED count
     \/ /\ View
        /\ count' = IF count > Timeout THEN count ELSE count + 1
        /\ waiter' = IF count' > Timeout THEN "second" ELSE "spin"
  /\ UNCHANGED <<should_wait, buffered, m, notifier, work, posted, overtaken>>

\* The second test, before the mutex is taken.
TestAgain ==
  /\ waiter = "second"
  /\ waiter' = IF View THEN "lock" ELSE "spin"
  /\ UNCHANGED <<should_wait, buffered, m, count, notifier, work, posted, overtaken>>

\* Taking the mutex is a read-modify-write and empties the store buffer.
LockMutex ==
  /\ waiter \in {"lock", "relock"}
  /\ m = NoThread
  /\ ~ buffered
  /\ m' = Waiter
  /\ waiter' = "pred"
  /\ UNCHANGED <<should_wait, buffered, count, notifier, work, posted, overtaken>>

\* Mutant of TestPredicate: waits for a notification without a predicate.
TestNoPredicate ==
  /\ waiter = "pred"
  /\ waiter' = "asleep"
  /\ m' = NoThread
  /\ UNCHANGED <<should_wait, buffered, count, notifier, work, posted, overtaken>>

\* std::condition_variable::wait(l, pred) gives up the mutex either way.
TestPredicate ==
  /\ waiter = "pred"
  /\ waiter' = IF should_wait THEN "asleep" ELSE "spin"
  /\ m' = NoThread
  /\ UNCHANGED <<should_wait, buffered, count, notifier, work, posted, overtaken>>

\* A std::condition_variable may wake up its waiter for no reason.
SpuriousWakeup ==
  /\ waiter = "asleep"
  /\ waiter' = "relock"
  /\ UNCHANGED <<should_wait, buffered, m, count, notifier, work, posted, overtaken>>

\* should_wait.store(true, memory_order_release): wait() returns.
EndWait ==
  /\ waiter = "leave"
  /\ buffered' = TRUE
  /\ overtaken' = FALSE
  /\ waiter' = "check"
  /\ UNCHANGED <<should_wait, m, count, notifier, work, posted>>

\* The store becomes visible.
Drain ==
  /\ buffered
  /\ buffered' = FALSE
  /\ should_wait' = TRUE
  /\ UNCHANGED <<m, waiter, count, notifier, work, posted, overtaken>>

-----------------------------------------------------------------------------
\* A notifier.

Publish(n) ==
  /\ notifier[n] = "idle"
  /\ posted < MaxPost
  /\ posted' = posted + 1
  /\ work' = work + 1
  /\ notifier' = [notifier EXCEPT ![n] = "cas"]
  /\ UNCHANGED <<should_wait, buffered, m, waiter, count, overtaken>>

\* compare_exchange_strong(true, false)
NotifyExchange(n) ==
  /\ notifier[n] = "cas"
  /\ should_wait' = FALSE
  /\ notifier' = [notifier EXCEPT ![n] = IF should_wait THEN "lock" ELSE "idle"]
  /\ overtaken' = (overtaken \/ (buffered /\ waiter # "check"))
  /\ UNCHANGED <<buffered, m, waiter, count, work, posted>>

NotifyLock(n) ==
  /\ notifier[n] = "lock"
  /\ m = NoThread
  /\ m' = n
  /\ notifier' = [notifier EXCEPT ![n] = "all"]
  /\ UNCHANGED <<should_wait, buffered, waiter, count, work, posted, overtaken>>

\* Mutant of NotifyAll: a notify that is meant for somebody else.
NotifyNobody(n) ==
  /\ notifier[n] = "all"
  /\ m' = NoThread
  /\ notifier' = [notifier EXCEPT ![n] = "idle"]
  /\ UNCHANGED <<should_wait, buffered, waiter, count, work, posted, overtaken>>

\* notify_all() and the release of the mutex
NotifyAll(n) ==
  /\ notifier[n] = "all"
  /\ m' = NoThread
  /\ waiter' = IF waiter = "asleep" THEN "relock" ELSE waiter
  /\ notifier' = [notifier EXCEPT ![n] = "idle"]
  /\ UNCHANGED <<should_wait, buffered, count, work, posted, overtaken>>

-----------------------------------------------------------------------------
\* Everything that happens without waiting for someone else's decision.
WaiterStep ==
  \/ TakeWork \/ LookInVain \/ BeginWait \/ Spin \/ TestAgain \/ LockMutex \/ TestPredicate
  \/ EndWait \/ Drain

NotifierStep(n) == NotifyExchange(n) \/ NotifyLock(n) \/ NotifyAll(n)

Next ==
  \/ WaiterStep \/ SpuriousWakeup
  \/ \E n \in Notifier : Publish(n) \/ NotifierStep(n)

Spec == Init /\ [][Next]_vars

\* Threads are scheduled; a call of notify() that has begun goes on.
FairSpec ==
  /\ Spec
  /\ WF_vars(WaiterStep)
  /\ \A n \in Notifier : WF_vars(NotifierStep(n))

-----------------------------------------------------------------------------
\* While the waiter is in wait() and there is work for it, the latch is open
\* or a notifier is about to open it: a notify() that finds should_wait
\* already FALSE and does nothing is never the one that was needed.
NoLostWakeup ==
  waiter \in Waiting /\ work > 0 =>
    ~ should_wait \/ \E n \in Notifier : notifier[n] = "cas"

\* There is one way only to lose a wake-up: the notify() came after the
\* waiter's look for work, while the store that closes the latch was pending.
LostOnlyIfOvertaken == NoLostWakeup \/ overtaken

\* A waiter that sleeps although the latch is open is going to be woken up.
SleeperNotified ==
  waiter = "asleep" /\ ~ should_wait =>
    \E n \in Notifier : notifier[n] \in {"lock", "all"}

\* All published work is taken, unless a wake-up is lost in that way.
WorkTaken == (work > 0) ~> (work = 0 \/ overtaken)
=============================================================================
