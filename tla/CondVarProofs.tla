---------------------------- MODULE CondVarProofs ----------------------------
(***************************************************************************)
(* However many threads notify a CondVar and however long it spins, a      *)
(* sleeper behind an open latch is notified, and a wake-up is lost only to *)
(* a notify() that comes between the waiter's look for work and the moment *)
(* at which the store that ends wait() becomes visible.                    *)
(***************************************************************************)
EXTENDS CondVar, TLAPS

\* A pending store means that the waiter has left wait() with the latch open
\* and has not come to the mutex since.
StorePending ==
  buffered => ~ should_wait /\ waiter \in {"check", "begin", "spin", "second", "lock"}

\* Only the waiter closes the latch, so it stays open until wait() ends.
OpenUntilLeft == waiter = "leave" => ~ should_wait /\ ~ buffered

\* Work that came behind a pending store has a notify() coming, or had one.
PendingNoticed ==
  buffered /\ waiter \in Waiting /\ work > 0 =>
    overtaken \/ \E n \in Notifier : notifier[n] = "cas"

IInv ==
  /\ TypeOK
  /\ StorePending
  /\ OpenUntilLeft
  /\ PendingNoticed
  /\ LostOnlyIfOvertaken
  /\ SleeperNotified

\* In the initial state the waiter is not in wait() and nothing is pending.
LEMMA InitIInv == Init => IInv
<1> SUFFICES ASSUME Init PROVE IInv
  OBVIOUS
<1>1. TypeOK
  <2>1. count \in 0..(Timeout + 1) /\ work \in Nat /\ posted \in 0..MaxPost
    BY CondVarAssumption, SMT DEF CondVarAssumption, Init
  <2>2. /\ should_wait \in BOOLEAN /\ buffered \in BOOLEAN /\ overtaken \in BOOLEAN
        /\ m \in Notifier \union {Waiter, NoThread}
        /\ waiter \in {"check", "leave"} \union Waiting
    BY Zenon DEF Init
  <2>3. notifier \in [Notifier -> {"idle", "cas", "lock", "all"}]
    BY DEF Init
  <2> QED
    BY <2>1, <2>2, <2>3 DEF TypeOK
<1>2. StorePending /\ OpenUntilLeft /\ PendingNoticed
  BY DEF Init, StorePending, OpenUntilLeft, PendingNoticed
<1>3. LostOnlyIfOvertaken /\ SleeperNotified
  BY DEF Init, LostOnlyIfOvertaken, NoLostWakeup, SleeperNotified, Waiting
<1> QED
  BY <1>1, <1>2, <1>3 DEF IInv

\* Every step of the waiter and of the notifiers keeps the types.
LEMMA TypeStep == TypeOK /\ [Next]_vars => TypeOK'
<1> SUFFICES ASSUME TypeOK, [Next]_vars PROVE TypeOK'
  OBVIOUS
<1> USE CondVarAssumption DEF CondVarAssumption, TypeOK, Waiting
<1>1. CASE TakeWork \/ LookInVain \/ BeginWait
  BY <1>1 DEF TakeWork, LookInVain, BeginWait
<1>2. CASE Spin
  <2>1. count' \in 0..(Timeout + 1)
    BY <1>2 DEF Spin
  <2>2. waiter' \in {"check", "leave"} \union Waiting
    BY <1>2 DEF Spin
  <2> QED
    BY <1>2, <2>1, <2>2 DEF Spin
<1>3. CASE TestAgain \/ LockMutex \/ TestPredicate \/ SpuriousWakeup
  BY <1>3 DEF TestAgain, LockMutex, TestPredicate, SpuriousWakeup
<1>4. CASE EndWait \/ Drain
  BY <1>4 DEF EndWait, Drain
<1>5. ASSUME NEW n \in Notifier, Publish(n) PROVE TypeOK'
  BY <1>5 DEF Publish
<1>6. ASSUME NEW n \in Notifier, NotifyExchange(n) PROVE TypeOK'
  BY <1>6 DEF NotifyExchange
<1>7. ASSUME NEW n \in Notifier, NotifyLock(n) \/ NotifyAll(n) PROVE TypeOK'
  BY <1>7 DEF NotifyLock, NotifyAll
<1>8. CASE UNCHANGED vars
  BY <1>8 DEF vars
<1> QED
  BY <1>1, <1>2, <1>3, <1>4, <1>5, <1>6, <1>7, <1>8
  DEF Next, WaiterStep, NotifierStep

\* The store at the end of wait() is made with the latch open, and is visible
\* before the waiter gets the mutex again.
LEMMA StoreStep ==
  ASSUME IInv, [Next]_vars
  PROVE  StorePending' /\ OpenUntilLeft'
<1> USE DEF IInv, TypeOK, StorePending, OpenUntilLeft
<1>1. CASE TakeWork \/ LookInVain \/ BeginWait
  BY <1>1 DEF TakeWork, LookInVain, BeginWait
<1>2. CASE Spin \/ TestAgain
  BY <1>2 DEF Spin, TestAgain, View
<1>3. CASE LockMutex \/ TestPredicate \/ SpuriousWakeup
  BY <1>3 DEF LockMutex, TestPredicate, SpuriousWakeup
<1>4. CASE EndWait \/ Drain
  BY <1>4 DEF EndWait, Drain
<1>5. ASSUME NEW n \in Notifier, Publish(n) \/ NotifierStep(n)
      PROVE  StorePending' /\ OpenUntilLeft'
  BY <1>5 DEF Publish, NotifierStep, NotifyExchange, NotifyLock, NotifyAll
<1>6. CASE UNCHANGED vars
  BY <1>6 DEF vars
<1> QED
  BY <1>1, <1>2, <1>3, <1>4, <1>5, <1>6 DEF Next, WaiterStep

\* Work that comes while the waiter is in wait() opens the latch, or its
\* notify() is overtaken by the pending store.
LEMMA WakeupStep ==
  ASSUME IInv, [Next]_vars
  PROVE  (PendingNoticed /\ LostOnlyIfOvertaken)'
<1> USE DEF IInv, TypeOK, StorePending, PendingNoticed, LostOnlyIfOvertaken,
            NoLostWakeup, Waiting
<1>1. CASE TakeWork \/ LookInVain \/ BeginWait
  BY <1>1 DEF TakeWork, LookInVain, BeginWait
<1>2. CASE Spin \/ TestAgain
  BY <1>2 DEF Spin, TestAgain
<1>3. CASE LockMutex \/ TestPredicate \/ SpuriousWakeup
  BY <1>3 DEF LockMutex, TestPredicate, SpuriousWakeup
<1>4. CASE EndWait \/ Drain
  BY <1>4 DEF EndWait, Drain, StorePending
<1>5. ASSUME NEW n \in Notifier, Publish(n) PROVE (PendingNoticed /\ LostOnlyIfOvertaken)'
  BY <1>5 DEF Publish
<1>6. ASSUME NEW n \in Notifier, NotifyExchange(n) PROVE (PendingNoticed /\ LostOnlyIfOvertaken)'
  BY <1>6 DEF NotifyExchange
<1>7. ASSUME NEW n \in Notifier, NotifyLock(n) \/ NotifyAll(n) PROVE (PendingNoticed /\ LostOnlyIfOvertaken)'
  BY <1>7 DEF NotifyLock, NotifyAll
<1>8. CASE UNCHANGED vars
  BY <1>8 DEF vars
<1> QED
  BY <1>1, <1>2, <1>3, <1>4, <1>5, <1>6, <1>7, <1>8
  DEF Next, WaiterStep, NotifierStep

\* The waiter goes to sleep with the latch closed, and whoever opens it then
\* goes on to notify_all().
LEMMA SleeperStep ==
  ASSUME IInv, [Next]_vars
  PROVE  SleeperNotified'
<1> USE DEF IInv, TypeOK, SleeperNotified
<1>1. CASE TakeWork \/ LookInVain \/ BeginWait \/ Spin \/ TestAgain
  BY <1>1 DEF TakeWork, LookInVain, BeginWait, Spin, TestAgain
<1>2. CASE LockMutex \/ TestPredicate \/ SpuriousWakeup
  BY <1>2 DEF LockMutex, TestPredicate, SpuriousWakeup
<1>3. CASE EndWait \/ Drain
  BY <1>3 DEF EndWait, Drain, StorePending
<1>4. ASSUME NEW n \in Notifier, Publish(n) PROVE SleeperNotified'
  BY <1>4 DEF Publish
<1>5. ASSUME NEW n \in Notifier, NotifyExchange(n) PROVE SleeperNotified'
  BY <1>5 DEF NotifyExchange
<1>6. ASSUME NEW n \in Notifier, NotifyLock(n) \/ NotifyAll(n) PROVE SleeperNotified'
  BY <1>6 DEF NotifyLock, NotifyAll
<1>7. CASE UNCHANGED vars
  BY <1>7 DEF vars
<1> QED
  BY <1>1, <1>2, <1>3, <1>4, <1>5, <1>6, <1>7 DEF Next, WaiterStep, NotifierStep

\* The inductive invariant of CondVar.
THEOREM Invariance == Spec => []IInv
<1>1. Init => IInv
  BY InitIInv
<1>2. IInv /\ [Next]_vars => IInv'
  BY TypeStep, StoreStep, WakeupStep, SleeperStep DEF IInv
<1> QED
  BY <1>1, <1>2, PTL DEF Spec

\* CondVar::notify() loses a wake-up only if it comes between the waiter's
\* look for work and the visibility of the store in CondVar::wait().
THEOREM LostOnlyIfOvertakenCorrect == Spec => []LostOnlyIfOvertaken
<1>1. IInv => LostOnlyIfOvertaken
  BY DEF IInv
<1> QED
  BY <1>1, Invariance, PTL

\* A waiter that std::condition_variable holds asleep with the latch open has
\* a notify_all() coming.
THEOREM SleeperNotifiedCorrect == Spec => []SleeperNotified
<1>1. IInv => SleeperNotified
  BY DEF IInv
<1> QED
  BY <1>1, Invariance, PTL
=============================================================================
