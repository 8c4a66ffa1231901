--------------------------- MODULE TaskOrderProofs ---------------------------
(***************************************************************************)
(* Proofs about the ordering promised by module TaskOrder, for any number  *)
(* of tasks, any nesting depth and any access policy that satisfies the    *)
(* assumptions of that module.                                             *)
(***************************************************************************)
EXTENDS TaskOrder, TLAPS

(***************************************************************************)
(* The inductive invariant.  Exclusion alone is not inductive: to see that *)
(* starting t is safe when a task u of another space is running, the proof *)
(* walks from u up to the ancestor of u that is a sibling of t.  Nesting   *)
(* says that this ancestor exists, Covers that it inherits the conflict,   *)
(* EnclosingRunning that it is running and SerialOrder that it then        *)
(* precedes t or follows it.                                               *)
(***************************************************************************)

\* The tree of task spaces.
Nesting ==
  \A t \in Task :
    /\ ~ Created(t) => ancestors[t] = {} /\ parent[t] = Root
    /\ Created(t) =>
         /\ parent[t] # Root =>
              /\ parent[t] \in ancestors[t]
              /\ ancestors[parent[t]] \subseteq ancestors[t]
         /\ \A p \in ancestors[t] \union {Root} :
              \E s \in ancestors[t] \union {t} : parent[s] = p
    /\ \A s \in ancestors[t] : Created(s) /\ s # t

\* Whatever conflicts with a task conflicts with every task that encloses it.
Covers ==
  \A t \in Task : \A s \in ancestors[t] : \A x \in AccessList :
    IsSerial(access[t], x) => IsSerial(access[s], x)

IInv ==
  /\ TypeOK
  /\ Nesting
  /\ Covers
  /\ EnclosingRunning
  /\ SerialOrder
  /\ Exclusion

-----------------------------------------------------------------------------
LEMMA InitInv == Init => IInv
  BY TaskAssumption
  DEF Init, IInv, TypeOK, Status, Nesting, Covers, EnclosingRunning,
      SerialOrder, Exclusion, Created, Started, Precedes, Root

\* Creating a task keeps the invariant: no created task has the new one as an
\* ancestor, and no task created later has been started.
LEMMA CreateInv ==
  ASSUME IInv, NEW t \in Task, NEW p \in Task \union {Root},
         NEW a \in AccessList, Create(t, p, a)
  PROVE  IInv'
  <1> USE DEF Created, Started
  <1>1. TypeOK'
    BY DEF IInv, TypeOK, Create, Status
  <1>2. /\ ~ Created(t)
        /\ \A u \in Task : u # t => /\ status'[u] = status[u]
                                    /\ parent'[u] = parent[u]
                                    /\ ancestors'[u] = ancestors[u]
                                    /\ access'[u] = access[u]
        /\ status'[t] = "created" /\ parent'[t] = p /\ access'[t] = a
        /\ ancestors'[t] = IF p = Root THEN {} ELSE ancestors[p] \union {p}
        /\ \A u \in Task : Created(u) => u < t
    BY TaskAssumption DEF IInv, TypeOK, Create, Root
  <1>3. \A u \in Task : t \notin ancestors[u]
    BY <1>2 DEF IInv, Nesting, TypeOK
  <1>4. p # Root => /\ p \in Task /\ p # t /\ status[p] = "running"
                    /\ IsSupersetOf(access[p], a)
                    /\ Created(p)
    BY <1>2 DEF Create, Root
  <1>5. Nesting'
    <2>1. ASSUME NEW u \in Task, u # t
          PROVE  Nesting!(u)'
      BY SMTT(60), <1>2, <1>3, <2>1 DEF IInv, Nesting, TypeOK
    <2>2. CASE p = Root
      BY ZenonT(60), <1>2, <2>2, <2>1, <1>3 DEF Nesting
    <2>3. CASE p # Root
      <3>1. ancestors'[t] = ancestors[p] \union {p}
        BY <1>2, <2>3
      <3>2. \A s \in ancestors'[t] : s \in Task /\ Created(s) /\ s # t
        BY <3>1, <1>4, <2>3, <1>3 DEF IInv, Nesting, TypeOK
      <3>3. \A q \in ancestors'[t] \union {Root} :
              \E s \in ancestors'[t] \union {t} : parent'[s] = q
        <4> SUFFICES ASSUME NEW q \in ancestors'[t] \union {Root}
                     PROVE  \E s \in ancestors'[t] \union {t} : parent'[s] = q
          OBVIOUS
        <4>1. CASE q = p
          BY <4>1, <1>2
        <4>2. CASE q # p
          <5>1. q \in ancestors[p] \union {Root}
            BY <4>2, <3>1
          <5>2. PICK s \in ancestors[p] \union {p} : parent[s] = q
            BY <5>1, <1>4, <2>3 DEF IInv, Nesting
          <5>3. s \in ancestors'[t] /\ parent'[s] = parent[s]
            BY <5>2, <3>1, <3>2, <1>2
          <5> QED BY <5>2, <5>3
        <4> QED BY <4>1, <4>2
      <3>4. Nesting!(t)'
        BY ZenonT(60), <3>1, <3>2, <3>3, <1>2, <1>4, <2>3
      <3> QED BY SMTT(60), <2>1, <3>4 DEF Nesting
    <2> QED BY <2>2, <2>3
  <1>6. Covers'
    <2> SUFFICES ASSUME NEW u \in Task, NEW s \in ancestors'[u],
                        NEW x \in AccessList, IsSerial(access'[u], x)
                 PROVE  IsSerial(access'[s], x)
      BY DEF Covers
    <2>1. CASE u # t
      BY <2>1, <1>2, <1>3 DEF IInv, Covers, TypeOK
    <2>2. CASE u = t
      <3>1. p # Root /\ s \in ancestors[p] \union {p}
        BY <2>2, <1>2
      <3>2. IsSerial(access[p], x)
        BY <2>2, <1>2, <3>1, <1>4, SupersetAssumption DEF IInv, TypeOK
      <3>3. IsSerial(access[s], x)
        BY <3>1, <3>2, <1>4 DEF IInv, Covers
      <3> QED BY <3>1, <3>3, <1>2, <1>3, <1>4 DEF IInv, TypeOK
    <2> QED BY <2>1, <2>2
  <1>7. EnclosingRunning'
    <2> SUFFICES ASSUME NEW u \in Task, status'[u] \in {"created", "running"},
                        NEW s \in ancestors'[u]
                 PROVE  status'[s] = "running"
      BY DEF EnclosingRunning
    <2>1. CASE u # t
      BY <2>1, <1>2, <1>3 DEF IInv, EnclosingRunning, TypeOK
    <2>2. CASE u = t
      <3>1. p # Root /\ s \in ancestors[p] \union {p}
        BY <2>2, <1>2
      <3>2. status[s] = "running" /\ s # t /\ s \in Task
        BY <3>1, <1>4, <1>3 DEF IInv, EnclosingRunning, TypeOK
      <3> QED BY <3>2, <1>2
    <2> QED BY <2>1, <2>2
  <1>8. SerialOrder'
    <2> SUFFICES ASSUME NEW v \in Task, NEW u \in Task,
                        Precedes(u, v)', Started(v)'
                 PROVE  status'[u] = "finished"
      BY DEF SerialOrder
    <2>1. v # t /\ Started(v)
      BY <1>2
    <2>2. v < t
      BY <2>1, <1>2
    <2>3. u # t
      BY <2>2, TaskAssumption DEF Precedes
    <2>4. Precedes(u, v)
      BY <2>1, <2>3, <1>2 DEF Precedes
    <2> QED BY <2>1, <2>3, <2>4, <1>2 DEF IInv, SerialOrder
  <1>9. Exclusion'
    BY <1>2 DEF IInv, Exclusion, Related
  <1> QED BY <1>1, <1>5, <1>6, <1>7, <1>8, <1>9 DEF IInv

\* Starting a task is safe: a running task that conflicts with it and is not
\* related to it would have a sibling of the task, or the task's own parent,
\* in a forbidden pair.
LEMMA StartExcludes ==
  ASSUME IInv, NEW t \in Task, Start(t),
         NEW u \in Task, u # t, status[u] = "running",
         IsSerial(access[t], access[u])
  PROVE  Related(t, u)
  <1> SUFFICES ASSUME ~ Related(t, u)
               PROVE  FALSE
    OBVIOUS
  <1> DEFINE p == parent[t]
  <1>1. /\ status[t] = "created" /\ Created(t) /\ Created(u)
        /\ access[t] \in AccessList /\ access[u] \in AccessList
        /\ IsSerial(access[u], access[t])
    BY SerialAssumption DEF IInv, TypeOK, Start, Created
  <1>2. CASE p \in ancestors[u] \union {Root}
    <2>1. PICK s \in ancestors[u] \union {u} : parent[s] = p
      BY <1>1, <1>2 DEF IInv, Nesting
    <2>2. s \in Task /\ status[s] = "running" /\ s # t
      BY <2>1 DEF IInv, EnclosingRunning, TypeOK, Related
    <2>3. IsSerial(access[s], access[t]) /\ access[s] \in AccessList
      BY <2>1, <2>2, <1>1 DEF IInv, Covers, TypeOK
    <2>4. IsSerial(access[t], access[s])
      BY <2>3, <1>1, SerialAssumption
    <2>5. s < t \/ t < s
      BY <2>2, TaskAssumption
    <2>6. CASE s < t
      BY <2>1, <2>2, <2>3, <2>6 DEF Start, Precedes, Created
    <2>7. CASE t < s
      <3>1. Precedes(t, s) /\ Started(s)
        BY <2>1, <2>2, <2>4, <2>7, <1>1 DEF Precedes, Started
      <3> QED BY <3>1, <2>2, <1>1 DEF IInv, SerialOrder
    <2> QED BY <2>5, <2>6, <2>7
  <1>3. CASE p \notin ancestors[u] \union {Root}
    <2>1. p \in ancestors[t] /\ ancestors[p] \subseteq ancestors[t] /\ p \in Task
      BY <1>1, <1>3 DEF IInv, Nesting, TypeOK
    <2>2. status[p] = "running" /\ IsSerial(access[p], access[u])
      BY <1>1, <2>1 DEF IInv, EnclosingRunning, Covers
    <2>3. p # u /\ ~ Related(p, u)
      BY <2>1, <1>3 DEF Related
    <2> QED BY <2>1, <2>2, <2>3 DEF IInv, Exclusion
  <1> QED BY <1>2, <1>3

LEMMA StartInv ==
  ASSUME IInv, NEW t \in Task, Start(t)
  PROVE  IInv'
  <1> USE DEF Created, Started
  <1>1. /\ status[t] = "created" /\ status'[t] = "running"
        /\ \A u \in Task : u # t => status'[u] = status[u]
        /\ \A u \in Task : Created(u)' <=> Created(u)
        /\ parent' = parent /\ ancestors' = ancestors /\ access' = access
    BY DEF IInv, TypeOK, Start
  <1>2. TypeOK'
    BY DEF IInv, TypeOK, Start, Status
  <1>3. Nesting' /\ Covers'
    BY <1>1 DEF IInv, Nesting, Covers, TypeOK
  <1>4. EnclosingRunning'
    BY <1>1 DEF IInv, EnclosingRunning, TypeOK
  <1>5. SerialOrder'
    <2> SUFFICES ASSUME NEW v \in Task, NEW u \in Task,
                        Precedes(u, v)', Started(v)'
                 PROVE  status'[u] = "finished"
      BY DEF SerialOrder
    <2>1. Precedes(u, v)
      BY <1>1 DEF Precedes
    <2>2. status[u] = "finished"
      BY <1>1, <2>1 DEF IInv, SerialOrder, Start
    <2> QED BY <1>1, <2>2
  <1>6. Exclusion'
    <2> SUFFICES ASSUME NEW v \in Task, NEW u \in Task, v # u,
                        status'[v] = "running", status'[u] = "running",
                        IsSerial(access'[v], access'[u])
                 PROVE  Related(v, u)'
      BY DEF Exclusion
    <2>1. CASE v # t /\ u # t
      BY <2>1, <1>1 DEF IInv, Exclusion, Related
    <2>2. CASE v = t
      BY <2>2, <1>1, StartExcludes DEF Related
    <2>3. CASE u = t
      <3>1. IsSerial(access[u], access[v])
        BY <1>1, SerialAssumption DEF IInv, TypeOK
      <3> QED BY <2>3, <3>1, <1>1, StartExcludes DEF Related
    <2> QED BY <2>1, <2>2, <2>3
  <1> QED BY <1>2, <1>3, <1>4, <1>5, <1>6 DEF IInv

\* Finishing a task is safe: its children have finished, so no deeper
\* descendant can be unfinished either.
LEMMA FinishInv ==
  ASSUME IInv, NEW t \in Task, Finish(t)
  PROVE  IInv'
  <1> USE DEF Created, Started
  <1>1. /\ status[t] = "running" /\ status'[t] = "finished"
        /\ \A u \in Task : u # t => status'[u] = status[u]
        /\ \A u \in Task : Created(u)' <=> Created(u)
        /\ parent' = parent /\ ancestors' = ancestors /\ access' = access
    BY DEF IInv, TypeOK, Finish
  <1>2. TypeOK'
    BY DEF IInv, TypeOK, Finish, Status
  <1>3. Nesting' /\ Covers'
    BY <1>1 DEF IInv, Nesting, Covers, TypeOK
  <1>4. EnclosingRunning'
    <2> SUFFICES ASSUME NEW u \in Task, status'[u] \in {"created", "running"},
                        NEW s \in ancestors[u]
                 PROVE  status'[s] = "running"
      BY <1>1 DEF EnclosingRunning
    <2>1. u # t /\ status[u] \in {"created", "running"} /\ s \in Task
      BY <1>1 DEF IInv, TypeOK
    <2>2. status[s] = "running"
      BY <2>1 DEF IInv, EnclosingRunning
    <2>3. s # t
      <3> SUFFICES ASSUME s = t PROVE FALSE
        OBVIOUS
      <3>1. PICK c \in ancestors[u] \union {u} : parent[c] = t
        BY <2>1 DEF IInv, Nesting
      <3>2. c \in Task /\ status[c] \in {"created", "running"}
        BY <3>1, <2>1 DEF IInv, EnclosingRunning, TypeOK
      <3> QED BY <3>1, <3>2 DEF Finish
    <2> QED BY <2>1, <2>2, <2>3, <1>1
  <1>5. SerialOrder'
    BY <1>1 DEF IInv, SerialOrder, Precedes, TypeOK
  <1>6. Exclusion'
    BY <1>1 DEF IInv, Exclusion, Related, TypeOK
  <1> QED BY <1>2, <1>3, <1>4, <1>5, <1>6 DEF IInv

LEMMA StepInv == IInv /\ [Next]_vars => IInv'
  <1> SUFFICES ASSUME IInv, [Next]_vars
               PROVE  IInv'
    OBVIOUS
  <1>1. CASE UNCHANGED vars
    BY <1>1 DEF vars, IInv, TypeOK, Nesting, Covers, EnclosingRunning,
               SerialOrder, Exclusion, Created, Started, Precedes, Related
  <1>2. CASE Next
    BY <1>2, CreateInv, StartInv, FinishInv DEF Next
  <1> QED BY <1>1, <1>2

\* Every reachable state satisfies the inductive invariant.
THEOREM Invariance == Spec => []IInv
  BY InitInv, StepInv, PTL DEF Spec

\* Status, parents, ancestors and accesses keep their types.
THEOREM TypeCorrect == Spec => []TypeOK
  <1>1. IInv => TypeOK
    BY DEF IInv
  <1> QED BY <1>1, Invariance, PTL

\* Tasks with serial accesses never overlap unless one encloses the other.
THEOREM ExclusionCorrect == Spec => []Exclusion
  <1>1. IInv => Exclusion
    BY DEF IInv
  <1> QED BY <1>1, Invariance, PTL

\* Serial tasks of one task space run in creation order.
THEOREM SerialOrderCorrect == Spec => []SerialOrder
  <1>1. IInv => SerialOrder
    BY DEF IInv
  <1> QED BY <1>1, Invariance, PTL

\* An unfinished task keeps every enclosing task running.
THEOREM EnclosingRunningCorrect == Spec => []EnclosingRunning
  <1>1. IInv => EnclosingRunning
    BY DEF IInv
  <1> QED BY <1>1, Invariance, PTL
=============================================================================
