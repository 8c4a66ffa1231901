------------------------------ MODULE TaskOrder ------------------------------
(***************************************************************************)
(* What the redGrapes runtime promises about the tasks of a program.       *)
(*                                                                         *)
(* Tasks are created in program order, at the top level or inside the body *)
(* of a running task.  Two tasks of one task space whose accesses are      *)
(* serial run in the order in which they were created, and a task counts   *)
(* as finished (its post-event is reached) only when its children do.      *)
(* How the runtime achieves this with events, follower lists and locks is  *)
(* the subject of module TaskGraph, which implements this specification.   *)
(***************************************************************************)
EXTENDS Naturals

CONSTANTS
  Task,                \* task ids; smaller ids are created earlier
  AccessList,          \* the access lists a task can be created with
  IsSerial(_, _),      \* is_serial(ResourceUser, ResourceUser)
  IsSupersetOf(_, _)   \* ResourceUser::is_superset_of

Root == 0              \* "no parent": the task is in the root space

ASSUME TaskAssumption == Task \subseteq Nat \ {Root}

\* The facts about accesses that the ordering rests on.  Module ResourceUserProofs
\* derives them for the access policies of the library.
ASSUME SerialAssumption ==
  \A a, b \in AccessList :
    /\ IsSerial(a, b) \in BOOLEAN
    /\ IsSerial(a, b) => IsSerial(b, a)

ASSUME SupersetAssumption ==
  \A a, b, c \in AccessList :
    /\ IsSupersetOf(a, b) \in BOOLEAN
    /\ IsSupersetOf(a, b) /\ IsSerial(b, c) => IsSerial(a, c)

VARIABLES
  status,      \* life cycle of every task
  parent,      \* the task whose body created it, or Root
  ancestors,   \* all enclosing tasks
  access       \* its access list; meaningless before it is created

vars == <<status, parent, ancestors, access>>

Status == {"none", "created", "running", "finished"}

TypeOK ==
  /\ status \in [Task -> Status]
  /\ parent \in [Task -> Task \union {Root}]
  /\ ancestors \in [Task -> SUBSET Task]
  /\ access \in [Task -> AccessList]

Created(t) == status[t] # "none"
Started(t) == status[t] \in {"running", "finished"}

\* u precedes t in t's task space and their accesses are serial.
Precedes(u, t) ==
  /\ u < t
  /\ Created(u)
  /\ parent[u] = parent[t]
  /\ IsSerial(access[u], access[t])

Init ==
  /\ status = [t \in Task |-> "none"]
  /\ parent = [t \in Task |-> Root]
  /\ ancestors = [t \in Task |-> {}]
  /\ access \in [Task -> AccessList]

\* Mutant of Create: a child may use what its parent does not.
CreateUnchecked(t, p, a) ==
  /\ \A u \in Task : u >= t => ~ Created(u)
  /\ p # Root => status[p] = "running"
  /\ status' = [status EXCEPT ![t] = "created"]
  /\ parent' = [parent EXCEPT ![t] = p]
  /\ ancestors' = [ancestors EXCEPT
                     ![t] = IF p = Root THEN {} ELSE ancestors[p] \union {p}]
  /\ access' = [access EXCEPT ![t] = a]

\* A task is created by the main thread (p = Root) or by the body of p.
Create(t, p, a) ==
  /\ \A u \in Task : u >= t => ~ Created(u)
  /\ p # Root => status[p] = "running" /\ IsSupersetOf(access[p], a)
  /\ status' = [status EXCEPT ![t] = "created"]
  /\ parent' = [parent EXCEPT ![t] = p]
  /\ ancestors' = [ancestors EXCEPT
                     ![t] = IF p = Root THEN {} ELSE ancestors[p] \union {p}]
  /\ access' = [access EXCEPT ![t] = a]

\* A worker runs t once every serial predecessor has finished.
Start(t) ==
  /\ status[t] = "created"
  /\ \A u \in Task : Precedes(u, t) => status[u] = "finished"
  /\ status' = [status EXCEPT ![t] = "running"]
  /\ UNCHANGED <<parent, ancestors, access>>

\* The body of t has ended, and so have all the children it created.
Finish(t) ==
  /\ status[t] = "running"
  /\ \A c \in Task : Created(c) /\ parent[c] = t => status[c] = "finished"
  /\ status' = [status EXCEPT ![t] = "finished"]
  /\ UNCHANGED <<parent, ancestors, access>>

Next ==
  \E t \in Task :
    \/ \E p \in Task \union {Root}, a \in AccessList : Create(t, p, a)
    \/ Start(t)
    \/ Finish(t)

Spec == Init /\ [][Next]_vars

-----------------------------------------------------------------------------
Related(t, u) == t \in ancestors[u] \/ u \in ancestors[t]

\* Two tasks whose accesses are serial never run at the same time, at whatever
\* depth of nesting they are, unless one of them encloses the other.
Exclusion ==
  \A t, u \in Task :
    /\ t # u
    /\ status[t] = "running" /\ status[u] = "running"
    /\ IsSerial(access[t], access[u])
    => Related(t, u)

\* Serial tasks of one space run in the order in which they were created.
SerialOrder ==
  \A t, u \in Task : Precedes(u, t) /\ Started(t) => status[u] = "finished"

\* While a task is unfinished every task that encloses it is still running,
\* so the post-event of a task stands for its whole subtree.
EnclosingRunning ==
  \A t \in Task : status[t] \in {"created", "running"} =>
    \A p \in ancestors[t] : status[p] = "running"
=============================================================================
