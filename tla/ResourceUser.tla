----------------------------- MODULE ResourceUser -----------------------------
(***************************************************************************)
(* The access lists of resource users (tasks): how they are built by the   *)
(* task builder, how a running task patches its own list, and what the     *)
(* dependency analysis of module TaskGraph relies on.                      *)
(***************************************************************************)
EXTENDS Access, FiniteSets

CONSTANTS
  User,        \* the resource users
  Scope,       \* [User -> Nat], ResourceUser::scope_level
  Accesses,    \* the accesses that the users can ask for
  MaxAccess,   \* bound: accesses per list
  MaxEntries   \* bound: entries of unique_resources per resource

ASSUME UserAssumption ==
  /\ Scope \in [User -> Nat]
  /\ \A ra \in Accesses : IsAccess(ra)
  /\ MaxAccess \in Nat
  /\ MaxEntries \in Nat

VARIABLES
  access_list,        \* [User -> SUBSET Accesses]
  unique_resources,   \* [User -> [Resource -> Nat]], number of entries
  patched             \* history: did the last apply_patch only demote, did it throw

vars == <<access_list, unique_resources, patched>>

NoPatch == [demotes |-> TRUE, threw |-> FALSE]

TypeOK ==
  /\ access_list \in [User -> SUBSET Accesses]
  /\ unique_resources \in [User -> [Resource -> Nat]]
  /\ patched \in [User -> [demotes : BOOLEAN, threw : BOOLEAN]]

Init ==
  /\ access_list = [u \in User |-> {}]
  /\ unique_resources = [u \in User |-> [r \in Resource |-> 0]]
  /\ patched = [u \in User |-> NoPatch]

\* ResourceUser::add_resource_access pushes an entry for the resource whether
\* or not the list already has one.
AddResourceAccess(u, ra) ==
  /\ Cardinality(access_list[u]) < MaxAccess
  /\ unique_resources[u][ra.res] < MaxEntries
  /\ access_list' = [access_list EXCEPT ![u] = @ \union {ra}]
  /\ unique_resources' = [unique_resources EXCEPT ![u][ra.res] = @ + 1]
  /\ UNCHANGED patched

\* Inside of task p, a child c is emplaced with a guard b, which is made from
\* one that p has.
PassGuard(p, c, a, b) ==
  /\ a \in access_list[p]
  /\ Derived(a, b)
  /\ AddResourceAccess(c, b)

\* Mutant of UniqueEntries: erases without pushing.
UniqueEntriesErased(entries, list) ==
  [r \in Resource |-> IF \E ra \in list : ra.res = r THEN 0 ELSE entries[r]]

\* build_unique_resource_list erases all entries of each resource in use and
\* pushes one.
UniqueEntries(entries, list) ==
  [r \in Resource |-> IF \E ra \in list : ra.res = r THEN 1 ELSE entries[r]]

\* ResourceProperty::Builder::resources
Resources(u, ras) ==
  LET list == access_list[u] \union ras
  IN  /\ Cardinality(list) <= MaxAccess
      /\ access_list' = [access_list EXCEPT ![u] = list]
      /\ unique_resources' =
           [unique_resources EXCEPT ![u] = UniqueEntries(@, list)]
      /\ UNCHANGED patched

\* ChunkedList's copy constructor copies no element.
CopiedList(list) == {}

\* apply_patch with a patch that removes one access (which the list need not
\* have) and adds one.  Both stay done when the check against the copy of the
\* old list throws.
ApplyPatch(u, remove, add) ==
  LET old == access_list[u]
      new == (old \ {remove}) \union {add}
  IN  /\ old # {}
      /\ Cardinality(new) <= MaxAccess
      /\ unique_resources[u][add.res] < MaxEntries
      /\ access_list' = [access_list EXCEPT ![u] = new]
      /\ unique_resources' = [unique_resources EXCEPT ![u][add.res] = @ + 1]
      /\ patched' = [patched EXCEPT ![u] =
           [demotes |-> ListSuperset(old, Scope[u], new),
            threw |-> ~ ListSuperset(CopiedList(old), Scope[u], new)]]

Next ==
  \E u \in User :
    \/ \E ra \in Accesses : AddResourceAccess(u, ra)
    \/ \E p \in User, b \in Accesses : \E a \in access_list[p] : PassGuard(p, u, a, b)
    \/ \E ras \in SUBSET Accesses : Resources(u, ras)
    \/ \E ra, rb \in Accesses : ApplyPatch(u, ra, rb)

Spec == Init /\ [][Next]_vars

-----------------------------------------------------------------------------
\* is_serial does not depend on which of the two users is asked: init_graph
\* asks (preceding, task), update_graph asks (task, follower).
SerialIsSymmetric ==
  \A u, v \in User :
    ListSerial(access_list[u], access_list[v])
      <=> ListSerial(access_list[v], access_list[u])

\* A user x that has no access to resources of a deeper scope than p's own
\* conflicts with p if it conflicts with a user c that p is a superset of.
\* So ordering p against x also orders everything that p may create.
SupersetKeepsSerial ==
  \A p, c, x \in User :
    /\ ListSuperset(access_list[p], Scope[p], access_list[c])
    /\ ListSerial(access_list[c], access_list[x])
    /\ \A a \in access_list[x] : ScopeLevel[a.res] <= Scope[p]
    => ListSerial(access_list[p], access_list[x])

\* A synchronizing access conflicts with every access of its resource that
\* touches anything.  init_graph stops its search at such an access, because
\* everything before it is then ordered transitively.
SyncAccessOrdersAll ==
  \A u, v \in User, r \in Resource :
    /\ ListHasSyncAccess(access_list[u], r)
    /\ \E a \in access_list[v] : a.res = r /\ NonEmpty(a)
    => ListSerial(access_list[u], access_list[v])

\* Two users whose guards give them the same element of a field, or the same
\* object, and one of them to write it, are serial: whatever get() lets
\* through is ordered.
SharedWritesSerial ==
  \A u, v \in User : \A a \in access_list[u] :
    IsGuard(a) /\ GuardMode(a) = "write" =>
      \A b \in access_list[v] :
        ShareDatum(a, b) => ListSerial(access_list[u], access_list[v])

\* A child that has only guards made from those of its parent passes the
\* is_superset_of test of TaskSpace::submit: adding one does not spoil it.
DerivedGuardsCovered ==
  [][\A c \in User : \A b \in access_list'[c] \ access_list[c] :
       \A p \in User \ {c} : \A a \in access_list[p] :
         /\ PassGuard(p, c, a, b)
         /\ ListSuperset(access_list[p], Scope[p], access_list[c])
         => ListSuperset(access_list[p], Scope[p], access_list'[c])]_vars

\* Every resource that a user accesses has an entry in unique_resources: an
\* access without one would never be registered and never be ordered.
UniqueResourcesCover ==
  \A u \in User : \A ra \in access_list[u] : unique_resources[u][ra.res] > 0

\* apply_patch takes every patch that only demotes the accesses of the task, as
\* the tutorial says.  This fails: the old list that it compares with is a copy,
\* and the copy is empty, so that what is left in the task's own scope is refused.
DemotionAccepted ==
  \A u \in User : patched[u].demotes => ~ patched[u].threw
=============================================================================
