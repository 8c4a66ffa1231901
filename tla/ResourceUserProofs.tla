-------------------------- MODULE ResourceUserProofs --------------------------
(***************************************************************************)
(* Proofs about access policies and access lists, for every number of      *)
(* users and resources, every size_t and every field dimension.            *)
(***************************************************************************)
EXTENDS ResourceUser, TLAPS

\* The policies of one kind: is_serial is symmetric.
LEMMA PolicySymmetric ==
  ASSUME NEW k \in Kinds, NEW p \in Policy(k), NEW q \in Policy(k)
  PROVE  PolicySerial(k, p, q) <=> PolicySerial(k, q, p)
  <1>1. CASE k = "io"
    BY <1>1 DEF PolicySerial, Policy, IOSerial
  <1>2. CASE k = "area"
    BY <1>2, AccessAssumption DEF PolicySerial, Policy, AreaSerial, Area
  <1>3. CASE k = "boxes"
    <2>1. p \in Boxes /\ q \in Boxes
      BY <1>3 DEF Policy
    <2>2. \A i \in 1..Dimension : AreaSerial(p[i], q[i]) <=> AreaSerial(q[i], p[i])
      BY <2>1, AccessAssumption DEF Boxes, Area, AreaSerial
    <2> QED BY <1>3, <2>2 DEF PolicySerial, ArraySerialOr
  <1>4. CASE k = "field"
    <2>1. p \in Field /\ q \in Field
      BY <1>4 DEF Policy
    <2>2. \A i \in 1..Dimension :
            AreaSerial(p.box[i], q.box[i]) <=> AreaSerial(q.box[i], p.box[i])
      BY <2>1, AccessAssumption DEF Field, Boxes, Area, AreaSerial
    <2>3. IOSerial(p.mode, q.mode) <=> IOSerial(q.mode, p.mode)
      BY DEF IOSerial
    <2> QED BY <1>4, <2>2, <2>3 DEF PolicySerial, FieldSerial, ArraySerialAnd
  <1> QED BY <1>1, <1>2, <1>3, <1>4 DEF Kinds

\* What conflicts with an access conflicts with every superset of it.
LEMMA PolicyMonotone ==
  ASSUME NEW k \in Kinds,
         NEW p \in Policy(k), NEW c \in Policy(k), NEW x \in Policy(k),
         PolicySuperset(k, p, c), PolicySerial(k, c, x)
  PROVE  PolicySerial(k, p, x)
  <1>1. ASSUME NEW m \in IOMode, NEW n \in IOMode, NEW l \in IOMode,
               IOSuperset(m, n), IOSerial(n, l)
        PROVE  IOSerial(m, l)
    BY <1>1 DEF IOMode, IOSuperset, IOSerial
  <1>2. ASSUME NEW a \in Area, NEW b \in Area, NEW d \in Area,
               AreaSuperset(a, b), AreaSerial(b, d)
        PROVE  AreaSerial(a, d)
    BY <1>2, AccessAssumption DEF Area, AreaSuperset, AreaSerial
  <1>3. CASE k = "io"
    BY <1>1, <1>3 DEF Policy, PolicySuperset, PolicySerial
  <1>4. CASE k = "area"
    BY <1>2, <1>4 DEF Policy, PolicySuperset, PolicySerial
  <1>5. CASE k = "boxes"
    <2>1. p \in Boxes /\ c \in Boxes /\ x \in Boxes
      BY <1>5 DEF Policy
    <2>2. PICK i \in 1..Dimension : AreaSerial(c[i], x[i])
      BY <1>5 DEF PolicySerial, ArraySerialOr
    <2>3. AreaSuperset(p[i], c[i])
      BY <1>5 DEF PolicySuperset, ArraySuperset
    <2>4. AreaSerial(p[i], x[i])
      BY <2>1, <2>2, <2>3, <1>2 DEF Boxes
    <2> QED BY <1>5, <2>4 DEF PolicySerial, ArraySerialOr
  <1>6. CASE k = "field"
    <2>1. p \in Field /\ c \in Field /\ x \in Field
      BY <1>6 DEF Policy
    <2>2. FieldSuperset(p, c) /\ FieldSerial(c, x)
      BY <1>6 DEF PolicySuperset, PolicySerial
    <2>3. IOSerial(p.mode, x.mode)
      BY <2>1, <2>2, <1>1 DEF Field, FieldSuperset, FieldSerial
    <2>4. \A i \in 1..Dimension : AreaSerial(p.box[i], x.box[i])
      BY <2>1, <2>2, <1>2
      DEF Field, Boxes, FieldSuperset, FieldSerial, ArraySuperset, ArraySerialAnd
    <2> QED BY <1>6, <2>3, <2>4 DEF PolicySerial, FieldSerial, ArraySerialAnd
  <1> QED BY <1>3, <1>4, <1>5, <1>6 DEF Kinds

\* A synchronizing access conflicts with every access that touches anything.
LEMMA PolicySync ==
  ASSUME NEW k \in Kinds, NEW p \in Policy(k), NEW q \in Policy(k),
         PolicySynchronizing(k, p), NonEmptyPolicy(k, q)
  PROVE  PolicySerial(k, p, q)
  <1>1. ASSUME NEW a \in Area, NEW b \in Area,
               AreaSynchronizing(a), b.lo < b.hi
        PROVE  AreaSerial(a, b)
    BY <1>1, AccessAssumption DEF Area, AreaSynchronizing, AreaSerial
  <1>2. CASE k = "io"
    BY <1>2 DEF PolicySynchronizing, PolicySerial, IOSynchronizing, IOSerial
  <1>3. CASE k = "area"
    BY <1>1, <1>3 DEF Policy, PolicySynchronizing, NonEmptyPolicy, PolicySerial
  <1>4. CASE k = "boxes"
    <2>1. p \in Boxes /\ q \in Boxes
      BY <1>4 DEF Policy
    <2>2. PICK i \in 1..Dimension : q[i].lo < q[i].hi
      BY <1>4 DEF NonEmptyPolicy
    <2>3. AreaSynchronizing(p[i])
      BY <1>4 DEF PolicySynchronizing, ArraySynchronizing
    <2>4. AreaSerial(p[i], q[i])
      BY <2>1, <2>2, <2>3, <1>1 DEF Boxes
    <2> QED BY <1>4, <2>4 DEF PolicySerial, ArraySerialOr
  <1>5. CASE k = "field"
    <2>1. p \in Field /\ q \in Field /\ FieldSynchronizing(p)
      BY <1>5 DEF Policy, PolicySynchronizing
    <2>2. IOSerial(p.mode, q.mode)
      BY <2>1 DEF FieldSynchronizing, IOSynchronizing, IOSerial
    <2>3. \A i \in 1..Dimension : q.box[i].lo < q.box[i].hi
      BY <1>5 DEF NonEmptyPolicy
    <2>4. \A i \in 1..Dimension : AreaSerial(p.box[i], q.box[i])
      BY <2>1, <2>3, <1>1
      DEF Field, Boxes, FieldSynchronizing, ArraySynchronizing
    <2> QED BY <1>5, <2>2, <2>4 DEF PolicySerial, FieldSerial, ArraySerialAnd
  <1> QED BY <1>2, <1>3, <1>4, <1>5 DEF Kinds

\* Every access of the model belongs to a resource and has its policy type.
LEMMA AccessKind ==
  ASSUME NEW a \in Accesses
  PROVE  a.res \in Resource /\ Kind[a.res] \in Kinds /\ a.policy \in Policy(Kind[a.res])
  BY UserAssumption, AccessAssumption DEF IsAccess

LEMMA ListSymmetric ==
  ASSUME NEW l \in SUBSET Accesses, NEW m \in SUBSET Accesses, ListSerial(l, m)
  PROVE  ListSerial(m, l)
  <1>1. PICK a \in l, b \in m : AccessSerial(a, b)
    BY DEF ListSerial
  <1>2. AccessSerial(b, a)
    BY <1>1, AccessKind, PolicySymmetric DEF AccessSerial
  <1> QED BY <1>2 DEF ListSerial

LEMMA ListMonotone ==
  ASSUME NEW l \in SUBSET Accesses, NEW m \in SUBSET Accesses,
         NEW x \in SUBSET Accesses, NEW n \in Nat,
         ListSuperset(l, n, m), ListSerial(m, x),
         \A a \in x : ScopeLevel[a.res] <= n
  PROVE  ListSerial(l, x)
  <1>1. PICK b \in m, d \in x : AccessSerial(b, d)
    BY DEF ListSerial
  <1>2. b.res = d.res /\ ScopeLevel[d.res] \in Nat
    BY <1>1, AccessKind, AccessAssumption DEF AccessSerial
  <1>3. ~ (ScopeLevel[b.res] > n)
    BY <1>2
  <1>4. PICK a \in l : AccessSuperset(a, b)
    BY <1>3 DEF ListSuperset
  <1>5. AccessSerial(a, d)
    <2>1. /\ PolicySuperset(Kind[a.res], a.policy, b.policy)
          /\ PolicySerial(Kind[a.res], b.policy, d.policy)
          /\ a.res = b.res /\ b.res = d.res
      BY <1>1, <1>4 DEF AccessSuperset, AccessSerial
    <2>2. PolicySerial(Kind[a.res], a.policy, d.policy)
      BY <2>1, AccessKind, PolicyMonotone
    <2> QED BY <2>1, <2>2 DEF AccessSerial
  <1> QED BY <1>5 DEF ListSerial

LEMMA ListSync ==
  ASSUME NEW l \in SUBSET Accesses, NEW m \in SUBSET Accesses,
         NEW r \in Resource, ListHasSyncAccess(l, r),
         \E a \in m : a.res = r /\ NonEmpty(a)
  PROVE  ListSerial(l, m)
  <1>1. PICK a \in l : a.res = r /\ AccessSynchronizing(a)
    BY DEF ListHasSyncAccess
  <1>2. PICK b \in m : b.res = r /\ NonEmpty(b)
    OBVIOUS
  <1>3. PolicySerial(Kind[r], a.policy, b.policy)
    BY <1>1, <1>2, AccessKind, PolicySync DEF AccessSynchronizing, NonEmpty
  <1> QED BY <1>1, <1>2, <1>3 DEF ListSerial, AccessSerial

\* Two guards of one field that contain a common element, one of them to write
\* it, conflict.
LEMMA ShareSerial ==
  ASSUME NEW a \in Accesses, NEW b \in Accesses,
         ShareDatum(a, b), GuardMode(a) = "write"
  PROVE  AccessSerial(a, b)
  <1>1. a.res = b.res /\ a.res \in Resource /\ Kind[a.res] \in {"io", "field"}
    BY AccessKind DEF ShareDatum, IsGuard
  <1>2. CASE Kind[a.res] = "io"
    BY <1>1, <1>2 DEF GuardMode, AccessSerial, PolicySerial, IOSerial
  <1>3. CASE Kind[a.res] = "field"
    <2>1. a.policy \in Field /\ b.policy \in Field
      BY <1>1, <1>3, AccessKind DEF Policy
    <2>2. PICK index \in Index :
            Contains(a.policy.box, index) /\ Contains(b.policy.box, index)
      BY <1>3 DEF ShareDatum
    <2>3. ASSUME NEW d \in 1..Dimension
          PROVE  AreaSerial(a.policy.box[d], b.policy.box[d])
      <3>1. a.policy.box[d] \in Area /\ b.policy.box[d] \in Area /\ index[d] \in 0..SizeMax
        BY <2>1, <2>2 DEF Field, Boxes, Index
      <3>2. /\ a.policy.box[d].lo <= index[d] /\ index[d] < a.policy.box[d].hi
            /\ b.policy.box[d].lo <= index[d] /\ index[d] < b.policy.box[d].hi
        BY <2>2 DEF Contains
      <3> QED BY <3>1, <3>2, AccessAssumption DEF Area, AreaSerial
    <2>4. IOSerial(a.policy.mode, b.policy.mode)
      BY <1>3 DEF GuardMode, IOSerial
    <2> QED BY <1>1, <1>3, <2>3, <2>4
            DEF AccessSerial, PolicySerial, FieldSerial, ArraySerialAnd
  <1> QED BY <1>1, <1>2, <1>3

\* A guard covers the guards made from it.
LEMMA DerivedCovered ==
  ASSUME NEW a, NEW b, Derived(a, b)
  PROVE  AccessSuperset(a, b)
  <1>1. a.res = b.res /\ Kind[a.res] \in {"io", "field"} /\ Kind[b.res] = Kind[a.res]
    BY DEF Derived, IsGuard
  <1>2. IOSuperset(GuardMode(a), GuardMode(b))
    BY DEF Derived, IsGuard, IOSuperset
  <1>3. CASE Kind[a.res] = "io"
    BY <1>1, <1>2, <1>3 DEF GuardMode, AccessSuperset, PolicySuperset
  <1>4. CASE Kind[a.res] = "field"
    BY <1>1, <1>2, <1>4
    DEF Derived, MakesArea, GuardMode, AccessSuperset, PolicySuperset, FieldSuperset
  <1> QED BY <1>1, <1>3, <1>4

-----------------------------------------------------------------------------
IInv == TypeOK /\ UniqueResourcesCover

LEMMA InitInv == Init => IInv
  BY DEF Init, IInv, TypeOK, UniqueResourcesCover, NoPatch

LEMMA AddInv ==
  ASSUME IInv, NEW u \in User, NEW ra \in Accesses, AddResourceAccess(u, ra)
  PROVE  IInv'
  <1>1. ra.res \in Resource
    BY AccessKind
  <1>2. TypeOK'
    BY <1>1 DEF IInv, TypeOK, AddResourceAccess
  <1>3. UniqueResourcesCover'
    <2> SUFFICES ASSUME NEW v \in User, NEW a \in access_list'[v]
                 PROVE  unique_resources'[v][a.res] > 0
      BY DEF UniqueResourcesCover
    <2>1. a \in Accesses /\ a.res \in Resource
      BY <1>2, AccessKind DEF TypeOK
    <2>2. CASE v = u /\ a.res = ra.res
      BY <2>1, <2>2, <1>1 DEF IInv, TypeOK, AddResourceAccess
    <2>3. CASE v # u \/ a.res # ra.res
      <3>1. a \in access_list[v]
        BY <2>3 DEF IInv, TypeOK, AddResourceAccess
      <3>2. unique_resources'[v][a.res] = unique_resources[v][a.res]
        BY <2>1, <2>3, <1>1 DEF IInv, TypeOK, AddResourceAccess
      <3> QED BY <3>1, <3>2 DEF IInv, UniqueResourcesCover
    <2> QED BY <2>2, <2>3
  <1> QED BY <1>2, <1>3 DEF IInv

LEMMA ResourcesInv ==
  ASSUME IInv, NEW u \in User, NEW ras \in SUBSET Accesses, Resources(u, ras)
  PROVE  IInv'
  <1> DEFINE list == access_list[u] \union ras
  <1>1. UniqueEntries(unique_resources[u], list) \in [Resource -> Nat]
    BY DEF IInv, TypeOK, UniqueEntries
  <1>2. TypeOK'
    BY <1>1 DEF IInv, TypeOK, Resources
  <1>3. UniqueResourcesCover'
    <2> SUFFICES ASSUME NEW v \in User, NEW a \in access_list'[v]
                 PROVE  unique_resources'[v][a.res] > 0
      BY DEF UniqueResourcesCover
    <2>1. a \in Accesses /\ a.res \in Resource
      BY <1>2, AccessKind DEF TypeOK
    <2>2. CASE v = u
      <3>1. a \in list
        BY <2>2 DEF IInv, TypeOK, Resources
      <3>2. UniqueEntries(unique_resources[u], list)[a.res] = 1
        BY <3>1, <2>1 DEF UniqueEntries
      <3>3. unique_resources'[u] = UniqueEntries(unique_resources[u], list)
        BY DEF IInv, TypeOK, Resources
      <3> QED BY <2>2, <3>2, <3>3
    <2>3. CASE v # u
      BY <2>3 DEF IInv, TypeOK, Resources, UniqueResourcesCover
    <2> QED BY <2>2, <2>3
  <1> QED BY <1>2, <1>3 DEF IInv

LEMMA PatchInv ==
  ASSUME IInv, NEW u \in User, NEW ra \in Accesses, NEW rb \in Accesses,
         ApplyPatch(u, ra, rb)
  PROVE  IInv'
  <1> DEFINE old == access_list[u]
             new == (old \ {ra}) \union {rb}
  <1>1. rb.res \in Resource
    BY AccessKind
  <1>2. /\ access_list' = [access_list EXCEPT ![u] = new]
        /\ unique_resources' = [unique_resources EXCEPT ![u][rb.res] = @ + 1]
        /\ patched' = [patched EXCEPT ![u] =
             [demotes |-> ListSuperset(old, Scope[u], new),
              threw |-> ~ ListSuperset(CopiedList(old), Scope[u], new)]]
    BY DEF ApplyPatch
  <1>3. ListSuperset(old, Scope[u], new) \in BOOLEAN
    BY DEF ListSuperset
  <1>4. TypeOK'
    BY <1>1, <1>2, <1>3 DEF IInv, TypeOK
  <1>5. UniqueResourcesCover'
    <2> SUFFICES ASSUME NEW v \in User, NEW a \in access_list'[v]
                 PROVE  unique_resources'[v][a.res] > 0
      BY DEF UniqueResourcesCover
    <2>1. a \in Accesses /\ a.res \in Resource
      BY <1>4, AccessKind DEF TypeOK
    <2>2. CASE v = u /\ a.res = rb.res
      BY <2>1, <2>2, <1>1, <1>2 DEF IInv, TypeOK
    <2>3. CASE v # u \/ a.res # rb.res
      <3>1. a \in access_list[v]
        BY <2>3, <1>2 DEF IInv, TypeOK
      <3>2. unique_resources'[v][a.res] = unique_resources[v][a.res]
        BY <2>1, <2>3, <1>1, <1>2 DEF IInv, TypeOK
      <3> QED BY <3>1, <3>2 DEF IInv, UniqueResourcesCover
    <2> QED BY <2>2, <2>3
  <1> QED BY <1>4, <1>5 DEF IInv

LEMMA StepInv == IInv /\ [Next]_vars => IInv'
  <1> SUFFICES ASSUME IInv, [Next]_vars
               PROVE  IInv'
    OBVIOUS
  <1>1. CASE UNCHANGED vars
    BY <1>1 DEF vars, IInv, TypeOK, UniqueResourcesCover
  <1>2. CASE Next
    BY <1>2, AddInv, ResourcesInv, PatchInv DEF Next, PassGuard
  <1> QED BY <1>1, <1>2

LEMMA Invariance == Spec => []IInv
  BY InitInv, StepInv, PTL DEF Spec

\* The lists stay within the accesses of the model.
THEOREM TypeCorrect == Spec => []TypeOK
  <1>1. IInv => TypeOK
    BY DEF IInv
  <1> QED BY <1>1, Invariance, PTL

\* Every access of a user is registered, however its list was built.
THEOREM UniqueResourcesCoverCorrect == Spec => []UniqueResourcesCover
  <1>1. IInv => UniqueResourcesCover
    BY DEF IInv
  <1> QED BY <1>1, Invariance, PTL

\* Conflicts between users are symmetric.
THEOREM SerialIsSymmetricCorrect == Spec => []SerialIsSymmetric
  <1>1. IInv => SerialIsSymmetric
    BY ListSymmetric DEF IInv, TypeOK, SerialIsSymmetric
  <1> QED BY <1>1, Invariance, PTL

\* A user inherits the conflicts of the users it is a superset of.
THEOREM SupersetKeepsSerialCorrect == Spec => []SupersetKeepsSerial
  <1>1. IInv => SupersetKeepsSerial
    <2> SUFFICES ASSUME IInv, NEW p \in User, NEW c \in User, NEW x \in User,
                        ListSuperset(access_list[p], Scope[p], access_list[c]),
                        ListSerial(access_list[c], access_list[x]),
                        \A a \in access_list[x] : ScopeLevel[a.res] <= Scope[p]
                 PROVE  ListSerial(access_list[p], access_list[x])
      BY DEF SupersetKeepsSerial
    <2>1. /\ access_list[p] \in SUBSET Accesses
          /\ access_list[c] \in SUBSET Accesses
          /\ access_list[x] \in SUBSET Accesses
          /\ Scope[p] \in Nat
      BY UserAssumption DEF IInv, TypeOK
    <2> QED BY <2>1, ListMonotone
  <1> QED BY <1>1, Invariance, PTL

\* A synchronizing access is ordered against every other access that touches
\* its resource.
THEOREM SyncAccessOrdersAllCorrect == Spec => []SyncAccessOrdersAll
  <1>1. IInv => SyncAccessOrdersAll
    <2> SUFFICES ASSUME IInv, NEW u \in User, NEW v \in User, NEW r \in Resource,
                        ListHasSyncAccess(access_list[u], r),
                        \E a \in access_list[v] : a.res = r /\ NonEmpty(a)
                 PROVE  ListSerial(access_list[u], access_list[v])
      BY DEF SyncAccessOrdersAll
    <2>1. access_list[u] \in SUBSET Accesses /\ access_list[v] \in SUBSET Accesses
      BY DEF IInv, TypeOK
    <2> QED BY <2>1, ListSync
  <1> QED BY <1>1, Invariance, PTL

\* Data that two users can reach, one of them to write it, makes them serial.
THEOREM SharedWritesSerialCorrect == Spec => []SharedWritesSerial
  <1>1. IInv => SharedWritesSerial
    <2> SUFFICES ASSUME IInv, NEW u \in User, NEW v \in User,
                        NEW a \in access_list[u], GuardMode(a) = "write",
                        NEW b \in access_list[v], ShareDatum(a, b)
                 PROVE  ListSerial(access_list[u], access_list[v])
      BY DEF SharedWritesSerial
    <2>1. a \in Accesses /\ b \in Accesses
      BY DEF IInv, TypeOK
    <2> QED BY <2>1, ShareSerial DEF ListSerial
  <1> QED BY <1>1, Invariance, PTL

\* Passing on a guard made from one of the parent's keeps the child covered.
THEOREM DerivedGuardsCoveredCorrect == Spec => DerivedGuardsCovered
  <1>1. IInv /\ [Next]_vars =>
          [\A c \in User : \A b \in access_list'[c] \ access_list[c] :
             \A p \in User \ {c} : \A a \in access_list[p] :
               /\ PassGuard(p, c, a, b)
               /\ ListSuperset(access_list[p], Scope[p], access_list[c])
               => ListSuperset(access_list[p], Scope[p], access_list'[c])]_vars
    <2> SUFFICES ASSUME IInv, NEW c \in User, NEW b \in access_list'[c] \ access_list[c],
                        NEW p \in User \ {c}, NEW a \in access_list[p],
                        PassGuard(p, c, a, b),
                        ListSuperset(access_list[p], Scope[p], access_list[c])
                 PROVE  ListSuperset(access_list[p], Scope[p], access_list'[c])
      OBVIOUS
    <2>1. access_list'[c] = access_list[c] \union {b}
      BY DEF IInv, TypeOK, PassGuard, AddResourceAccess
    <2>2. AccessSuperset(a, b)
      BY DerivedCovered DEF PassGuard
    <2> QED BY <2>1, <2>2 DEF ListSuperset
  <1> QED BY <1>1, Invariance, PTL DEF Spec, DerivedGuardsCovered
=============================================================================
