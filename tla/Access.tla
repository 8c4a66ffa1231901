-------------------------------- MODULE Access --------------------------------
(***************************************************************************)
(* Access policies (redGrapes/resource/access) and the relations between   *)
(* access lists of resource users (resource.hpp, resource_user.hpp).       *)
(*                                                                         *)
(* An access is a record of a resource and a policy value.  The kind of a  *)
(* resource is the template argument AccessPolicy of its C++ type.         *)
(***************************************************************************)
EXTENDS Naturals

CONSTANTS
  Resource,     \* resources
  Kind,         \* [Resource -> Kinds]
  ScopeLevel,   \* [Resource -> Nat], ResourceBase::scope_level
  SizeMax,      \* std::numeric_limits<size_t>::max()
  Dimension     \* the dimension of field resources

Kinds == {"io", "area", "boxes", "field"}

ASSUME AccessAssumption ==
  /\ Kind \in [Resource -> Kinds]
  /\ ScopeLevel \in [Resource -> Nat]
  /\ SizeMax \in Nat \ {0}
  /\ Dimension \in Nat \ {0}

-----------------------------------------------------------------------------
\* IOAccess

IOMode == {"write", "read", "aadd", "amul"}

IOSynchronizing(m) == m = "write"

IOSerial(m, n) == ~ (m = n /\ m \in {"read", "aadd", "amul"})

IOSuperset(m, n) == m = "write" \/ m = n

\* AreaAccess: the half-open interval lo .. hi - 1

Area == [lo : 0..SizeMax, hi : 0..SizeMax]

AreaSynchronizing(a) == a.lo = 0 /\ a.hi = SizeMax

\* Mutant of AreaSerial: takes the upper bound as the last element.
AreaSerialInner(a, b) == a.hi - 1 > b.lo /\ a.lo < b.hi - 1

AreaSerial(a, b) == a.hi > b.lo /\ a.lo < b.hi

AreaSuperset(a, b) == a.lo <= b.lo /\ a.hi >= b.hi

\* ArrayAccess<AreaAccess, Dimension, Op>

Boxes == [1..Dimension -> Area]

ArraySynchronizing(a) == \A i \in 1..Dimension : AreaSynchronizing(a[i])

ArraySerialOr(a, b) == \E i \in 1..Dimension : AreaSerial(a[i], b[i])

ArraySerialAnd(a, b) == \A i \in 1..Dimension : AreaSerial(a[i], b[i])

ArraySuperset(a, b) == \A i \in 1..Dimension : AreaSuperset(a[i], b[i])

\* FieldAccess = CombineAccess<IOAccess, ArrayAccess<AreaAccess, d, And_t>, And_t>

Field == [mode : IOMode, box : Boxes]

FieldSynchronizing(f) == IOSynchronizing(f.mode) /\ ArraySynchronizing(f.box)

FieldSerial(f, g) == IOSerial(f.mode, g.mode) /\ ArraySerialAnd(f.box, g.box)

FieldSuperset(f, g) == IOSuperset(f.mode, g.mode) /\ ArraySuperset(f.box, g.box)

-----------------------------------------------------------------------------
\* ResourceAccess

Policy(k) ==
  CASE k = "io"    -> IOMode
    [] k = "area"  -> Area
    [] k = "boxes" -> Boxes
    [] k = "field" -> Field

\* The accesses that can be built for a resource carry its own policy type.
IsAccess(ra) ==
  /\ ra = [res |-> ra.res, policy |-> ra.policy]
  /\ ra.res \in Resource
  /\ ra.policy \in Policy(Kind[ra.res])

PolicySynchronizing(k, p) ==
  CASE k = "io"    -> IOSynchronizing(p)
    [] k = "area"  -> AreaSynchronizing(p)
    [] k = "boxes" -> ArraySynchronizing(p)
    [] k = "field" -> FieldSynchronizing(p)

PolicySerial(k, p, q) ==
  CASE k = "io"    -> IOSerial(p, q)
    [] k = "area"  -> AreaSerial(p, q)
    [] k = "boxes" -> ArraySerialOr(p, q)
    [] k = "field" -> FieldSerial(p, q)

PolicySuperset(k, p, q) ==
  CASE k = "io"    -> IOSuperset(p, q)
    [] k = "area"  -> AreaSuperset(p, q)
    [] k = "boxes" -> ArraySuperset(p, q)
    [] k = "field" -> FieldSuperset(p, q)

\* ResourceAccess::is_serial and ::is_superset_of answer false for different
\* access types, Resource::Access for different resources.
AccessSerial(a, b) ==
  a.res = b.res /\ PolicySerial(Kind[a.res], a.policy, b.policy)

AccessSuperset(a, b) ==
  a.res = b.res /\ PolicySuperset(Kind[a.res], a.policy, b.policy)

AccessSynchronizing(a) == PolicySynchronizing(Kind[a.res], a.policy)

-----------------------------------------------------------------------------
\* The guards of IOResource and FieldResource, through which tasks get at the
\* data.  A guard is known by the access that it converts to; ReadGuards are
\* in mode "read", WriteGuards in mode "write".

GuardMode(a) == IF Kind[a.res] = "io" THEN a.policy ELSE a.policy.mode

IsGuard(a) == Kind[a.res] \in {"io", "field"} /\ GuardMode(a) \in {"read", "write"}

\* AreaGuard::contains: the elements that get() does not throw for
Index == [1..Dimension -> 0..SizeMax]

Contains(box, index) ==
  \A d \in 1..Dimension : box[d].lo <= index[d] /\ index[d] < box[d].hi

\* make_area throws for a sub area that is not inside.
MakesArea(box, sub) == ArraySuperset(box, sub)

\* Mutant of Derived: a ReadGuard can be made a WriteGuard again.
DerivedInAnyMode(a, b) ==
  /\ IsGuard(a) /\ IsGuard(b) /\ a.res = b.res
  /\ Kind[a.res] = "field" => MakesArea(a.policy.box, b.policy.box)

\* b is made from a by read(), write(), area() or at(): the mode stays, or
\* becomes "read".
Derived(a, b) ==
  /\ IsGuard(a) /\ IsGuard(b) /\ a.res = b.res
  /\ GuardMode(b) \in {GuardMode(a), "read"}
  /\ Kind[a.res] = "field" => MakesArea(a.policy.box, b.policy.box)

\* Both guards give access to the same datum.
ShareDatum(a, b) ==
  /\ a.res = b.res /\ IsGuard(a) /\ IsGuard(b)
  /\ Kind[a.res] = "field" =>
       \E index \in Index : Contains(a.policy.box, index) /\ Contains(b.policy.box, index)

-----------------------------------------------------------------------------
\* ResourceUser: relations between access lists (as sets: neither order nor
\* repetition matters to them)

ListSerial(l, m) == \E a \in l, b \in m : AccessSerial(a, b)

ListHasSyncAccess(l, r) == \E a \in l : a.res = r /\ AccessSynchronizing(a)

\* A child may also use resources that were created inside its parent, i.e.
\* in a deeper scope than the parent's own.
ListSuperset(l, scope, m) ==
  \A b \in m : \/ \E a \in l : AccessSuperset(a, b)
               \/ ScopeLevel[b.res] > scope

\* The access touches something (area accesses can be empty intervals).
NonEmptyPolicy(k, p) ==
  CASE k = "io"    -> TRUE
    [] k = "area"  -> p.lo < p.hi
    [] k = "boxes" -> \E i \in 1..Dimension : p[i].lo < p[i].hi
    [] k = "field" -> \A i \in 1..Dimension : p.box[i].lo < p.box[i].hi

NonEmpty(a) == NonEmptyPolicy(Kind[a.res], a.policy)
=============================================================================
