---------------------------- MODULE MCResourceUser ----------------------------
(***************************************************************************)
(* Small instances of ResourceUser: an I/O resource, a field resource with *)
(* two dimensions, and an area resource created in a deeper scope.         *)
(***************************************************************************)
EXTENDS ResourceUser, Sequences, TLC

CONSTANT child

MCResource == {"buf", "field", "local"}
MCKind == [r \in MCResource |->
             IF r = "buf" THEN "io" ELSE IF r = "field" THEN "field" ELSE "area"]
MCScopeLevel == [r \in MCResource |-> IF r = "local" THEN 1 ELSE 0]

IO(m) == [res |-> "buf", policy |-> m]
Span(l, h) == [lo |-> l, hi |-> h]
Cell(m, a, b) == [res |-> "field", policy |-> [mode |-> m, box |-> <<a, b>>]]

\* The lists of three users: two in the root space, one inside of a task.
RelationAccesses ==
  {IO("write"), IO("read"),
   Cell("write", Span(0, 2), Span(0, 2)), Cell("read", Span(0, 1), Span(0, 2)),
   [res |-> "local", policy |-> Span(0, 2)]}
RelationScope == [u \in User |-> IF u = child THEN 1 ELSE 0]

\* The accesses of the tutorial on demotion: a writer becomes a reader.
DemotionAccesses == {IO("write"), IO("read")}

Symmetry == Permutations(User \ {child})
=============================================================================
